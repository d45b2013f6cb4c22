------------------------------ MODULE HeapProofs ------------------------------
(* Proofs about module Heap, for every size of pages, headers and requests,  *)
(* every alignment that divides them and every set of free frames.           *)
EXTENDS Heap, NatFacts, SequenceTheorems, FiniteSetTheorems

-----------------------------------------------------------------------------
(* Addresses, pages and multiples of the alignment. *)

LEMMA SizeFacts ==
  /\ PAGE_SIZE \in Nat \ {0} /\ HeaderSize \in Nat \ {0} /\ HeaderSize < PAGE_SIZE
  /\ HEAP_ALIGNMENT \in Nat \ {0} /\ HEAP_EXPAND_SIZE \in Nat \ {0}
  /\ PageEntries \in Nat \ {0} /\ DirEntries \in Nat \ {0}
  /\ PageEntries * DirEntries \in Nat
  /\ FirstPage \in Nat /\ PageEntries < FirstPage /\ FirstPage < PageEntries * DirEntries
  /\ 0 \in Dirs /\ 0 \in Pages
BY HeapAssumption, PagingAssumption DEF Pages, Dirs

LEMMA Times == ASSUME NEW a \in Nat, NEW b \in Nat PROVE a * b \in Nat /\ a * b = b * a
BY SMT

LEMMA SpaceIs ==
  /\ AddressSpace = PageEntries * DirEntries * PAGE_SIZE
  /\ AddressSpace \in Nat \ {0}
<1>1. \A a, b, c \in Nat \ {0} : c * a * b = a * b * c /\ c * a * b \in Nat \ {0}
  BY SMT
<1> QED BY <1>1, SizeFacts DEF AddressSpace

\* A page lies below every higher one.
LEMMA PageBelow ==
  ASSUME NEW p \in Nat, NEW q \in Nat, p < q
  PROVE  /\ p * PAGE_SIZE \in Nat /\ q * PAGE_SIZE \in Nat
         /\ p * PAGE_SIZE + PAGE_SIZE <= q * PAGE_SIZE
<1>1. \A c \in Nat : p * c \in Nat /\ q * c \in Nat /\ p * c + c <= q * c
  BY SMT
<1> QED BY <1>1, SizeFacts

LEMMA PageBytes ==
  ASSUME NEW p \in Nat, NEW x \in Nat
  PROVE  x \div PAGE_SIZE = p <=> (p * PAGE_SIZE <= x /\ x < p * PAGE_SIZE + PAGE_SIZE)
<1>1. \A c \in Nat \ {0} : x \div c = p <=> (p * c <= x /\ x < p * c + c)
  BY SMT
<1> QED BY <1>1, SizeFacts

\* The frames of one page are those of the page after it, one page up.
LEMMA PageNext ==
  ASSUME NEW p \in Nat
  PROVE  (p + 1) * PAGE_SIZE = p * PAGE_SIZE + PAGE_SIZE /\ p * PAGE_SIZE \in Nat
<1>1. \A c \in Nat : (p + 1) * c = p * c + c /\ p * c \in Nat
  BY SMT
<1> QED BY <1>1, SizeFacts

LEMMA AlignedSum ==
  ASSUME NEW a \in Nat, NEW b \in Nat, a % HEAP_ALIGNMENT = 0, b % HEAP_ALIGNMENT = 0
  PROVE  (a + b) % HEAP_ALIGNMENT = 0 /\ (a <= b => (b - a) % HEAP_ALIGNMENT = 0)
BY SizeFacts, ModSum

LEMMA AlignedPage ==
  ASSUME NEW p \in Nat
  PROVE  (p * PAGE_SIZE) % HEAP_ALIGNMENT = 0
BY SizeFacts, HeapAssumption, ModProduct

\* What kmalloc rounds a request to.
LEMMA RoundedIs ==
  ASSUME NEW n \in 1 .. AddressSpace - 1
  PROVE  /\ Rounded(n) \in Nat /\ Rounded(n) % HEAP_ALIGNMENT = 0
         /\ Rounded(n) >= n \/ n > AddressSpace - HEAP_ALIGNMENT
<1> DEFINE c == HEAP_ALIGNMENT
           s == AddressSpace
           m == (n + c - 1) % s
           k == m % c
           y == m \div c
<1>1. c \in Nat \ {0} /\ s \in Nat \ {0} /\ n \in Nat /\ n < s
  BY SizeFacts, SpaceIs
<1>2. Rounded(n) = m - k
  BY DEF Rounded, size32
<1> HIDE DEF c, s
<1>3. m \in Nat /\ (n + c - 1 < s => m = n + c - 1)
  BY <1>1
<1> HIDE DEF m
<1>4. y \in Nat /\ k \in 0 .. c - 1 /\ m = c * y + k
  BY <1>1, <1>3, DivType, ModType
<1> HIDE DEF k, y
<1>5. c * y \in Nat /\ (c * y) % c = 0
  BY <1>1, <1>4, ModZero, Times
<1>6. m - k = c * y
  BY <1>3, <1>4, <1>5
<1>7. m - k >= n \/ n > s - c
  BY <1>1, <1>3, <1>4
<1> QED BY <1>2, <1>5, <1>6, <1>7 DEF c, s

-----------------------------------------------------------------------------
(* Pages in the order they are handed out: from FirstPage up and, when       *)
(* next_virt has passed the top, from page 0.                                *)

NumPages == PageEntries * DirEntries
Rank(p)  == IF p >= FirstPage THEN p ELSE p + NumPages

LEMMA NumFacts ==
  NumPages \in Nat /\ FirstPage < NumPages /\ PageEntries < FirstPage /\ FirstPage \in Nat
  /\ Pages = 0 .. NumPages - 1 /\ PageEntries \in Nat \ {0}
BY SizeFacts DEF NumPages, Pages

LEMMA RankType ==
  ASSUME NEW p \in Nat
  PROVE  Rank(p) \in Nat /\ p <= Rank(p)
BY SizeFacts DEF Rank, NumPages

LEMMA AdvanceIs ==
  ASSUME NEW p \in Pages
  PROVE  /\ Advance(p) = (IF p + 1 = NumPages THEN 0 ELSE p + 1) /\ Advance(p) \in Pages
         /\ p \in Nat /\ p < NumPages
<1>1. NumPages \in Nat /\ NumPages > 1 /\ p \in 0 .. NumPages - 1
  BY SizeFacts DEF Pages, NumPages
<1>2. (p + 1) % NumPages = IF p + 1 = NumPages THEN 0 ELSE p + 1
  BY <1>1
<1>3. Advance(p) = (p + 1) % NumPages
  BY DEF Advance, NumPages
<1> QED BY <1>1, <1>2, <1>3 DEF Pages, NumPages

-----------------------------------------------------------------------------
(* What vmm_alloc_page and vmm_free_page do, from the lemmas of VmmProofs.   *)

V == INSTANCE VmmProofs WITH frames <- {}, given <- {}, result <- 0

LEMMA SameCardinality == ASSUME NEW S PROVE V!Cardinality(S) = Cardinality(S)
BY DEF V!Cardinality, Cardinality

LEMMA SamePaging == V!PagingAssumption
<1>1. ASSUME NEW S PROVE V!Cardinality(S) = Cardinality(S)
  BY SameCardinality
<1> QED BY <1>1, PagingAssumption DEF V!PagingAssumption, V!Pages, Pages

LEMMA SameVM ==
  V!VM = VM /\ V!Pages = Pages /\ V!Dirs = Dirs
<1>1. V!Pages = Pages /\ V!Dirs = Dirs
  BY DEF V!Pages, Pages, V!Dirs, Dirs
<1>2. V!VM = VM
  BY <1>1 DEF V!VM, VM
<1> QED BY <1>1, <1>2

LEMMA SameAlloc == ASSUME NEW v PROVE AllocPage(v) = V!AllocPage(v)
<1>1. ASSUME NEW w PROVE /\ NoFrame(w) = V!NoFrame(w) /\ Frame(w) = V!Frame(w)
                         /\ TakeFrame(w) = V!TakeFrame(w) /\ Fault(w) = V!Fault(w)
  BY DEF NoFrame, V!NoFrame, Frame, V!Frame, Lowest, V!Lowest, TakeFrame, V!TakeFrame,
    Fault, V!Fault
<1>2. ASSUME NEW w, NEW x PROVE Reachable(w, x) = V!Reachable(w, x)
  BY DEF Reachable, V!Reachable
<1>3. ASSUME NEW w, NEW d PROVE NewTable(w, d) = V!NewTable(w, d)
  BY <1>1, <1>2 DEF NewTable, V!NewTable
<1>4. ASSUME NEW w, NEW p, NEW f PROVE SetEntry(w, p, f) = V!SetEntry(w, p, f)
  BY <1>1, <1>2 DEF SetEntry, V!SetEntry, Walkable, V!Walkable
<1>5. ASSUME NEW w, NEW p, NEW f PROVE vmm_map_page(w, p, f) = V!vmm_map_page(w, p, f)
  <2> DEFINE d == p \div PageEntries
             made == IF w.table[d] = 0 THEN NewTable(w, d) ELSE w
             made2 == IF w.table[d] = 0 THEN V!NewTable(w, d) ELSE w
  <2>1. made = made2
    BY <1>3
  <2>2. SetEntry(made, p, f) = V!SetEntry(made2, p, f)
    <3> HIDE DEF made, made2
    <3> QED BY <1>4, <2>1
  <2> DEFINE s1 == IF made.faulted THEN made ELSE SetEntry(made, p, f)
             s2 == IF made2.faulted THEN made2 ELSE V!SetEntry(made2, p, f)
  <2>3. s1 = s2
    <3> HIDE DEF made, made2
    <3> QED BY <2>1, <2>2
  <2>4. CASE ~Reachable(w, w.dir)
    BY <1>1, <1>2, <2>4 DEF vmm_map_page, V!vmm_map_page
  <2>5. CASE Reachable(w, w.dir) /\ w.table[d] = 0 /\ NoFrame(w)
    BY <1>1, <1>2, <2>5 DEF vmm_map_page, V!vmm_map_page
  <2>6. CASE Reachable(w, w.dir) /\ ~(w.table[d] = 0 /\ NoFrame(w))
    <3>1. vmm_map_page(w, p, f)
            = [ok |-> TRUE, vm |-> s1]
      BY <2>6 DEF vmm_map_page
    <3>2. V!vmm_map_page(w, p, f)
            = [ok |-> TRUE, vm |-> s2]
      BY <1>1, <1>2, <2>6 DEF V!vmm_map_page
    <3> HIDE DEF s1, s2
    <3> QED BY <2>3, <3>1, <3>2
  <2> QED BY <2>4, <2>5, <2>6
<1>6. ASSUME NEW w, NEW f PROVE GiveBack(w, f) = V!GiveBack(w, f)
  BY DEF GiveBack, V!GiveBack, pmm_free_page, V!pmm_free_page
<1>7. ASSUME NEW p PROVE Advance(p) = V!Advance(p)
  BY DEF Advance, V!Advance
<1> QED BY <1>1, <1>5, <1>6, <1>7 DEF AllocPage, V!AllocPage

LEMMA SameFree == ASSUME NEW v, NEW p PROVE FreePage(v, p) = V!FreePage(v, p)
BY DEF FreePage, V!FreePage, Reachable, V!Reachable, Walkable, V!Walkable, Cleared, V!Cleared,
  pmm_free_page, V!pmm_free_page, Fault, V!Fault

TableAt(v)     == v.table[v.next \div PageEntries]
NoneLeft(v, r) ==
  (v.free = {} \/ 0 \in v.free) /\ r = [page |-> 0, vm |-> [v EXCEPT !.free = @ \ {0}]]
NoTable(v, r)  ==
  /\ TableAt(v) = 0 /\ \E f : v.free = {f}
  /\ r = [page |-> 0, vm |-> [v EXCEPT !.next = Advance(@)]]

\* A page with frame f, in a table of T.
Backed(v, r, f, F, T) ==
  /\ r = [page |-> v.next, vm |-> [v EXCEPT !.free = F, !.next = Advance(@),
                                            !.table = T, !.entry[v.next] = f]]
  /\ f \in v.free /\ f # 0 /\ F \subseteq v.free \ {f}
  /\ T \in [Dirs -> Nat] /\ T[0] # 0
  /\ TableAt(v) # 0 => T = v.table /\ v.entry[v.dir] = v.dir
  /\ TableAt(v) = 0 => \E g \in v.free : g # f
Got(v, r) == \E f, F, T : Backed(v, r, f, F, T)
Faults(v, r) ==
  r.vm.faulted /\ r.vm \in VM /\ r.vm = [v EXCEPT !.free = r.vm.free, !.next = Advance(@), !.faulted = TRUE]

LEMMA AllocOutcomes ==
  ASSUME NEW v \in VM, ~v.faulted, v.table[0] # 0
  PROVE  LET r == AllocPage(v) IN NoneLeft(v, r) \/ NoTable(v, r) \/ Got(v, r) \/ Faults(v, r)
<1> DEFINE r == AllocPage(v)
           f == Lowest(v.free)
           rest == v.free \ {f}
           g == Lowest(rest)
           d == v.next \div PageEntries
           w == V!Started(v)
<1>1. V!AllocOutcome(v, r)
  BY SamePaging, SameVM, SameAlloc, V!AllocCases
<1>2. /\ \A s : V!NoFrame(s) = NoFrame(s) /\ V!Frame(s) = Frame(s) /\ V!TakeFrame(s) = TakeFrame(s)
      /\ \A s : V!Lowest(s) = Lowest(s) /\ V!Fault(s) = Fault(s) /\ V!Advance(s) = Advance(s)
      /\ \A s, x : V!Reachable(s, x) = Reachable(s, x)
  BY DEF V!NoFrame, NoFrame, V!Frame, Frame, V!TakeFrame, TakeFrame, V!Lowest, Lowest,
         V!Fault, Fault, V!Advance, Advance, V!Reachable, Reachable
<1>3. w = [v EXCEPT !.free = rest, !.next = Advance(@)]
  BY <1>2 DEF V!Started, Frame
<1>4. v.next \in Pages /\ Advance(v.next) \in Pages /\ v.free \in SUBSET Nat
  BY AdvanceIs DEF VM
<1>5. \A S \in SUBSET Nat : S # {} => Lowest(S) \in S /\ \A y \in S : Lowest(S) <= y
  BY NatMin DEF Lowest
<1>6. d \in Dirs
  BY SamePaging, SameVM, V!TableOf, <1>4
<1>7. \/ NoFrame(v) /\ r = [page |-> 0, vm |-> [v EXCEPT !.free = @ \ {0}]]
      \/ f \in v.free /\ f \in Nat \ {0} /\
         \/ r.vm \in {Fault(w), Fault(TakeFrame(w))}
         \/ v.table[d] = 0 /\ rest = {} /\ r = [page |-> 0, vm |-> [v EXCEPT !.next = Advance(@)]]
         \/ /\ v.table[d] = 0 /\ g \in rest /\ Reachable(v, g)
            /\ r = [page |-> v.next,
                    vm |-> [v EXCEPT !.free = rest \ {g}, !.next = Advance(@),
                                     !.table[d] = g, !.entry[v.next] = f]]
         \/ /\ v.table[d] # 0 /\ Reachable(v, v.dir)
            /\ r = [page |-> v.next,
                    vm |-> [v EXCEPT !.free = rest, !.next = Advance(@), !.entry[v.next] = f]]
  <2> HIDE DEF r, w
  <2> QED BY <1>1, <1>2 DEF V!AllocOutcome, Frame, w
<1> HIDE DEF r
<1>8. CASE NoFrame(v) /\ r = [page |-> 0, vm |-> [v EXCEPT !.free = @ \ {0}]]
  <2>1. v.free = {} \/ 0 \in v.free
    BY <1>4, <1>5, <1>8 DEF NoFrame
  <2> QED BY <1>8, <2>1 DEF NoneLeft, r
<1>9. ASSUME r.vm \in {Fault(w), Fault(TakeFrame(w))} PROVE Faults(v, r)
  <2>1. Fault(w) = [v EXCEPT !.free = rest, !.next = Advance(@), !.faulted = TRUE]
    BY <1>3 DEF Fault, VM
  <2>2. \E F \in SUBSET v.free :
           Fault(TakeFrame(w)) = [v EXCEPT !.free = F, !.next = Advance(@), !.faulted = TRUE]
    <3> DEFINE F == IF rest = {} THEN {} ELSE rest \ {g}
    <3>1. TakeFrame(w) = [v EXCEPT !.free = F, !.next = Advance(@)]
      BY <1>3 DEF TakeFrame, VM
    <3>2. Fault(TakeFrame(w)) = [v EXCEPT !.free = F, !.next = Advance(@), !.faulted = TRUE]
      BY <3>1 DEF Fault, VM
    <3> QED BY <3>2
  <2>3. \E F \in SUBSET v.free : r.vm = [v EXCEPT !.free = F, !.next = Advance(@), !.faulted = TRUE]
    BY <1>9, <2>1, <2>2
  <2> QED BY <1>4, <2>3 DEF Faults, VM
<1>10. ASSUME f \in v.free, f \in Nat \ {0}, v.table[d] = 0, g \in rest,
              r = [page |-> v.next,
                   vm |-> [v EXCEPT !.free = rest \ {g}, !.next = Advance(@),
                                    !.table[d] = g, !.entry[v.next] = f]]
       PROVE  Got(v, r)
  <2> DEFINE T == [v.table EXCEPT ![d] = g]
  <2>1. T \in [Dirs -> Nat] /\ T[0] # 0
    BY <1>4, <1>6, <1>10 DEF VM
  <2>2. r = [page |-> v.next, vm |-> [v EXCEPT !.free = rest \ {g}, !.next = Advance(@),
                                               !.table = T, !.entry[v.next] = f]]
    BY <1>10 DEF VM
  <2>3. Backed(v, r, f, rest \ {g}, T)
    BY <1>10, <2>1, <2>2 DEF Backed, TableAt
  <2> QED BY <2>3 DEF Got
<1>11. ASSUME f \in v.free, f \in Nat \ {0}, v.table[d] # 0, Reachable(v, v.dir),
              r = [page |-> v.next,
                   vm |-> [v EXCEPT !.free = rest, !.next = Advance(@), !.entry[v.next] = f]]
       PROVE  Got(v, r)
  <2>1. r = [page |-> v.next, vm |-> [v EXCEPT !.free = rest, !.next = Advance(@),
                                               !.table = v.table, !.entry[v.next] = f]]
    BY <1>11 DEF VM
  <2>2. Backed(v, r, f, rest, v.table)
    BY <1>11, <2>1 DEF Backed, TableAt, Reachable, VM
  <2> QED BY <2>2 DEF Got
<1>12. ASSUME f \in v.free, rest = {}, v.table[d] = 0,
              r = [page |-> 0, vm |-> [v EXCEPT !.next = Advance(@)]]
       PROVE  NoTable(v, r)
  BY <1>12 DEF NoTable, TableAt
<1> QED
  <2> HIDE DEF f, rest, g, d, w
  <2> QED BY <1>7, <1>8, <1>9, <1>10, <1>11, <1>12 DEF r

-----------------------------------------------------------------------------
(* The memory manager under the heap.  Pages that have been handed out rank  *)
(* below next_virt and are never handed out again: once next_virt has gone   *)
(* past the page of the directory, every call faults.                        *)

\* G are the pages handed out and not given back.
Sound(v, G) ==
  /\ v \in VM /\ v.dir # 0 /\ v.dir + 2 <= PageEntries /\ v.table[0] # 0
  /\ \A p \in G : p \in Pages \ {0} /\ Rank(p) < Rank(v.next)
  /\ v.next >= FirstPage \/ v.next <= v.dir + 2
  /\ ~v.faulted =>
       /\ 0 \notin v.free /\ v.dir \notin v.free
       /\ v.next >= FirstPage \/ v.next <= v.dir + 1
       /\ v.entry[v.dir] = v.dir <=> v.next # v.dir + 1
       /\ \A p \in G : v.entry[p] \notin {0, v.dir}

LEMMA DirPage ==
  ASSUME NEW v \in VM, v.dir + 2 <= PageEntries
  PROVE  /\ v.dir \in Pages /\ v.dir \in Nat /\ v.dir < FirstPage
         /\ v.next \in Pages /\ v.next \in Nat /\ v.next < NumPages
         /\ v.next < PageEntries => v.next \div PageEntries = 0
         /\ v.next \div PageEntries \in Dirs
<1>1. v.dir \in Nat /\ v.next \in Pages
  BY DEF VM
<1>2. v.next \div PageEntries \in Dirs /\ (v.next < PageEntries => v.next \div PageEntries = 0)
  BY <1>1, SamePaging, SameVM, V!TableOf
<1> QED BY <1>1, <1>2, SizeFacts DEF Pages, NumPages

\* next_virt moves up, also past the top.
LEMMA NextRises ==
  ASSUME NEW v \in VM, v.dir + 2 <= PageEntries, v.next >= FirstPage \/ v.next <= v.dir + 1
  PROVE  Rank(v.next) < Rank(Advance(v.next)) /\ Advance(v.next) \in Pages
<1> DEFINE n == v.next
           a == Advance(n)
<1>1. n \in Nat /\ n < NumPages /\ n \in Pages /\ v.dir \in Nat
  BY DirPage
<1>2. a = (IF n + 1 = NumPages THEN 0 ELSE n + 1) /\ a \in Pages
  BY <1>1, AdvanceIs
<1> HIDE DEF n, a
<1>3. (n >= FirstPage \/ n <= v.dir + 1) => Rank(n) < Rank(a)
  BY <1>1, <1>2, NumFacts DEF Rank
<1> QED BY <1>2, <1>3 DEF n, a

LEMMA AllocSound ==
  ASSUME NEW v, NEW G, Sound(v, G), ~v.faulted, NEW r, r = AllocPage(v)
  PROVE  /\ r.vm.faulted => Sound(r.vm, G)
         /\ ~r.vm.faulted => Sound(r.vm, G \cup ({r.page} \ {0}))
         /\ ~r.vm.faulted => r.page \notin G
         /\ Rank(v.next) <= Rank(r.vm.next)
         /\ \A p \in G : r.vm.entry[p] = v.entry[p]
         /\ ~r.vm.faulted /\ r.page # 0 =>
              r.page = v.next /\ Rank(v.next) < Rank(r.vm.next)
<1> DEFINE n == v.next
           d == v.dir
<1>1. /\ v \in VM /\ d \in Pages /\ d \in Nat /\ d # 0 /\ d < FirstPage /\ d + 2 <= PageEntries
      /\ n \in Pages /\ n \in Nat /\ n < NumPages /\ (n < PageEntries => n \div PageEntries = 0)
      /\ n >= FirstPage \/ n <= d + 1
      /\ v.table[0] # 0 /\ 0 \notin v.free /\ d \notin v.free
      /\ v.entry[d] = d <=> n # d + 1
  BY DirPage DEF Sound
<1>2. \A p \in G : p \in Pages \ {0} /\ Rank(p) < Rank(n) /\ v.entry[p] \notin {0, d} /\ p # n
  BY <1>1, RankType DEF Sound, Pages
<1>3. Rank(n) < Rank(Advance(n)) /\ Advance(n) \in Pages /\ Rank(n) \in Nat
      /\ Rank(Advance(n)) \in Nat /\ 0 \notin G
  <2>1. Rank(n) < Rank(Advance(n)) /\ Advance(n) \in Pages
    BY <1>1, NextRises
  <2>2. Advance(n) \in Nat
    BY <2>1, SizeFacts DEF Pages
  <2> QED BY <1>1, <1>2, <2>1, <2>2, RankType
<1>4. NoneLeft(v, r) \/ NoTable(v, r) \/ Got(v, r) \/ Faults(v, r)
  BY <1>1, AllocOutcomes
<1>5. \A p \in G : Rank(p) \in Nat
  BY <1>2, RankType, SizeFacts DEF Pages
<1>6. CASE NoneLeft(v, r)
  <2>1. r.page = 0 /\ r.vm = v
    BY <1>1, <1>6 DEF NoneLeft, VM
  <2> QED BY <1>1, <1>3, <2>1 DEF Sound
<1>7. CASE NoTable(v, r)
  <2>1. r.page = 0 /\ r.vm = [v EXCEPT !.next = Advance(n)] /\ v.table[n \div PageEntries] = 0
    BY <1>7 DEF NoTable, TableAt
  <2> DEFINE w == [v EXCEPT !.next = Advance(n)]
  <2>2. /\ w \in VM /\ w.dir = v.dir /\ w.table = v.table /\ w.free = v.free /\ w.entry = v.entry
        /\ w.next = Advance(n) /\ w.faulted = v.faulted
    BY <1>1, <1>3 DEF VM
  <2>3. n >= FirstPage
    BY <1>1, <2>1, SizeFacts
  <2>4. Advance(n) = 0 \/ Advance(n) >= FirstPage
    BY <1>1, <2>3, AdvanceIs, SizeFacts
  <2>5. Sound(w, G)
    <3> HIDE DEF w
    <3>1. /\ w.next >= FirstPage \/ w.next <= w.dir + 1
          /\ w.next >= FirstPage \/ w.next <= w.dir + 2
      BY <1>1, <2>2, <2>4
    <3>2. w.entry[w.dir] = w.dir <=> w.next # w.dir + 1
      BY <1>1, <2>2, <2>3, <2>4, SizeFacts
    <3>3. \A p \in G : p \in Pages \ {0} /\ Rank(p) < Rank(w.next) /\ w.entry[p] \notin {0, w.dir}
      BY <1>2, <1>3, <1>5, <2>2
    <3> QED BY <1>1, <2>2, <3>1, <3>2, <3>3 DEF Sound
  <2> QED
    <3> HIDE DEF w
    <3>1. r.vm = w /\ G \cup ({r.page} \ {0}) = G
      BY <2>1 DEF w
    <3> QED BY <1>3, <2>1, <2>2, <2>5, <3>1
<1>8. CASE Got(v, r)
  <2>1. PICK f, F, T : Backed(v, r, f, F, T)
    BY <1>8 DEF Got
  <2> DEFINE w == [v EXCEPT !.free = F, !.next = Advance(n), !.table = T, !.entry[n] = f]
  <2>2. /\ r = [page |-> n, vm |-> w] /\ f \in v.free /\ f # 0 /\ f \in Nat /\ f # d
        /\ F \subseteq v.free \ {f} /\ T \in [Dirs -> Nat] /\ T[0] # 0
    BY <1>1, <2>1 DEF Backed, VM
  <2>3. /\ w \in VM /\ w.dir = v.dir /\ w.table = T /\ w.free = F
        /\ w.entry = [v.entry EXCEPT ![n] = f] /\ w.next = Advance(n) /\ w.faulted = v.faulted
    BY <1>1, <1>3, <2>2 DEF VM
  <2>4. v.entry \in [Pages -> Nat]
    BY <1>1 DEF VM
  <2>5. n # d + 1
    <3>1. ASSUME n = d + 1 PROVE FALSE
      <4>1. TableAt(v) # 0
        <5>1. n \div PageEntries = 0
          BY <1>1, <3>1, SizeFacts
        <5> QED BY <1>1, <5>1 DEF TableAt
      <4>2. v.entry[d] = d
        BY <2>1, <4>1 DEF Backed
      <4> QED BY <1>1, <3>1, <4>2
    <3> QED BY <3>1
  <2> HIDE DEF w
  <2>6. /\ w.next >= FirstPage \/ w.next <= w.dir + 1
        /\ w.next >= FirstPage \/ w.next <= w.dir + 2
    <3>1. Advance(n) >= FirstPage \/ (Advance(n) <= d + 1 /\ Advance(n) <= d + 2)
      BY <1>1, <2>5, AdvanceIs, SizeFacts
    <3>2. w.next = Advance(n) /\ w.dir = d
      BY <2>3
    <3> HIDE DEF n, d
    <3> QED BY <3>1, <3>2
  <2>7. w.entry[w.dir] = w.dir <=> w.next # w.dir + 1
    <3>1. w.entry[d] = IF n = d THEN f ELSE v.entry[d]
      BY <1>1, <2>3, <2>4
    <3>2. Advance(n) = d + 1 <=> n = d
      <4>1. Advance(n) = IF n + 1 = NumPages THEN 0 ELSE n + 1
        BY <1>1, AdvanceIs
      <4>2. n + 1 = NumPages => n # d
        BY <1>1, NumFacts
      <4> QED BY <1>1, <4>1, <4>2
    <3> QED BY <1>1, <2>2, <2>3, <2>5, <3>1, <3>2
  <2>8. \A p \in G : w.entry[p] = v.entry[p]
    BY <1>2, <2>3, <2>4
  <2>9. \A p \in G \cup ({n} \ {0}) :
            /\ p \in Pages \ {0} /\ Rank(p) < Rank(w.next) /\ w.entry[p] \notin {0, w.dir}
    <3>1. w.entry[n] = f
      BY <1>1, <2>3, <2>4
    <3> QED BY <1>1, <1>2, <1>3, <1>5, <2>2, <2>3, <2>8, <3>1
  <2>10. Sound(w, G \cup ({n} \ {0}))
    BY <1>1, <2>2, <2>3, <2>6, <2>7, <2>9 DEF Sound
  <2>11. r.page = n /\ r.vm = w /\ ~w.faulted
    BY <2>2, <2>3
  <2>12. n \notin G /\ Rank(n) < Rank(w.next)
    BY <1>2, <1>3, <2>3
  <2>13. Rank(v.next) <= Rank(r.vm.next)
    BY <1>3, <2>3, <2>11
  <2> HIDE DEF n
  <2>14. v.next = n
    BY DEF n
  <2> QED BY <2>8, <2>10, <2>11, <2>12, <2>13, <2>14
<1>9. CASE Faults(v, r)
  <2>1. /\ r.vm.faulted /\ r.vm \in VM /\ r.vm.next = Advance(n) /\ r.vm.dir = v.dir
        /\ r.vm.table = v.table /\ r.vm.entry = v.entry
    BY <1>9 DEF Faults, VM
  <2>2. r.vm.next >= FirstPage \/ r.vm.next <= r.vm.dir + 2
    <3>1. Advance(n) >= FirstPage \/ Advance(n) <= d + 2
      BY <1>1, AdvanceIs, SizeFacts
    <3> QED BY <2>1, <3>1
  <2> QED BY <1>1, <1>2, <1>3, <1>5, <2>1, <2>2 DEF Sound
<1> QED BY <1>4, <1>6, <1>7, <1>8, <1>9

-----------------------------------------------------------------------------
(* The list in the order its pages were handed out.                          *)

Base   == FirstPage * PAGE_SIZE
Key(a) == IF a >= Base THEN a ELSE a + AddressSpace
KEnd(b) == Key(b.addr) + HeaderSize + b.size

Listed(bs, top) ==
  /\ bs \in Seq(Block)
  /\ \A i \in DOMAIN bs : bs[i].addr % HEAP_ALIGNMENT = 0 /\ KEnd(bs[i]) <= top
  /\ \A i, j \in DOMAIN bs : i < j => KEnd(bs[i]) <= Key(bs[j].addr)

LEMMA BaseFacts ==
  Base \in Nat /\ AddressSpace \in Nat \ {0} /\ Base < AddressSpace
<1>1. FirstPage * PAGE_SIZE + PAGE_SIZE <= NumPages * PAGE_SIZE /\ FirstPage * PAGE_SIZE \in Nat
  BY NumFacts, PageBelow
<1> QED BY <1>1, SizeFacts, SpaceIs DEF Base, NumPages

LEMMA KeyPage ==
  ASSUME NEW p \in Pages
  PROVE  /\ p * PAGE_SIZE \in Nat /\ Key(p * PAGE_SIZE) = Rank(p) * PAGE_SIZE
         /\ Rank(p) * PAGE_SIZE < Base + AddressSpace
         /\ Rank(p) \in Nat /\ Rank(p) * PAGE_SIZE \in Nat
<1>1. p \in Nat /\ FirstPage \in Nat /\ NumPages \in Nat /\ p < NumPages /\ FirstPage < NumPages
  BY NumFacts
<1>2. \A c \in Nat : p * c \in Nat /\ (p + NumPages) * c = p * c + NumPages * c
  BY <1>1
<1>3. NumPages * PAGE_SIZE = AddressSpace
  BY SpaceIs DEF NumPages
<1>4. p * PAGE_SIZE \in Nat /\ (p + NumPages) * PAGE_SIZE = p * PAGE_SIZE + AddressSpace
  BY <1>2, <1>3, SizeFacts
<1>5. CASE p >= FirstPage
  <2>1. p * PAGE_SIZE >= Base
    <3>1. p = FirstPage \/ FirstPage < p
      BY <1>1, <1>5
    <3> QED BY <3>1, <1>1, <1>4, PageBelow, BaseFacts, SizeFacts DEF Base
  <2>2. p * PAGE_SIZE < AddressSpace
    BY <1>1, <1>3, PageBelow, SizeFacts
  <2> QED BY <1>1, <1>4, <1>5, <2>1, <2>2, BaseFacts DEF Rank, Key
<1>6. CASE p < FirstPage
  <2>1. p * PAGE_SIZE < Base
    BY <1>1, <1>4, <1>6, PageBelow, SizeFacts DEF Base
  <2> QED BY <1>1, <1>4, <1>6, <2>1, BaseFacts DEF Rank, Key
<1> QED BY <1>1, <1>5, <1>6

LEMMA KeyType ==
  ASSUME NEW b \in Block
  PROVE  /\ b.addr \in Nat /\ b.size \in Nat /\ b.used \in BOOLEAN
         /\ Key(b.addr) \in Nat /\ KEnd(b) \in Nat /\ Key(b.addr) < KEnd(b)
         /\ End(b) \in Nat /\ b.addr < End(b)
         /\ KEnd(b) - Key(b.addr) = End(b) - b.addr
BY BaseFacts, SizeFacts DEF Block, Key, KEnd, End

\* No two blocks of a list overlap.
LEMMA ListedApart ==
  ASSUME NEW top \in Nat, top < Base + AddressSpace, NEW bs, Listed(bs, top),
         NEW i \in DOMAIN bs, NEW j \in DOMAIN bs, i # j
  PROVE  /\ End(bs[i]) <= bs[j].addr \/ End(bs[j]) <= bs[i].addr
         /\ bs[i].addr # bs[j].addr
<1>1. bs[i] \in Block /\ bs[j] \in Block /\ i \in Nat /\ j \in Nat
  BY DEF Listed
<1>2. ASSUME NEW x \in Block, NEW y \in Block, KEnd(x) <= Key(y.addr), KEnd(y) <= top
      PROVE  (End(x) <= y.addr \/ End(y) <= x.addr) /\ x.addr # y.addr
  <2>1. x.addr \in Nat /\ y.addr \in Nat /\ x.size \in Nat /\ y.size \in Nat
    BY DEF Block
  <2>2. Key(y.addr) + HeaderSize + y.size <= top /\ Key(x.addr) + HeaderSize + x.size <= Key(y.addr)
    BY <1>2 DEF KEnd
  <2> QED BY <2>1, <2>2, BaseFacts, SizeFacts DEF Key, End
<1>3. i < j \/ j < i
  BY <1>1
<1> QED BY <1>1, <1>2, <1>3 DEF Listed

\* A block is found by its address, which no other block has.
LEMMA ListedUnique ==
  ASSUME NEW top \in Nat, top < Base + AddressSpace, NEW bs, Listed(bs, top)
  PROVE  \A i, j \in DOMAIN bs : bs[i].addr = bs[j].addr => i = j
BY ListedApart

\* The list seen from a later page.
LEMMA ListedHigher ==
  ASSUME NEW top \in Nat, NEW top2 \in Nat, top <= top2, NEW bs, Listed(bs, top)
  PROVE  Listed(bs, top2)
<1>1. \A i \in DOMAIN bs : KEnd(bs[i]) \in Nat
  BY KeyType DEF Listed
<1> QED BY <1>1 DEF Listed

LEMMA ListedAppend ==
  ASSUME NEW top \in Nat, NEW top2 \in Nat, NEW bs, Listed(bs, top), NEW b \in Block,
         b.addr % HEAP_ALIGNMENT = 0, top <= Key(b.addr), KEnd(b) <= top2
  PROVE  Listed(Append(bs, b), top2)
<1> DEFINE cs == Append(bs, b)
<1>1. /\ bs \in Seq(Block) /\ cs \in Seq(Block) /\ Len(cs) = Len(bs) + 1 /\ Len(bs) \in Nat
      /\ \A i \in 1 .. Len(bs) : cs[i] = bs[i]
      /\ cs[Len(bs) + 1] = b
      /\ DOMAIN bs = 1 .. Len(bs) /\ DOMAIN cs = 1 .. Len(bs) + 1
  BY DEF Listed
<1>2. \A i \in DOMAIN bs : KEnd(bs[i]) \in Nat /\ KEnd(bs[i]) <= top /\ bs[i].addr % HEAP_ALIGNMENT = 0
  BY KeyType, <1>1 DEF Listed
<1>3. Key(b.addr) \in Nat /\ KEnd(b) \in Nat /\ Key(b.addr) < KEnd(b)
  BY KeyType
<1>4. \A i, j \in DOMAIN bs : i < j => KEnd(bs[i]) <= Key(bs[j].addr)
  BY DEF Listed
<1> HIDE DEF cs
<1>5. \A i \in DOMAIN cs : cs[i].addr % HEAP_ALIGNMENT = 0 /\ KEnd(cs[i]) <= top2
  BY <1>1, <1>2, <1>3
<1>6. \A i, j \in DOMAIN cs : i < j => KEnd(cs[i]) <= Key(cs[j].addr)
  <2> SUFFICES ASSUME NEW i \in DOMAIN cs, NEW j \in DOMAIN cs, i < j
               PROVE  KEnd(cs[i]) <= Key(cs[j].addr)
    OBVIOUS
  <2>1. i \in DOMAIN bs /\ cs[i] = bs[i]
    BY <1>1
  <2>2. CASE j \in DOMAIN bs
    BY <1>1, <1>4, <2>1, <2>2
  <2>3. CASE j = Len(bs) + 1
    BY <1>1, <1>2, <1>3, <2>1, <2>3
  <2> QED BY <1>1, <2>2, <2>3
<1> QED BY <1>1, <1>5, <1>6 DEF Listed, cs

\* A block in place of one that differs from it in `used` at most.
Put(bs, i, c) == [bs EXCEPT ![i] = c]

LEMMA ListedPut ==
  ASSUME NEW top \in Nat, NEW bs, Listed(bs, top), NEW i \in DOMAIN bs,
         NEW c \in Block, c.addr = bs[i].addr, c.size = bs[i].size,
         NEW cs, cs = Put(bs, i, c)
  PROVE  /\ Listed(cs, top) /\ Len(cs) = Len(bs) /\ DOMAIN cs = DOMAIN bs
         /\ \A k \in DOMAIN bs : /\ cs[k].addr = bs[k].addr /\ cs[k].size = bs[k].size
                                 /\ k # i => cs[k] = bs[k]
         /\ cs[i] = c
<1>1. bs \in Seq(Block) /\ DOMAIN bs = 1 .. Len(bs) /\ \A k \in DOMAIN bs : bs[k] \in Block
  BY DEF Listed
<1>2. cs \in Seq(Block) /\ Len(cs) = Len(bs) /\ DOMAIN cs = DOMAIN bs
  BY <1>1 DEF Put
<1>3. cs[i] = c /\ \A k \in DOMAIN bs : k # i => cs[k] = bs[k]
  BY <1>1 DEF Put
<1>4. \A k \in DOMAIN bs : cs[k].addr = bs[k].addr /\ cs[k].size = bs[k].size
  BY <1>3
<1>5. \A k \in DOMAIN bs : KEnd(cs[k]) = KEnd(bs[k])
  BY <1>4 DEF KEnd
<1>6. Listed(cs, top)
  BY <1>2, <1>4, <1>5 DEF Listed
<1> QED BY <1>2, <1>3, <1>4, <1>6

-----------------------------------------------------------------------------
(* Where blocks lie, among those of another list and in pages.               *)

\* Block b lies from the start of x to the end of y.
Between(b, x, y) ==
  Key(x.addr) <= Key(b.addr) /\ KEnd(b) <= KEnd(y) /\ (x.addr < Base => b.addr < Base)
Spans(cs, bs) == \A m \in DOMAIN cs : \E x, y \in DOMAIN bs : Between(cs[m], bs[x], bs[y])

\* Block b lies from the start of page f to the end of page l.
FromTo(b, f, l) ==
  /\ Rank(f) * PAGE_SIZE <= Key(b.addr) /\ KEnd(b) <= Rank(l) * PAGE_SIZE + PAGE_SIZE
  /\ f < FirstPage => b.addr < Base
InPages(bs, P) == \A i \in DOMAIN bs : \E f, l \in P : FromTo(bs[i], f, l)

LEMMA SpansSame ==
  ASSUME NEW bs \in Seq(Block)
  PROVE  Spans(bs, bs)
<1>1. ASSUME NEW m \in DOMAIN bs PROVE Between(bs[m], bs[m], bs[m])
  <2>1. bs[m] \in Block
    OBVIOUS
  <2> QED BY <2>1, KeyType DEF Between
<1> QED BY <1>1 DEF Spans

LEMMA SpansAppend ==
  ASSUME NEW bs \in Seq(Block), NEW ds \in Seq(Block), Spans(ds, bs),
         NEW x \in DOMAIN bs, NEW y \in DOMAIN bs, NEW b \in Block, Between(b, bs[x], bs[y])
  PROVE  Spans(Append(ds, b), bs)
<1> DEFINE c == Append(ds, b)
<1>1. /\ \A i \in DOMAIN ds : c[i] = ds[i]
      /\ c[Len(ds) + 1] = b
      /\ \A m \in DOMAIN c : m \in DOMAIN ds \/ m = Len(ds) + 1
  <2>1. /\ DOMAIN ds = 1 .. Len(ds) /\ DOMAIN c = 1 .. Len(ds) + 1 /\ Len(ds) \in Nat
        /\ \A i \in DOMAIN ds : c[i] = ds[i]
        /\ c[Len(ds) + 1] = b
    BY AppendProperties, LenProperties
  <2> HIDE DEF c
  <2> QED BY <2>1
<1> HIDE DEF c
<1>2. \A m \in DOMAIN c : \E u, v \in DOMAIN bs : Between(c[m], bs[u], bs[v])
  BY <1>1 DEF Spans
<1> QED BY <1>2 DEF Spans, c

LEMMA SpansPut ==
  ASSUME NEW bs \in Seq(Block), NEW cs \in Seq(Block), DOMAIN cs = DOMAIN bs,
         \A k \in DOMAIN bs : cs[k].addr = bs[k].addr /\ cs[k].size = bs[k].size
  PROVE  Spans(cs, bs)
<1>1. ASSUME NEW m \in DOMAIN cs PROVE Between(cs[m], bs[m], bs[m])
  <2>1. cs[m] \in Block /\ bs[m] \in Block /\ cs[m].addr = bs[m].addr /\ cs[m].size = bs[m].size
    OBVIOUS
  <2>2. KEnd(cs[m]) = KEnd(bs[m])
    BY <2>1 DEF KEnd
  <2>3. Key(cs[m].addr) = Key(bs[m].addr) /\ Key(bs[m].addr) \in Nat /\ KEnd(bs[m]) \in Nat
    BY <2>1, KeyType
  <2> QED BY <2>1, <2>2, <2>3 DEF Between
<1> QED BY <1>1 DEF Spans

LEMMA InPagesSpans ==
  ASSUME NEW bs \in Seq(Block), NEW cs \in Seq(Block), Spans(cs, bs),
         NEW P \in SUBSET Pages, InPages(bs, P)
  PROVE  InPages(cs, P)
<1> SUFFICES ASSUME NEW m \in DOMAIN cs
             PROVE  \E f, l \in P : FromTo(cs[m], f, l)
  BY DEF InPages
<1>1. PICK x \in DOMAIN bs, y \in DOMAIN bs : Between(cs[m], bs[x], bs[y])
  BY DEF Spans
<1>2. PICK f \in P, g \in P : FromTo(bs[x], f, g)
  BY DEF InPages
<1>3. PICK h \in P, l \in P : FromTo(bs[y], h, l)
  BY DEF InPages
<1>4. bs[x] \in Block /\ bs[y] \in Block /\ cs[m] \in Block /\ f \in Pages /\ l \in Pages
  OBVIOUS
<1>5. /\ Key(bs[x].addr) \in Nat /\ Key(cs[m].addr) \in Nat /\ KEnd(bs[y]) \in Nat
      /\ KEnd(cs[m]) \in Nat
      /\ Rank(f) * PAGE_SIZE \in Nat /\ Rank(l) * PAGE_SIZE \in Nat /\ PAGE_SIZE \in Nat
  BY <1>4, KeyType, KeyPage, SizeFacts
<1>6. /\ Rank(f) * PAGE_SIZE <= Key(bs[x].addr) /\ Key(bs[x].addr) <= Key(cs[m].addr)
      /\ KEnd(cs[m]) <= KEnd(bs[y]) /\ KEnd(bs[y]) <= Rank(l) * PAGE_SIZE + PAGE_SIZE
      /\ f < FirstPage => cs[m].addr < Base
  BY <1>1, <1>2, <1>3 DEF Between, FromTo
<1> DEFINE s == Rank(f) * PAGE_SIZE
           e == Rank(l) * PAGE_SIZE
<1>7. s <= Key(cs[m].addr) /\ KEnd(cs[m]) <= e + PAGE_SIZE
  <2> DEFINE a == Key(bs[x].addr)
             c == Key(cs[m].addr)
             y1 == KEnd(bs[y])
             z1 == KEnd(cs[m])
  <2>1. s \in Nat /\ e \in Nat /\ s <= a /\ y1 <= e + PAGE_SIZE /\ a <= c /\ z1 <= y1
        /\ a \in Nat /\ c \in Nat /\ y1 \in Nat /\ z1 \in Nat /\ PAGE_SIZE \in Nat
    BY <1>5, <1>6
  <2> HIDE DEF s, e, a, c, y1, z1
  <2>2. s <= c /\ z1 <= e + PAGE_SIZE
    BY <2>1
  <2> QED BY <2>2 DEF c, z1
<1>8. FromTo(cs[m], f, l)
  BY <1>6, <1>7 DEF FromTo
<1> QED BY <1>8

-----------------------------------------------------------------------------
(* The bytes of a list: what Total adds up.                                  *)

Sized(bs) == [i \in DOMAIN bs |-> HeaderSize + bs[i].size]
Bytes(bs) == Total(Sized(bs))

\* sum[i] are the first i of n sizes.
Sums(sum, s, n) ==
  /\ sum \in [0 .. n -> Nat] /\ sum[0] = 0
  /\ \A i \in 1 .. n : s[i] \in Nat /\ sum[i] = sum[i - 1] + s[i]

LEMMA TotalIs ==
  ASSUME NEW s \in Seq(Nat)
  PROVE  \E sum : Sums(sum, s, Len(s)) /\ Total(s) = sum[Len(s)]
<1> DEFINE n == Len(s)
           P(sum) == sum = [i \in 0 .. n |-> IF i = 0 THEN 0 ELSE sum[i - 1] + s[i]]
           g == CHOOSE sum : P(sum)
           step == [x \in (1 .. n) \X Nat |-> x[2] + s[x[1]]]
           D == {i \in Nat : i <= n => g[i] \in Nat}
<1>1. n \in Nat /\ \A i \in 1 .. n : s[i] \in Nat
  OBVIOUS
<1>2. step \in [(1 .. n) \X Nat -> Nat]
  BY <1>1
<1>3. \E sum : P(sum)
  <2>1. PICK sum \in [0 .. n -> Nat] : Recursion(sum, n, 0, step)
    <3> HIDE DEF step, n, g, D, P
    <3> DEFINE S == Nat
    <3>1. step \in [(1 .. n) \X S -> S] /\ 0 \in S
      BY <1>2
    <3> HIDE DEF S
    <3>2. \E sum \in [0 .. n -> S] : Recursion(sum, n, 0, step)
      BY <1>1, <3>1, RecExists
    <3> QED BY <3>2 DEF S
  <2>2. ASSUME NEW i \in 0 .. n
        PROVE  sum[i] = IF i = 0 THEN 0 ELSE sum[i - 1] + s[i]
    <3>1. CASE i = 0
      BY <2>1, <3>1 DEF Recursion
    <3>2. CASE i # 0
      <4>1. <<i, sum[i - 1]>> \in (1 .. n) \X Nat
        <5> HIDE DEF step, n, g, D, P
        <5> QED BY <1>1, <2>1, <3>2
      <4> QED BY <2>1, <3>2, <4>1 DEF Recursion
    <3> QED BY <3>1, <3>2
  <2>3. P(sum)
    <3> HIDE DEF step, n
    <3> QED BY <2>1, <2>2
  <2> QED BY <2>3
<1>4. P(g)
  <2> HIDE DEF P
  <2> QED BY <1>3
<1> HIDE DEF g, n, step
<1>5. 0 \in D
  BY <1>1, <1>4
<1>6. ASSUME NEW i \in Nat, i \in D PROVE i + 1 \in D
  <2> SUFFICES ASSUME i + 1 <= n PROVE g[i + 1] \in Nat
    OBVIOUS
  <2>1. g[i] \in Nat /\ i + 1 \in 1 .. n /\ i + 1 \in 0 .. n
    BY <1>1, <1>6
  <2> QED BY <1>1, <1>4, <2>1, SMTT(30)
<1>7. \A i \in Nat : i \in D
  <2> HIDE DEF D
  <2> QED BY <1>5, <1>6, NatInd
<1>8. \A i \in 0 .. n : g[i] \in Nat
  BY <1>7
<1>9. g \in [0 .. n -> Nat] /\ g[0] = 0
  BY <1>1, <1>4, <1>8
<1>10. \A i \in 1 .. n : s[i] \in Nat /\ g[i] = g[i - 1] + s[i]
  BY <1>1, <1>4
<1>11. Sums(g, s, n)
  BY <1>9, <1>10 DEF Sums
<1>12. Total(s) = g[n]
  BY DEF Total, g, n
<1> QED BY <1>11, <1>12 DEF n

\* The same sizes add the same, wherever they stand.
Alike(s, p, t, q, k) == \A i \in 1 .. k : s[p + i] = t[q + i]

LEMMA SumsShift ==
  ASSUME NEW n \in Nat, NEW m \in Nat, NEW s, NEW t, NEW a, NEW b, Sums(a, s, n), Sums(b, t, m),
         NEW p \in Nat, NEW q \in Nat, NEW k \in Nat, p + k <= n, q + k <= m,
         Alike(s, p, t, q, k)
  PROVE  a[p + k] + b[q] = b[q + k] + a[p]
<1> DEFINE D == {i \in Nat : i <= k => a[p + i] + b[q] = b[q + i] + a[p]}
<1>1. a \in [0 .. n -> Nat] /\ b \in [0 .. m -> Nat]
  BY DEF Sums
<1>2. 0 \in D
  BY <1>1
<1>3. ASSUME NEW i \in Nat, i \in D PROVE i + 1 \in D
  <2> SUFFICES ASSUME i + 1 <= k PROVE a[p + (i + 1)] + b[q] = b[q + (i + 1)] + a[p]
    OBVIOUS
  <2>1. a[p + i] + b[q] = b[q + i] + a[p]
    BY <1>3
  <2>2. /\ p + (i + 1) \in 1 .. n /\ q + (i + 1) \in 1 .. m
        /\ p + (i + 1) - 1 = p + i /\ q + (i + 1) - 1 = q + i
        /\ p + i \in 0 .. n /\ q + i \in 0 .. m /\ p \in 0 .. n /\ q \in 0 .. m
        /\ i + 1 \in 1 .. k
    OBVIOUS
  <2>3. a[p + (i + 1)] = a[p + i] + s[p + (i + 1)] /\ b[q + (i + 1)] = b[q + i] + t[q + (i + 1)]
    BY <2>2, SMTT(30) DEF Sums
  <2>4. s[p + (i + 1)] = t[q + (i + 1)]
    BY <2>2 DEF Alike
  <2>5. /\ a[p + i] \in Nat /\ b[q + i] \in Nat /\ a[p] \in Nat /\ b[q] \in Nat
        /\ a[p + (i + 1)] \in Nat /\ b[q + (i + 1)] \in Nat
    BY <1>1, <2>2, SMTT(30)
  <2>6. \A u, v, w, x, y, z, c \in Int :
           u + v = w + x /\ y = u + c /\ z = w + c => y + v = z + x
    BY SMT
  <2>7. s[p + (i + 1)] \in Nat
    BY <2>2 DEF Sums
  <2> QED BY <2>1, <2>3, <2>4, <2>5, <2>6, <2>7
<1>4. \A i \in Nat : i \in D
  <2> HIDE DEF D
  <2> QED BY <1>2, <1>3, NatInd
<1> QED BY <1>4

LEMMA BytesIs ==
  ASSUME NEW bs \in Seq(Block)
  PROVE  /\ Sized(bs) \in Seq(Nat) /\ Len(Sized(bs)) = Len(bs)
         /\ \A i \in 1 .. Len(bs) : Sized(bs)[i] = HeaderSize + bs[i].size
         /\ \E sum : Sums(sum, Sized(bs), Len(bs)) /\ Bytes(bs) = sum[Len(bs)]
<1>1. /\ Len(bs) \in Nat /\ DOMAIN bs = 1 .. Len(bs)
      /\ \A i \in 1 .. Len(bs) : HeaderSize + bs[i].size \in Nat
  <2>1. Len(bs) \in Nat /\ DOMAIN bs = 1 .. Len(bs) /\ \A i \in 1 .. Len(bs) : bs[i] \in Block
    OBVIOUS
  <2>2. \A b \in Block : HeaderSize + b.size \in Nat
    BY SizeFacts DEF Block
  <2> QED BY <2>1, <2>2
<1>2. /\ Sized(bs) \in Seq(Nat) /\ Len(Sized(bs)) = Len(bs)
      /\ \A i \in 1 .. Len(bs) : Sized(bs)[i] = HeaderSize + bs[i].size
  BY <1>1 DEF Sized
<1>3. \E sum : Sums(sum, Sized(bs), Len(bs)) /\ Bytes(bs) = sum[Len(bs)]
  BY <1>2, TotalIs DEF Bytes
<1> QED BY <1>2, <1>3

LEMMA BytesEmpty == Bytes(<<>>) = 0
<1>1. <<>> \in Seq(Block) /\ Len(<<>>) = 0
  OBVIOUS
<1> QED BY <1>1, BytesIs DEF Sums

LEMMA BytesAppend ==
  ASSUME NEW bs \in Seq(Block), NEW b \in Block
  PROVE  Bytes(Append(bs, b)) = Bytes(bs) + HeaderSize + b.size /\ Bytes(bs) \in Nat
<1> DEFINE cs == Append(bs, b)
           n == Len(bs)
<1>1. /\ cs \in Seq(Block) /\ Len(cs) = n + 1 /\ n \in Nat
      /\ \A i \in 1 .. n : cs[i] = bs[i]
      /\ cs[n + 1] = b
  OBVIOUS
<1> HIDE DEF cs, n
<1>2. /\ \A i \in 1 .. n : Sized(bs)[i] = HeaderSize + bs[i].size
      /\ \A i \in 1 .. n + 1 : Sized(cs)[i] = HeaderSize + cs[i].size
  BY <1>1, BytesIs DEF n
<1>3. PICK a : Sums(a, Sized(bs), n) /\ Bytes(bs) = a[n]
  BY BytesIs DEF n
<1>4. PICK c : Sums(c, Sized(cs), n + 1) /\ Bytes(cs) = c[n + 1]
  BY <1>1, BytesIs
<1>5. a[0 + n] + c[0] = c[0 + n] + a[0]
  <2> DEFINE s == Sized(bs)
             t == Sized(cs)
             l == n + 1
  <2>1. l \in Nat /\ 0 \in Nat /\ 0 + n <= n /\ 0 + n <= l /\ n \in Nat
    BY <1>1
  <2>2. Alike(s, 0, t, 0, n)
    BY <1>1, <1>2 DEF Alike
  <2>3. Sums(a, s, n) /\ Sums(c, t, l)
    BY <1>3, <1>4
  <2> HIDE DEF s, t, l
  <2> QED BY <2>1, <2>2, <2>3, SumsShift
<1>6. a[n] = c[n] /\ a[n] \in Nat
  BY <1>1, <1>3, <1>4, <1>5 DEF Sums
<1>7. c[n + 1] = c[n] + Sized(cs)[n + 1]
  BY <1>1, <1>4 DEF Sums
<1>8. Sized(cs)[n + 1] = HeaderSize + b.size /\ b.size \in Nat
  BY <1>1, <1>2 DEF Block
<1> QED BY <1>3, <1>4, <1>6, <1>7, <1>8, SizeFacts DEF cs

LEMMA BytesUsed ==
  ASSUME NEW bs, NEW cs, DOMAIN cs = DOMAIN bs, \A k \in DOMAIN bs : cs[k].size = bs[k].size
  PROVE  Bytes(cs) = Bytes(bs)
<1>1. Sized(cs) = Sized(bs)
  BY DEF Sized
<1> QED BY <1>1 DEF Bytes

-----------------------------------------------------------------------------
(* split_block.                                                              *)

Cut(bs, i, size) == SubSeq(bs, 1, i - 1) \o Split(bs[i], size) \o SubSeq(bs, i + 1, Len(bs))

\* Block i and all after it move one place on; c and d are in place of it.
Replaced(bs, cs, i, c, d) ==
  /\ bs \in Seq(Block) /\ i \in DOMAIN bs /\ cs \in Seq(Block)
  /\ Len(bs) \in Nat /\ Len(cs) = Len(bs) + 1
  /\ DOMAIN bs = 1 .. Len(bs) /\ DOMAIN cs = 1 .. Len(bs) + 1
  /\ \A k \in 1 .. i - 1 : cs[k] = bs[k]
  /\ cs[i] = c /\ cs[i + 1] = d
  /\ \A k \in i + 1 .. Len(bs) : cs[k + 1] = bs[k]

\* What a block of the new list is.
LEMMA ReplacedCases ==
  ASSUME NEW bs, NEW cs, NEW i, NEW c, NEW d, Replaced(bs, cs, i, c, d), NEW k \in DOMAIN cs
  PROVE  \/ k \in 1 .. i - 1 /\ k \in DOMAIN bs /\ cs[k] = bs[k]
         \/ k = i /\ cs[k] = c
         \/ k = i + 1 /\ cs[k] = d
         \/ k \in i + 2 .. Len(bs) + 1 /\ k - 1 \in DOMAIN bs /\ k - 1 > i /\ cs[k] = bs[k - 1]
<1>1. i \in Nat /\ k \in Nat /\ i <= Len(bs) /\ Len(bs) \in Nat /\ k <= Len(bs) + 1
  BY DEF Replaced
<1>2. CASE k >= i + 2
  <2>1. k - 1 \in i + 1 .. Len(bs) /\ (k - 1) + 1 = k
    BY <1>1, <1>2
  <2>2. cs[(k - 1) + 1] = bs[k - 1]
    BY <2>1 DEF Replaced
  <2> QED BY <1>1, <2>1, <2>2 DEF Replaced
<1>3. CASE k <= i - 1
  BY <1>1, <1>3 DEF Replaced
<1> QED BY <1>1, <1>2, <1>3 DEF Replaced

LEMMA CutIs ==
  ASSUME NEW bs \in Seq(Block), NEW i \in DOMAIN bs, NEW size \in Nat,
         bs[i].size >= size + HeaderSize
  PROVE  /\ Replaced(bs, Cut(bs, i, size), i, Split(bs[i], size)[1], Split(bs[i], size)[2])
         /\ Split(bs[i], size)[1] \in Block /\ Split(bs[i], size)[2] \in Block
<1> DEFINE n == Len(bs)
           pre == SubSeq(bs, 1, i - 1)
           post == SubSeq(bs, i + 1, n)
           two == Split(bs[i], size)
<1>1. n \in Nat /\ i \in 1 .. n /\ DOMAIN bs = 1 .. n /\ \A k \in 1 .. n : bs[k] \in Block
  OBVIOUS
<1>2. two[1] \in Block /\ two[2] \in Block /\ two \in Seq(Block) /\ Len(two) = 2
  <2>1. bs[i] \in Block /\ HeaderSize \in Nat
    BY SizeFacts
  <2>2. two[1] \in Block
    BY <2>1 DEF Split, Block
  <2>3. two[2] \in Block
    BY <2>1, SMTT(30) DEF Split, Block
  <2>4. two = <<two[1], two[2]>>
    BY DEF Split
  <2> HIDE DEF two
  <2>5. <<two[1], two[2]>> \in Seq(Block) /\ Len(<<two[1], two[2]>>) = 2
    BY <2>2, <2>3
  <2> QED BY <2>2, <2>3, <2>4, <2>5
<1>3. pre \in Seq(Block) /\ Len(pre) = i - 1 /\ \A k \in 1 .. i - 1 : pre[k] = bs[k]
  <2>1. \A k \in 1 .. i - 1 : bs[k] \in Block
    BY <1>1
  <2>2. 1 \in Int /\ i - 1 \in Int
    BY <1>1
  <2>3. /\ pre \in Seq(Block) /\ Len(pre) = (IF 1 <= i - 1 THEN (i - 1) - 1 + 1 ELSE 0)
        /\ \A k \in 1 .. (i - 1) - 1 + 1 : pre[k] = bs[1 + k - 1]
    BY <2>1, <2>2, SubSeqProperties
  <2> HIDE DEF pre
  <2> QED BY <1>1, <2>3
<1>4. post \in Seq(Block) /\ Len(post) = n - i /\ \A k \in 1 .. n - i : post[k] = bs[i + k]
  <2>1. \A k \in i + 1 .. n : bs[k] \in Block
    BY <1>1
  <2>2. i + 1 \in Int /\ n \in Int
    BY <1>1
  <2>3. /\ post \in Seq(Block) /\ Len(post) = (IF i + 1 <= n THEN n - (i + 1) + 1 ELSE 0)
        /\ \A k \in 1 .. n - (i + 1) + 1 : post[k] = bs[(i + 1) + k - 1]
    <3> HIDE DEF n
    <3> QED BY <2>1, <2>2, SubSeqProperties
  <2> HIDE DEF post, n
  <2>4. \A k \in 1 .. n - i : (i + 1) + k - 1 = i + k
    BY <1>1
  <2> QED BY <1>1, <2>3, <2>4
<1> DEFINE m == pre \o two
           cs == m \o post
<1> HIDE DEF pre, post, two, n
<1>5. /\ m \in Seq(Block) /\ Len(m) = (i - 1) + 2
      /\ \A k \in 1 .. (i - 1) + 2 : m[k] = IF k <= i - 1 THEN pre[k] ELSE two[k - (i - 1)]
  <2>1. pre \in Seq(Block) /\ two \in Seq(Block)
    BY <1>2, <1>3
  <2>2. /\ pre \o two \in Seq(Block) /\ Len(pre \o two) = Len(pre) + Len(two)
        /\ \A k \in 1 .. Len(pre) + Len(two) :
             (pre \o two)[k] = IF k <= Len(pre) THEN pre[k] ELSE two[k - Len(pre)]
    BY <2>1, ConcatProperties
  <2> QED BY <1>2, <1>3, <2>2
<1> HIDE DEF m
<1>6. /\ cs \in Seq(Block) /\ Len(cs) = Len(m) + Len(post)
      /\ \A k \in 1 .. Len(m) + Len(post) : cs[k] = IF k <= Len(m) THEN m[k] ELSE post[k - Len(m)]
  BY <1>4, <1>5, ConcatProperties
<1> HIDE DEF cs
<1>7. Len(cs) = n + 1 /\ Len(m) = i + 1 /\ DOMAIN cs = 1 .. n + 1
  BY <1>1, <1>4, <1>5, <1>6, SMTT(30)
<1>8. ASSUME NEW k \in 1 .. i - 1 PROVE cs[k] = bs[k]
  <2>1. k \in 1 .. Len(m) + Len(post) /\ k <= Len(m) /\ k \in 1 .. (i - 1) + 2 /\ k <= i - 1
    BY <1>1, <1>4, <1>7
  <2>2. cs[k] = m[k] /\ m[k] = pre[k] /\ pre[k] = bs[k]
    BY <1>3, <1>5, <1>6, <2>1
  <2> QED BY <2>2
<1>9. cs[i] = two[1] /\ cs[i + 1] = two[2]
  <2>1. cs[i] = m[i] /\ m[i] = two[i - (i - 1)] /\ i - (i - 1) = 1
    BY <1>1, <1>4, <1>5, <1>6, <1>7, SMTT(30)
  <2>2. cs[i + 1] = m[i + 1] /\ m[i + 1] = two[(i + 1) - (i - 1)] /\ (i + 1) - (i - 1) = 2
    BY <1>1, <1>4, <1>5, <1>6, <1>7, SMTT(30)
  <2> QED BY <2>1, <2>2
<1>10. ASSUME NEW k \in i + 1 .. n PROVE cs[k + 1] = bs[k]
  <2>1. /\ k + 1 \in 1 .. Len(m) + Len(post) /\ ~(k + 1 <= Len(m))
        /\ (k + 1) - Len(m) = k - i /\ k - i \in 1 .. n - i /\ i + (k - i) = k
    BY <1>1, <1>4, <1>7, SMTT(30)
  <2>2. cs[k + 1] = post[k - i]
    BY <1>6, <2>1
  <2>3. post[k - i] = bs[i + (k - i)]
    BY <1>4, <2>1
  <2> QED BY <2>1, <2>2, <2>3
<1>11. Cut(bs, i, size) = cs
  BY DEF Cut, cs, m, pre, two, post, n
<1>12. Replaced(bs, cs, i, two[1], two[2])
  BY <1>1, <1>6, <1>7, <1>8, <1>9, <1>10 DEF Replaced, n
<1> QED BY <1>2, <1>11, <1>12 DEF two

\* The two blocks fill the place of the one.
LEMMA SplitFills ==
  ASSUME NEW b \in Block, NEW size \in Nat, b.size >= size + HeaderSize,
         KEnd(b) < Base + AddressSpace
  PROVE  LET c == Split(b, size)[1]
             d == Split(b, size)[2]
         IN  /\ c = [b EXCEPT !.size = size]
             /\ d = [addr |-> b.addr + HeaderSize + size,
                     size |-> b.size - size - HeaderSize, used |-> FALSE]
             /\ c.addr = b.addr /\ c.size = size /\ c.used = b.used
             /\ d.addr = b.addr + HeaderSize + size /\ d.size = b.size - size - HeaderSize
             /\ d.used = FALSE
             /\ KEnd(c) = Key(d.addr) /\ KEnd(d) = KEnd(b) /\ Key(c.addr) = Key(b.addr)
             /\ KEnd(c) <= KEnd(b) /\ Key(b.addr) <= Key(d.addr)
             /\ End(c) = d.addr /\ End(d) = End(b)
             /\ b.addr < Base => d.addr < Base
<1> DEFINE c == Split(b, size)[1]
           d == Split(b, size)[2]
<1>1. /\ c = [b EXCEPT !.size = size]
      /\ d = [addr |-> b.addr + HeaderSize + size,
              size |-> b.size - size - HeaderSize, used |-> FALSE]
  BY DEF Split
<1>2. /\ c.addr = b.addr /\ c.size = size /\ c.used = b.used
      /\ d.addr = b.addr + HeaderSize + size /\ d.size = b.size - size - HeaderSize
      /\ d.used = FALSE
  BY <1>1 DEF Block
<1> HIDE DEF c, d
<1>3. b.addr \in Nat /\ b.size \in Nat /\ HeaderSize \in Nat
  BY SizeFacts DEF Block
<1>4. Key(d.addr) = Key(b.addr) + HeaderSize + size
  BY <1>2, <1>3, BaseFacts DEF Key, KEnd
<1>5. Key(b.addr) \in Nat
  BY <1>3, BaseFacts DEF Key
<1>6. KEnd(c) = Key(b.addr) + HeaderSize + size /\ KEnd(d) = Key(d.addr) + HeaderSize + d.size
      /\ KEnd(b) = Key(b.addr) + HeaderSize + b.size
  BY <1>2 DEF KEnd
<1>7. KEnd(c) = Key(d.addr) /\ KEnd(d) = KEnd(b) /\ KEnd(c) <= KEnd(b) /\ Key(b.addr) <= Key(d.addr)
  BY <1>2, <1>3, <1>4, <1>5, <1>6
<1>8. End(c) = d.addr /\ End(d) = End(b)
  BY <1>2, <1>3 DEF End
<1>9. b.addr < Base => d.addr < Base
  BY <1>2, <1>3, BaseFacts DEF Key, KEnd
<1> QED BY <1>1, <1>2, <1>7, <1>8, <1>9 DEF c, d

LEMMA ListedCut ==
  ASSUME NEW top \in Nat, top < Base + AddressSpace, NEW bs, Listed(bs, top),
         NEW i \in DOMAIN bs, NEW size \in Nat, size % HEAP_ALIGNMENT = 0,
         bs[i].size >= size + HeaderSize
  PROVE  Listed(Cut(bs, i, size), top)
<1> DEFINE b  == bs[i]
           c  == Split(b, size)[1]
           d  == Split(b, size)[2]
           cs == Cut(bs, i, size)
           n  == Len(bs)
<1>1. bs \in Seq(Block) /\ b \in Block /\ KEnd(b) <= top /\ b.addr % HEAP_ALIGNMENT = 0
  BY DEF Listed
<1>2. Replaced(bs, cs, i, c, d) /\ c \in Block /\ d \in Block
  BY <1>1, CutIs
<1>3. /\ c.addr = b.addr /\ d.addr = b.addr + HeaderSize + size
      /\ KEnd(c) = Key(d.addr) /\ KEnd(d) = KEnd(b) /\ Key(c.addr) = Key(b.addr)
      /\ KEnd(c) <= KEnd(b) /\ Key(b.addr) <= Key(d.addr)
  <2>1. b.size >= size + HeaderSize /\ KEnd(b) < Base + AddressSpace
    BY <1>1, KeyType, BaseFacts
  <2> HIDE DEF b, cs, n
  <2> QED BY <1>1, <2>1, SplitFills, ZenonT(40)
<1>4. c.addr % HEAP_ALIGNMENT = 0 /\ d.addr % HEAP_ALIGNMENT = 0
  <2>1. HeaderSize % HEAP_ALIGNMENT = 0 /\ HeaderSize \in Nat /\ b.addr \in Nat
    BY HeapAssumption, <1>1 DEF Block
  <2>2. (b.addr + HeaderSize) % HEAP_ALIGNMENT = 0 /\ b.addr + HeaderSize \in Nat
    <3> DEFINE e == b.addr
    <3>1. e \in Nat /\ e % HEAP_ALIGNMENT = 0 /\ HeaderSize % HEAP_ALIGNMENT = 0 /\ HeaderSize \in Nat
      BY <1>1, <2>1
    <3> HIDE DEF e
    <3>2. (e + HeaderSize) % HEAP_ALIGNMENT = 0 /\ e + HeaderSize \in Nat
      BY <3>1, AlignedSum
    <3> QED BY <3>2 DEF e
  <2>3. (b.addr + HeaderSize + size) % HEAP_ALIGNMENT = 0
    <3> DEFINE e == b.addr + HeaderSize
    <3>1. e \in Nat /\ e % HEAP_ALIGNMENT = 0
      BY <2>2
    <3> HIDE DEF e
    <3>2. (e + size) % HEAP_ALIGNMENT = 0
      BY <3>1, AlignedSum
    <3> QED BY <3>2 DEF e
  <2> QED BY <1>1, <1>3, <2>3
<1>5. /\ \A k \in DOMAIN bs : bs[k] \in Block /\ bs[k].addr % HEAP_ALIGNMENT = 0 /\ KEnd(bs[k]) <= top
      /\ \A k \in DOMAIN bs : Key(bs[k].addr) \in Nat /\ KEnd(bs[k]) \in Nat
                              /\ Key(bs[k].addr) < KEnd(bs[k])
      /\ \A k, l \in DOMAIN bs : k < l => KEnd(bs[k]) <= Key(bs[l].addr)
  BY KeyType, SMTT(30) DEF Listed
<1>6. Key(c.addr) \in Nat /\ KEnd(c) \in Nat /\ Key(d.addr) \in Nat /\ KEnd(d) \in Nat
  BY <1>2, KeyType
<1>7. /\ n \in Nat /\ DOMAIN bs = 1 .. n /\ i \in 1 .. n /\ cs \in Seq(Block)
      /\ DOMAIN cs = 1 .. n + 1
  BY <1>2 DEF Replaced
<1> HIDE DEF c, d, cs, n
<1>8. ASSUME NEW k \in DOMAIN cs
      PROVE  cs[k].addr % HEAP_ALIGNMENT = 0 /\ KEnd(cs[k]) <= top
  <2>1. \/ k \in DOMAIN bs /\ cs[k] = bs[k]
        \/ cs[k] = c \/ cs[k] = d
        \/ k - 1 \in DOMAIN bs /\ cs[k] = bs[k - 1]
    BY <1>2, ReplacedCases
  <2> QED BY <1>1, <1>3, <1>4, <1>5, <1>6, <2>1

\* Each block of cs lies in one of bs, in the same order.
<1> DEFINE of(k) == IF k <= i THEN k ELSE k - 1
<1>9. ASSUME NEW k \in DOMAIN cs
      PROVE  /\ of(k) \in DOMAIN bs /\ Key(bs[of(k)].addr) <= Key(cs[k].addr)
             /\ KEnd(cs[k]) <= KEnd(bs[of(k)])
             /\ Key(cs[k].addr) \in Nat /\ KEnd(cs[k]) \in Nat
             /\ k = i => cs[k] = c
             /\ k = i + 1 => cs[k] = d
  <2>1. \/ k \in 1 .. i - 1 /\ k \in DOMAIN bs /\ cs[k] = bs[k]
        \/ k = i /\ cs[k] = c
        \/ k = i + 1 /\ cs[k] = d
        \/ k \in i + 2 .. n + 1 /\ k - 1 \in DOMAIN bs /\ k - 1 > i /\ cs[k] = bs[k - 1]
    BY <1>2, ReplacedCases DEF n
  <2>2. CASE k \in 1 .. i - 1 /\ k \in DOMAIN bs /\ cs[k] = bs[k]
    BY <1>5, <1>7, <2>2
  <2>3. CASE k = i /\ cs[k] = c
    BY <1>3, <1>5, <1>6, <1>7, <2>3
  <2>4. CASE k = i + 1 /\ cs[k] = d
    BY <1>3, <1>5, <1>6, <1>7, <2>4
  <2>5. CASE k \in i + 2 .. n + 1 /\ k - 1 \in DOMAIN bs /\ k - 1 > i /\ cs[k] = bs[k - 1]
    BY <1>5, <1>7, <2>5, SMTT(30)
  <2> QED BY <2>1, <2>2, <2>3, <2>4, <2>5
<1>10. ASSUME NEW k \in DOMAIN cs, NEW l \in DOMAIN cs, k < l
       PROVE  KEnd(cs[k]) <= Key(cs[l].addr)
  <2>1. CASE k = i /\ l = i + 1
    BY <1>3, <1>9, <2>1
  <2>2. CASE ~(k = i /\ l = i + 1)
    <3>1. k \in Nat /\ l \in Nat /\ i \in Nat
      BY <1>7
    <3>2. of(k) < of(l)
      BY <1>10, <2>2, <3>1
    <3>3. of(k) \in DOMAIN bs /\ of(l) \in DOMAIN bs
      BY <1>9
    <3>4. KEnd(cs[k]) <= KEnd(bs[of(k)]) /\ Key(bs[of(l)].addr) <= Key(cs[l].addr)
      BY <1>9
    <3>5. Key(cs[l].addr) \in Nat /\ KEnd(cs[k]) \in Nat
      BY <1>9
    <3> HIDE DEF of
    <3>6. KEnd(bs[of(k)]) <= Key(bs[of(l)].addr)
      BY <1>5, <3>2, <3>3
    <3>7. KEnd(bs[of(k)]) \in Nat /\ Key(bs[of(l)].addr) \in Nat
      BY <1>5, <3>3
    <3> QED BY <3>4, <3>5, <3>6, <3>7
  <2> QED BY <2>1, <2>2
<1> QED BY <1>7, <1>8, <1>10 DEF Listed, cs

LEMMA SpansCut ==
  ASSUME NEW bs, NEW cs, NEW i, NEW c \in Block, NEW d \in Block, Replaced(bs, cs, i, c, d),
         Between(c, bs[i], bs[i]), Between(d, bs[i], bs[i])
  PROVE  Spans(cs, bs)
<1>1. bs \in Seq(Block) /\ i \in DOMAIN bs /\ \A k \in DOMAIN bs : Between(bs[k], bs[k], bs[k])
  <2>1. bs \in Seq(Block) /\ i \in DOMAIN bs
    BY DEF Replaced
  <2>2. ASSUME NEW k \in DOMAIN bs PROVE Between(bs[k], bs[k], bs[k])
    <3>1. bs[k] \in Block
      BY <2>1
    <3> QED BY <3>1, KeyType DEF Between
  <2> QED BY <2>1, <2>2
<1>2. ASSUME NEW m \in DOMAIN cs PROVE \E x, y \in DOMAIN bs : Between(cs[m], bs[x], bs[y])
  <2>1. \/ m \in DOMAIN bs /\ cs[m] = bs[m]
        \/ cs[m] = c \/ cs[m] = d
        \/ m - 1 \in DOMAIN bs /\ cs[m] = bs[m - 1]
    BY ReplacedCases
  <2> QED BY <1>1, <2>1
<1> QED BY <1>2 DEF Spans

LEMMA BytesCut ==
  ASSUME NEW bs \in Seq(Block), NEW i \in DOMAIN bs, NEW size \in Nat,
         bs[i].size >= size + HeaderSize
  PROVE  Bytes(Cut(bs, i, size)) = Bytes(bs)
<1> DEFINE b  == bs[i]
           c  == Split(b, size)[1]
           d  == Split(b, size)[2]
           cs == Cut(bs, i, size)
           n  == Len(bs)
           s  == Sized(bs)
           t  == Sized(cs)
           l  == n + 1
<1>1. Replaced(bs, cs, i, c, d) /\ b \in Block
  BY CutIs
<1>2. c.size = size /\ d.size = b.size - size - HeaderSize /\ b.size \in Nat /\ HeaderSize \in Nat
  BY <1>1, SizeFacts DEF Split, Block
<1>3. /\ n \in Nat /\ i \in 1 .. n /\ cs \in Seq(Block) /\ Len(cs) = l /\ l \in Nat /\ l = n + 1
      /\ \A k \in 1 .. i - 1 : cs[k] = bs[k]
      /\ cs[i] = c /\ cs[i + 1] = d
      /\ \A k \in i + 1 .. n : cs[k + 1] = bs[k]
  BY <1>1 DEF Replaced
<1>4. \A k \in 1 .. n : s[k] = HeaderSize + bs[k].size
  BY BytesIs
<1>5. \A k \in 1 .. l : t[k] = HeaderSize + cs[k].size
  BY <1>3, BytesIs
<1>6. PICK a : Sums(a, s, n) /\ Bytes(bs) = a[n]
  BY BytesIs
<1>7. PICK e : Sums(e, t, l) /\ Bytes(cs) = e[l]
  BY <1>3, BytesIs
<1> HIDE DEF c, d, cs, n, s, t, l
<1>8. a \in [0 .. n -> Nat] /\ e \in [0 .. l -> Nat] /\ a[0] = 0 /\ e[0] = 0
  BY <1>6, <1>7 DEF Sums
<1>9. a[i - 1] = e[i - 1]
  <2> DEFINE k == i - 1
  <2>1. k \in Nat /\ 0 \in Nat /\ 0 + k <= n /\ 0 + k <= l
    BY <1>3
  <2>2. Alike(s, 0, t, 0, k)
    BY <1>3, <1>4, <1>5 DEF Alike
  <2> HIDE DEF k
  <2>3. a[0 + k] + e[0] = e[0 + k] + a[0]
    <3>1. n \in Nat /\ l \in Nat /\ Sums(a, s, n) /\ Sums(e, t, l)
      BY <1>3, <1>6, <1>7
    <3> QED BY ONLY <2>1, <2>2, <3>1, SumsShift
  <2>4. a[k] \in Nat /\ e[k] \in Nat
    BY <1>8, <2>1
  <2>5. a[k] = e[k]
    BY <1>8, <2>1, <2>3, <2>4
  <2> QED BY <2>5 DEF k
<1>10. a[i] = e[i + 1]
  <2>1. i \in 1 .. n /\ i \in 1 .. l /\ i + 1 \in 1 .. l /\ (i + 1) - 1 = i /\ i - 1 \in 0 .. n
    BY <1>3
  <2>2. a[i] = a[i - 1] + s[i] /\ e[i] = e[i - 1] + t[i] /\ e[i + 1] = e[i] + t[i + 1]
    <3>1. \A k \in 1 .. l : e[k] = e[k - 1] + t[k]
      BY <1>7 DEF Sums
    <3>2. \A k \in 1 .. n : a[k] = a[k - 1] + s[k]
      BY <1>6 DEF Sums
    <3> QED BY <2>1, <3>1, <3>2
  <2>3. s[i] = HeaderSize + b.size /\ t[i] = HeaderSize + size
        /\ t[i + 1] = HeaderSize + (b.size - size - HeaderSize)
    BY <1>2, <1>3, <1>4, <1>5, <2>1
  <2>4. a[i - 1] \in Nat
    BY <1>8, <2>1
  <2> QED BY <1>2, <1>9, <2>2, <2>3, <2>4, SMTT(30)
<1>11. a[n] = e[l]
  <2> DEFINE k == n - i
             j == i + 1
  <2>1. k \in Nat /\ i \in Nat /\ j \in Nat /\ i + k <= n /\ j + k <= l /\ i + k = n /\ j + k = l
    BY <1>3
  <2>2. Alike(s, i, t, j, k)
    <3>1. ASSUME NEW x \in 1 .. k PROVE s[i + x] = t[j + x]
      <4>1. i + x \in 1 .. n /\ i + x \in i + 1 .. n /\ (i + x) + 1 = j + x /\ j + x \in 1 .. l
        BY <1>3
      <4>2. cs[(i + x) + 1] = bs[i + x]
        BY <1>3, <4>1
      <4> QED BY <1>4, <1>5, <4>1, <4>2
    <3> QED BY <3>1 DEF Alike
  <2>3. a[i] = e[j]
    BY <1>10
  <2> HIDE DEF k, j
  <2>4. a[i + k] + e[j] = e[j + k] + a[i]
    BY <1>3, <1>6, <1>7, <2>1, <2>2, SumsShift, SMTT(30)
  <2>5. a[n] \in Nat /\ e[l] \in Nat /\ a[i] \in Nat
    BY <1>3, <1>8
  <2> QED BY <2>1, <2>3, <2>4, <2>5
<1> QED BY <1>6, <1>7, <1>11 DEF cs

-----------------------------------------------------------------------------
(* merge_blocks.                                                             *)

Grown(l, b) == [l EXCEPT !.size = @ + HeaderSize + b.size]

Walk(done, bs) ==
  /\ done \in [0 .. Len(bs) -> Seq(Block)] /\ done[0] = <<>>
  /\ \A i \in 1 .. Len(bs) : done[i] = Join(done[i - 1], bs[i])

\* r is ds with b after it, or with b in its last block.
Joined(ds, b, r) ==
  \/ r = Append(ds, b)
  \/ \E f \in Seq(Block), l \in Block :
       ds = Append(f, l) /\ ~l.used /\ ~b.used /\ r = Append(f, Grown(l, b))

LEMMA GrownIs ==
  ASSUME NEW l \in Block, NEW b \in Block
  PROVE  /\ Grown(l, b) \in Block /\ Grown(l, b).addr = l.addr /\ Grown(l, b).used = l.used
         /\ Grown(l, b).size = l.size + HeaderSize + b.size
         /\ KEnd(Grown(l, b)) = KEnd(l) + HeaderSize + b.size
         /\ End(Grown(l, b)) = End(l) + HeaderSize + b.size
<1>1. /\ Grown(l, b) \in Block /\ Grown(l, b).addr = l.addr /\ Grown(l, b).used = l.used
      /\ Grown(l, b).size = l.size + HeaderSize + b.size
  BY SizeFacts DEF Grown, Block
<1>2. l.addr \in Nat /\ l.size \in Nat /\ b.size \in Nat /\ HeaderSize \in Nat /\ Key(l.addr) \in Nat
  BY KeyType, SizeFacts
<1> QED BY <1>1, <1>2 DEF KEnd, End

LEMMA JoinIs ==
  ASSUME NEW ds \in Seq(Block), NEW b \in Block
  PROVE  Joined(ds, b, Join(ds, b)) /\ Join(ds, b) \in Seq(Block) /\ Join(ds, b) # <<>>
<1>1. Append(ds, b) \in Seq(Block) /\ Append(ds, b) # <<>>
  BY AppendProperties
<1>2. CASE ds # <<>> /\ ~Last(ds).used /\ ~b.used
  <2>1. PICK f \in Seq(Block), l \in Block : ds = Append(f, l)
    BY <1>2, SequenceEmptyOrAppend
  <2>2. Len(ds) = Len(f) + 1 /\ ds[Len(f) + 1] = l /\ Len(f) \in Nat
        /\ \A i \in 1 .. Len(f) : ds[i] = f[i]
    BY <2>1, AppendProperties, LenProperties
  <2>3. Last(ds) = l
    BY <2>2 DEF Last
  <2>4. Front(ds) = f
    <3>1. Front(ds) = SubSeq(ds, 1, Len(f))
      <4>1. Len(ds) - 1 = Len(f)
        BY <2>2
      <4> QED BY <4>1 DEF Front
    <3>2. SubSeq(ds, 1, Len(f)) \in Seq(Block) /\ Len(SubSeq(ds, 1, Len(f))) = Len(f)
          /\ \A i \in 1 .. Len(f) : SubSeq(ds, 1, Len(f))[i] = f[i]
      <4> DEFINE n == Len(f)
                 u == SubSeq(ds, 1, n)
      <4>1. n \in Int /\ n \in Nat /\ 1 \in Int
        BY <2>2
      <4>2. \A i \in 1 .. n : ds[i] \in Block
        BY <2>2
      <4>3. /\ u \in Seq(Block) /\ Len(u) = IF 1 <= n THEN n - 1 + 1 ELSE 0
            /\ \A i \in 1 .. n - 1 + 1 : u[i] = ds[1 + i - 1]
        <5> HIDE DEF n
        <5> QED BY <4>1, <4>2, SubSeqProperties
      <4> HIDE DEF u
      <4>4. Len(u) = n
        <5> HIDE DEF n
        <5> QED BY <4>1, <4>3
      <4>5. ASSUME NEW i \in 1 .. n PROVE u[i] = f[i]
        <5>1. i \in 1 .. n - 1 + 1 /\ 1 + i - 1 = i
          <6> HIDE DEF n
          <6> QED BY <4>1
        <5> QED BY <2>2, <4>3, <5>1
      <4> QED BY <4>3, <4>4, <4>5 DEF u
    <3> DEFINE u == SubSeq(ds, 1, Len(f))
    <3> HIDE DEF u
    <3>3. u = f
      BY <3>2, SeqEqual DEF u
    <3> QED BY <3>1, <3>3 DEF u
  <2>5. Join(ds, b) = Append(f, Grown(l, b))
    BY <1>2, <2>3, <2>4 DEF Join, Grown
  <2>6. Grown(l, b) \in Block
    BY GrownIs
  <2>7. Join(ds, b) \in Seq(Block) /\ Join(ds, b) # <<>>
    BY <2>5, <2>6, AppendProperties
  <2>8. Joined(ds, b, Join(ds, b))
    BY <1>2, <2>1, <2>3, <2>5 DEF Joined
  <2> QED BY <2>7, <2>8
<1>3. CASE ~(ds # <<>> /\ ~Last(ds).used /\ ~b.used)
  <2>1. Join(ds, b) = Append(ds, b)
    BY <1>3 DEF Join
  <2> QED BY <1>1, <2>1 DEF Joined
<1> QED BY <1>2, <1>3

LEMMA MergedIs ==
  ASSUME NEW bs \in Seq(Block)
  PROVE  \E done : Walk(done, bs) /\ Merged(bs) = done[Len(bs)]
<1> DEFINE n == Len(bs)
           P(done) == done = [i \in 0 .. n |-> IF i = 0 THEN <<>> ELSE Join(done[i - 1], bs[i])]
           g == CHOOSE done : P(done)
           T == Seq(Block)
           step == [x \in (1 .. n) \X T |-> Join(x[2], bs[x[1]])]
           D == {i \in Nat : i <= n => g[i] \in T}
<1>1. n \in Nat /\ (\A i \in 1 .. n : bs[i] \in Block) /\ <<>> \in T
  OBVIOUS
<1>2. ASSUME NEW i \in 1 .. n, NEW ds \in T PROVE Join(ds, bs[i]) \in T
  BY <1>1, JoinIs
<1>3. step \in [(1 .. n) \X T -> T]
  <2> HIDE DEF T
  <2> QED BY <1>2
<1> HIDE DEF T
<1>4. \E done : P(done)
  <2>1. PICK done \in [0 .. n -> T] : Recursion(done, n, <<>>, step)
    <3> HIDE DEF step, n, g, D, P
    <3> QED BY <1>1, <1>3, RecExists
  <2>2. ASSUME NEW i \in 0 .. n
        PROVE  done[i] = IF i = 0 THEN <<>> ELSE Join(done[i - 1], bs[i])
    <3>1. CASE i = 0
      BY <2>1, <3>1 DEF Recursion
    <3>2. CASE i # 0
      <4>1. <<i, done[i - 1]>> \in (1 .. n) \X T
        <5> HIDE DEF step, n, g, D, P
        <5> QED BY <1>1, <2>1, <3>2
      <4> QED BY <2>1, <3>2, <4>1 DEF Recursion
    <3> QED BY <3>1, <3>2
  <2>3. P(done)
    <3> HIDE DEF step, n
    <3> QED BY <2>1, <2>2
  <2> QED BY <2>3
<1>5. P(g)
  <2> HIDE DEF P
  <2> QED BY <1>4
<1> HIDE DEF g, n, step
<1>6. 0 \in D
  BY <1>1, <1>5
<1>7. ASSUME NEW i \in Nat, i \in D PROVE i + 1 \in D
  <2> SUFFICES ASSUME i + 1 <= n PROVE g[i + 1] \in T
    OBVIOUS
  <2>1. g[i] \in T /\ i + 1 \in 1 .. n /\ i + 1 \in 0 .. n
    BY <1>1, <1>7
  <2>2. g[i + 1] = Join(g[i], bs[i + 1])
    BY <1>1, <1>5, <2>1
  <2> QED BY <1>2, <2>1, <2>2
<1>8. \A i \in Nat : i \in D
  <2> HIDE DEF D
  <2> QED BY <1>6, <1>7, NatInd
<1>9. \A i \in 0 .. n : g[i] \in T
  BY <1>8
<1>10. Walk(g, bs)
  <2>1. g \in [0 .. n -> T] /\ g[0] = <<>>
    BY <1>1, <1>5, <1>9
  <2>2. \A i \in 1 .. n : g[i] = Join(g[i - 1], bs[i])
    BY <1>1, <1>5
  <2> QED BY <2>1, <2>2 DEF Walk, n, T
<1>11. Merged(bs) = g[n]
  BY DEF Merged, g, n
<1> QED BY <1>10, <1>11 DEF n

LEMMA AppendIs ==
  ASSUME NEW f \in Seq(Block), NEW l \in Block
  PROVE  /\ Append(f, l) \in Seq(Block) /\ Append(f, l) # <<>> /\ Len(f) \in Nat
         /\ DOMAIN f = 1 .. Len(f) /\ DOMAIN Append(f, l) = 1 .. Len(f) + 1
         /\ Len(Append(f, l)) = Len(f) + 1
         /\ \A i \in DOMAIN f : i \in DOMAIN Append(f, l) /\ Append(f, l)[i] = f[i]
         /\ Append(f, l)[Len(f) + 1] = l /\ Last(Append(f, l)) = l
         /\ Len(f) + 1 \in DOMAIN Append(f, l)
<1> DEFINE c == Append(f, l)
<1>1. /\ c \in Seq(Block) /\ c # <<>> /\ Len(f) \in Nat /\ Len(c) = Len(f) + 1
      /\ (\A i \in 1 .. Len(f) : c[i] = f[i]) /\ c[Len(f) + 1] = l
      /\ DOMAIN f = 1 .. Len(f) /\ DOMAIN c = 1 .. Len(c)
  BY AppendProperties, LenProperties
<1> HIDE DEF c
<1>2. Last(c) = l
  BY <1>1 DEF Last
<1> QED BY <1>1, <1>2 DEF c

LEMMA ListedFront ==
  ASSUME NEW f \in Seq(Block), NEW l \in Block, NEW top, Listed(Append(f, l), top)
  PROVE  Listed(f, Key(l.addr)) /\ l.addr % HEAP_ALIGNMENT = 0 /\ KEnd(l) <= top
<1> DEFINE c == Append(f, l)
<1>1. /\ DOMAIN f = 1 .. Len(f) /\ Len(f) \in Nat
      /\ \A i \in DOMAIN f : i \in DOMAIN c /\ c[i] = f[i]
      /\ c[Len(f) + 1] = l /\ Len(f) + 1 \in DOMAIN c
  BY AppendIs
<1>2. /\ \A i \in DOMAIN c : c[i].addr % HEAP_ALIGNMENT = 0 /\ KEnd(c[i]) <= top
      /\ \A i, j \in DOMAIN c : i < j => KEnd(c[i]) <= Key(c[j].addr)
  BY DEF Listed
<1> HIDE DEF c
<1>3. \A i \in DOMAIN f : f[i].addr % HEAP_ALIGNMENT = 0 /\ KEnd(f[i]) <= Key(l.addr)
  <2>1. ASSUME NEW i \in DOMAIN f PROVE i < Len(f) + 1
    BY <1>1
  <2> QED BY <1>1, <1>2, <2>1
<1>4. \A i, j \in DOMAIN f : i < j => KEnd(f[i]) <= Key(f[j].addr)
  BY <1>1, <1>2
<1> QED BY <1>1, <1>2, <1>3, <1>4 DEF Listed

LEMMA SpansFront ==
  ASSUME NEW bs, NEW f \in Seq(Block), NEW l \in Block, Spans(Append(f, l), bs)
  PROVE  Spans(f, bs) /\ \E x, y \in DOMAIN bs : Between(l, bs[x], bs[y])
<1> DEFINE c == Append(f, l)
<1>1. /\ \A i \in DOMAIN f : i \in DOMAIN c /\ c[i] = f[i]
      /\ c[Len(f) + 1] = l /\ Len(f) + 1 \in DOMAIN c
  BY AppendIs
<1>2. Spans(c, bs)
  OBVIOUS
<1> HIDE DEF c
<1> QED BY <1>1, <1>2 DEF Spans

LEMMA ListedGrow ==
  ASSUME NEW f \in Seq(Block), NEW l \in Block, NEW top, Listed(Append(f, l), top),
         NEW b \in Block, top \in Nat, top <= Key(b.addr)
  PROVE  Listed(Append(f, Grown(l, b)), KEnd(b))
<1> DEFINE g == Grown(l, b)
           k == Key(l.addr)
           e == KEnd(b)
<1>1. Listed(f, k) /\ l.addr % HEAP_ALIGNMENT = 0 /\ KEnd(l) <= top
  BY ListedFront
<1>2. g \in Block /\ g.addr = l.addr /\ KEnd(g) = KEnd(l) + HeaderSize + b.size
  BY GrownIs
<1>3. k \in Nat /\ e \in Nat /\ KEnd(l) \in Nat /\ Key(b.addr) \in Nat /\ HeaderSize \in Nat /\ b.size \in Nat
  BY KeyType, SizeFacts
<1>4. e = Key(b.addr) + HeaderSize + b.size
  BY DEF KEnd
<1>5. KEnd(g) <= e /\ k <= Key(g.addr) /\ g.addr % HEAP_ALIGNMENT = 0
  <2> HIDE DEF e, g
  <2> QED BY <1>1, <1>2, <1>3, <1>4
<1> HIDE DEF g, k, e
<1>6. Listed(Append(f, g), e)
  BY <1>1, <1>2, <1>3, <1>5, ListedAppend
<1> QED BY <1>6 DEF g, e

BytesGrown(f, l, b) == Bytes(Append(f, Grown(l, b))) = Bytes(Append(f, l)) + HeaderSize + b.size

LEMMA BytesGrow ==
  ASSUME NEW f \in Seq(Block), NEW l \in Block, NEW b \in Block
  PROVE  BytesGrown(f, l, b)
<1>1. Grown(l, b) \in Block /\ Grown(l, b).size = l.size + HeaderSize + b.size
  BY GrownIs
<1>2. Bytes(Append(f, Grown(l, b))) = Bytes(f) + HeaderSize + Grown(l, b).size /\ Bytes(f) \in Nat
  BY <1>1, BytesAppend
<1>3. Bytes(Append(f, l)) = Bytes(f) + HeaderSize + l.size
  BY BytesAppend
<1>4. l.size \in Nat /\ b.size \in Nat /\ HeaderSize \in Nat
  BY KeyType, SizeFacts
<1> QED BY <1>1, <1>2, <1>3, <1>4 DEF BytesGrown

\* The used blocks of ds are those of the first n blocks of bs.
SameUsed(ds, bs, n) ==
  /\ \A k \in 1 .. n : bs[k].used => \E m \in DOMAIN ds : ds[m] = bs[k]
  /\ \A m \in DOMAIN ds : ds[m].used => \E k \in 1 .. n : bs[k] = ds[m]

LEMMA SameUsedAppend ==
  ASSUME NEW ds \in Seq(Block), NEW bs, NEW n \in Nat, SameUsed(ds, bs, n),
         NEW b \in Block, b = bs[n + 1]
  PROVE  SameUsed(Append(ds, b), bs, n + 1)
<1> DEFINE c == Append(ds, b)
<1>1. /\ DOMAIN ds = 1 .. Len(ds) /\ DOMAIN c = 1 .. Len(ds) + 1 /\ Len(ds) \in Nat
      /\ \A i \in DOMAIN ds : i \in DOMAIN c /\ c[i] = ds[i]
      /\ c[Len(ds) + 1] = b /\ Len(ds) + 1 \in DOMAIN c
  BY AppendIs
<1> HIDE DEF c
<1>2. ASSUME NEW k \in 1 .. n + 1, bs[k].used PROVE \E m \in DOMAIN c : c[m] = bs[k]
  <2>1. CASE k = n + 1
    BY <1>1, <2>1
  <2>2. CASE k \in 1 .. n
    BY <1>1, <1>2, <2>2 DEF SameUsed
  <2> QED BY <2>1, <2>2
<1>3. ASSUME NEW m \in DOMAIN c, c[m].used PROVE \E k \in 1 .. n + 1 : bs[k] = c[m]
  <2>1. CASE m = Len(ds) + 1
    <3>1. n + 1 \in 1 .. n + 1 /\ bs[n + 1] = c[m]
      BY <1>1, <2>1
    <3> QED BY <3>1
  <2>2. CASE m \in DOMAIN ds
    <3>1. PICK k \in 1 .. n : bs[k] = ds[m]
      BY <1>1, <1>3, <2>2 DEF SameUsed
    <3>2. k \in 1 .. n + 1 /\ bs[k] = c[m]
      BY <1>1, <2>2, <3>1
    <3> QED BY <3>2
  <2> QED BY <1>1, <2>1, <2>2
<1> QED BY <1>2, <1>3 DEF SameUsed, c

LEMMA SameUsedGrow ==
  ASSUME NEW f \in Seq(Block), NEW l \in Block, NEW bs, NEW n \in Nat, SameUsed(Append(f, l), bs, n),
         NEW b \in Block, b = bs[n + 1], ~l.used, ~b.used
  PROVE  SameUsed(Append(f, Grown(l, b)), bs, n + 1)
<1> DEFINE d == Append(f, l)
           g == Grown(l, b)
           c == Append(f, g)
<1>1. g \in Block /\ ~g.used
  BY GrownIs
<1>2. /\ DOMAIN f = 1 .. Len(f) /\ DOMAIN d = 1 .. Len(f) + 1 /\ Len(f) \in Nat
      /\ \A i \in DOMAIN f : i \in DOMAIN d /\ d[i] = f[i]
      /\ d[Len(f) + 1] = l
  BY AppendIs
<1> HIDE DEF g
<1>3. /\ DOMAIN c = 1 .. Len(f) + 1
      /\ \A i \in DOMAIN f : i \in DOMAIN c /\ c[i] = f[i]
      /\ c[Len(f) + 1] = g
  BY <1>1, AppendIs
<1>4. SameUsed(d, bs, n)
  OBVIOUS
<1> HIDE DEF c, d
<1>5. ASSUME NEW k \in 1 .. n + 1, bs[k].used PROVE \E m \in DOMAIN c : c[m] = bs[k]
  <2>1. k \in 1 .. n
    BY <1>5
  <2>2. PICK m \in DOMAIN d : d[m] = bs[k]
    BY <1>4, <1>5, <2>1 DEF SameUsed
  <2>3. m \in DOMAIN f
    BY <1>2, <1>5, <2>2
  <2> QED BY <1>2, <1>3, <2>2, <2>3
<1>6. ASSUME NEW m \in DOMAIN c, c[m].used PROVE \E k \in 1 .. n + 1 : bs[k] = c[m]
  <2>1. m \in DOMAIN f
    BY <1>1, <1>2, <1>3, <1>6
  <2>2. m \in DOMAIN d /\ d[m] = c[m]
    BY <1>2, <1>3, <2>1
  <2>3. PICK k \in 1 .. n : bs[k] = d[m]
    BY <1>4, <1>6, <2>2 DEF SameUsed
  <2>4. k \in 1 .. n + 1 /\ bs[k] = c[m]
    BY <2>2, <2>3
  <2> QED BY <2>4
<1> QED BY <1>5, <1>6 DEF SameUsed, c, g

-----------------------------------------------------------------------------
Place(bs, i) == IF i = 0 THEN 0 ELSE KEnd(bs[i])

\* What the first i blocks of bs have become.
Reached(ds, bs, sum, i) ==
  /\ ds \in Seq(Block) /\ (ds = <<>> <=> i = 0)
  /\ Listed(ds, Place(bs, i))
  /\ Bytes(ds) = sum[i]
  /\ SameUsed(ds, bs, i)
  /\ Spans(ds, bs)

LEMMA ReachedNext ==
  ASSUME NEW top \in Nat, NEW bs, Listed(bs, top), NEW sum, Sums(sum, Sized(bs), Len(bs)),
         NEW i \in Nat, i + 1 <= Len(bs), NEW ds, Reached(ds, bs, sum, i)
  PROVE  Reached(Join(ds, bs[i + 1]), bs, sum, i + 1)
<1> DEFINE b == bs[i + 1]
           r == Join(ds, b)
           t == Place(bs, i)
<1>1. /\ bs \in Seq(Block) /\ DOMAIN bs = 1 .. Len(bs) /\ Len(bs) \in Nat
      /\ i + 1 \in DOMAIN bs /\ b \in Block /\ (i # 0 => i \in DOMAIN bs)
  BY DEF Listed
<1>2. /\ t \in Nat /\ t <= Key(b.addr) /\ KEnd(b) \in Nat /\ Key(b.addr) \in Nat
      /\ b.addr % HEAP_ALIGNMENT = 0
  <2>1. Key(b.addr) \in Nat /\ KEnd(b) \in Nat
    BY <1>1, KeyType
  <2>2. b.addr % HEAP_ALIGNMENT = 0
    BY <1>1 DEF Listed
  <2>3. i # 0 => KEnd(bs[i]) \in Nat /\ KEnd(bs[i]) <= Key(b.addr)
    <3>1. i # 0 => i \in DOMAIN bs /\ bs[i] \in Block /\ i < i + 1
      BY <1>1
    <3> QED BY <1>1, <3>1, KeyType DEF Listed
  <2> QED BY <2>1, <2>2, <2>3 DEF Place
<1>3. /\ ds \in Seq(Block) /\ Listed(ds, t) /\ Bytes(ds) = sum[i] /\ SameUsed(ds, bs, i)
      /\ Spans(ds, bs)
  BY DEF Reached
<1>4. sum[i + 1] = Bytes(ds) + HeaderSize + b.size
  <2>1. i + 1 \in 1 .. Len(bs) /\ (i + 1) - 1 = i
    BY <1>1
  <2>2. sum[i + 1] = sum[i] + Sized(bs)[i + 1] /\ Sized(bs)[i + 1] = HeaderSize + b.size
    BY <1>1, <2>1, BytesIs DEF Sums
  <2>3. sum[i] \in Nat /\ HeaderSize \in Nat /\ b.size \in Nat
    <3>1. sum \in [0 .. Len(bs) -> Nat] /\ i \in 0 .. Len(bs)
      BY <1>1 DEF Sums
    <3> QED BY <1>1, <3>1, KeyType, SizeFacts
  <2> QED BY <1>3, <2>2, <2>3
<1>5. Joined(ds, b, r) /\ r \in Seq(Block) /\ r # <<>>
  BY <1>1, <1>3, JoinIs
<1>6. SUFFICES /\ Listed(r, KEnd(b)) /\ Bytes(r) = sum[i + 1] /\ SameUsed(r, bs, i + 1)
               /\ Spans(r, bs)
  <2>1. Place(bs, i + 1) = KEnd(b) /\ i + 1 # 0
    BY DEF Place
  <2> HIDE DEF b, r
  <2> QED BY <1>5, <1>6, <2>1 DEF Reached, r, b
<1>7. b = bs[i + 1]
  OBVIOUS
<1> HIDE DEF b, r, t
<1>8. CASE r = Append(ds, b)
  <2>1. Listed(Append(ds, b), KEnd(b))
    <3>1. KEnd(b) <= KEnd(b)
      BY <1>2
    <3> QED BY <1>1, <1>2, <1>3, <3>1, ListedAppend
  <2>2. Bytes(Append(ds, b)) = Bytes(ds) + HeaderSize + b.size
    BY <1>1, <1>3, BytesAppend
  <2>3. SameUsed(Append(ds, b), bs, i + 1)
    BY <1>1, <1>3, <1>7, SameUsedAppend
  <2>4. Spans(Append(ds, b), bs)
    <3>1. Between(b, bs[i + 1], bs[i + 1])
      BY <1>2, <1>7 DEF Between
    <3> QED BY <1>1, <1>3, <3>1, SpansAppend
  <2> QED BY <1>4, <1>8, <2>1, <2>2, <2>3, <2>4
<1>9. ASSUME NEW f \in Seq(Block), NEW l \in Block,
             ds = Append(f, l), ~l.used, ~b.used, r = Append(f, Grown(l, b))
      PROVE  /\ Listed(r, KEnd(b)) /\ Bytes(r) = sum[i + 1] /\ SameUsed(r, bs, i + 1)
             /\ Spans(r, bs)
  <2>1. Listed(r, KEnd(b))
    BY <1>1, <1>2, <1>3, <1>9, ListedGrow
  <2>2. Bytes(r) = Bytes(ds) + HeaderSize + b.size
    BY <1>1, <1>9, BytesGrow DEF BytesGrown
  <2>3. SameUsed(r, bs, i + 1)
    BY <1>1, <1>3, <1>7, <1>9, SameUsedGrow
  <2>4. Spans(r, bs)
    <3> DEFINE g == Grown(l, b)
    <3>1. g \in Block /\ g.addr = l.addr
      BY <1>1, GrownIs
    <3> HIDE DEF g
    <3>2. r = Append(f, g) /\ Spans(Append(f, l), bs)
      BY <1>3, <1>9 DEF g
    <3>3. KEnd(g) <= KEnd(b)
      BY <2>1, <3>1, <3>2, ListedFront
    <3>4. Spans(f, bs) /\ \E x, y \in DOMAIN bs : Between(l, bs[x], bs[y])
      BY <3>2, SpansFront
    <3>5. PICK x \in DOMAIN bs, y \in DOMAIN bs : Between(l, bs[x], bs[y])
      BY <3>4
    <3>6. Between(g, bs[x], bs[i + 1])
      BY <1>7, <3>1, <3>3, <3>5 DEF Between
    <3> QED BY <1>1, <3>1, <3>2, <3>4, <3>6, SpansAppend
  <2> QED BY <1>4, <2>1, <2>2, <2>3, <2>4
<1> QED BY <1>5, <1>8, <1>9 DEF Joined

\* Merging keeps the list whole, its bytes and its used blocks.
LEMMA MergeKeeps ==
  ASSUME NEW top \in Nat, NEW bs, Listed(bs, top)
  PROVE  /\ Listed(Merged(bs), top) /\ Bytes(Merged(bs)) = Bytes(bs)
         /\ Merged(bs) \in Seq(Block) /\ (Merged(bs) = <<>> <=> bs = <<>>)
         /\ SameUsed(Merged(bs), bs, Len(bs)) /\ Spans(Merged(bs), bs)
<1> DEFINE n == Len(bs)
<1>1. bs \in Seq(Block) /\ n \in Nat /\ DOMAIN bs = 1 .. n /\ (n = 0 <=> bs = <<>>)
  BY EmptySeq DEF Listed
<1>2. PICK done : Walk(done, bs) /\ Merged(bs) = done[n]
  BY <1>1, MergedIs
<1>3. PICK sum : Sums(sum, Sized(bs), n) /\ Bytes(bs) = sum[n]
  BY <1>1, BytesIs
<1> DEFINE D == {i \in Nat : i <= n => Reached(done[i], bs, sum, i)}
<1>4. 0 \in D
  <2>1. done[0] = <<>> /\ sum[0] = 0 /\ <<>> \in Seq(Block) /\ DOMAIN <<>> = {} /\ Bytes(<<>>) = 0
    BY <1>2, <1>3, BytesEmpty DEF Walk, Sums
  <2>2. Listed(<<>>, 0) /\ SameUsed(<<>>, bs, 0) /\ Spans(<<>>, bs)
    BY <2>1 DEF Listed, SameUsed, Spans
  <2>3. Reached(done[0], bs, sum, 0)
    BY <2>1, <2>2 DEF Reached, Place
  <2> QED BY <2>3
<1>5. ASSUME NEW i \in Nat, i \in D PROVE i + 1 \in D
  <2> SUFFICES ASSUME i + 1 <= n PROVE Reached(done[i + 1], bs, sum, i + 1)
    OBVIOUS
  <2>1. Reached(done[i], bs, sum, i)
    BY <1>1, <1>5
  <2>2. done[i + 1] = Join(done[i], bs[i + 1])
    <3>1. i + 1 \in 1 .. Len(bs) /\ (i + 1) - 1 = i
      BY <1>1
    <3>2. done[i + 1] = Join(done[(i + 1) - 1], bs[i + 1])
      BY <1>2, <3>1 DEF Walk
    <3> QED BY <3>1, <3>2
  <2> DEFINE ds == done[i]
  <2>3. Reached(ds, bs, sum, i) /\ i + 1 <= Len(bs)
    BY <2>1
  <2> HIDE DEF ds
  <2>4. Reached(Join(ds, bs[i + 1]), bs, sum, i + 1)
    BY <1>3, <2>3, ReachedNext
  <2> QED BY <2>2, <2>4 DEF ds
<1>6. \A i \in Nat : i \in D
  <2> HIDE DEF D
  <2> QED BY <1>4, <1>5, NatInd
<1>7. Reached(Merged(bs), bs, sum, n)
  BY <1>1, <1>2, <1>6
<1>8. Listed(Merged(bs), top)
  <2> DEFINE t == Place(bs, n)
  <2>1. Listed(Merged(bs), t)
    BY <1>7 DEF Reached
  <2>2. t \in Nat /\ t <= top
    <3>1. CASE n = 0
      BY <3>1 DEF Place
    <3>2. CASE n # 0
      <4>1. n \in DOMAIN bs /\ bs[n] \in Block
        BY <1>1, <3>2
      <4> QED BY <3>2, <4>1, KeyType DEF Listed, Place
    <3> QED BY <3>1, <3>2
  <2> HIDE DEF t
  <2> QED BY <2>1, <2>2, ListedHigher
<1> QED BY <1>1, <1>3, <1>7, <1>8 DEF Reached

-----------------------------------------------------------------------------
(* Memory that is given back, and memory that has no page to give.           *)

LEMMA FreeSound ==
  ASSUME NEW v, NEW G, Sound(v, G), ~v.faulted, NEW p \in G, NEW w, w = FreePage(v, p)
  PROVE  /\ Sound(w, G \ {p}) /\ w.next = v.next
         /\ \A q \in G \ {p} : w.entry[q] = v.entry[q]
<1>1. v \in VM /\ p \in Pages /\ p # 0
  BY DEF Sound
<1>2. V!FreeOutcome(v, p, w)
  <2>1. v \in V!VM /\ p \in V!Pages
    BY <1>1, SameVM
  <2>2. V!FreeOutcome(v, p, V!FreePage(v, p))
    BY <2>1, SamePaging, V!FreeCases
  <2> QED BY <2>2, SameFree
<1>3. V!Fault(v) = Fault(v)
  BY DEF V!Fault, Fault
<1>4. w = v \/ w = Fault(v) \/ w = [v EXCEPT !.free = @ \cup {v.entry[p]}, !.entry[p] = 0]
  BY <1>2, <1>3 DEF V!FreeOutcome
<1>5. CASE w = v
  BY <1>5 DEF Sound
<1>6. CASE w = Fault(v)
  <2>1. /\ w \in VM /\ w.dir = v.dir /\ w.table = v.table /\ w.next = v.next
        /\ w.faulted /\ w.entry = v.entry
    BY <1>1, <1>6 DEF Fault, VM
  <2> QED BY <2>1 DEF Sound
<1>7. CASE w = [v EXCEPT !.free = @ \cup {v.entry[p]}, !.entry[p] = 0]
  <2>1. /\ w \in VM /\ w.dir = v.dir /\ w.table = v.table /\ w.next = v.next
        /\ w.faulted = v.faulted /\ w.free = v.free \cup {v.entry[p]}
        /\ w.entry = [v.entry EXCEPT ![p] = 0] /\ v.entry \in [Pages -> Nat]
    <3>1. v.entry \in [Pages -> Nat] /\ v.free \in SUBSET Nat /\ v.entry[p] \in Nat
      BY <1>1 DEF VM
    <3>2. /\ v.free \cup {v.entry[p]} \in SUBSET Nat
          /\ [v.entry EXCEPT ![p] = 0] \in [Pages -> Nat]
      BY <3>1
    <3>3. /\ w.dir = v.dir /\ w.table = v.table /\ w.next = v.next /\ w.faulted = v.faulted
          /\ w.free = v.free \cup {v.entry[p]} /\ w.entry = [v.entry EXCEPT ![p] = 0]
      BY <1>1, <1>7 DEF VM
    <3> DEFINE F == v.free \cup {v.entry[p]}
               E == [v.entry EXCEPT ![p] = 0]
    <3>4. w = [v EXCEPT !.free = F, !.entry = E]
      BY <1>1, <1>7 DEF VM
    <3>5. w \in VM
      <4>1. F \in SUBSET Nat /\ E \in [Pages -> Nat]
        BY <3>2
      <4> HIDE DEF F, E
      <4> QED BY <1>1, <3>4, <4>1 DEF VM
    <3> QED BY <3>1, <3>3, <3>5
  <2>2. v.entry[p] \notin {0, v.dir}
    BY DEF Sound
  <2>3. \A q \in G \ {p} : w.entry[q] = v.entry[q]
    BY <1>1, <2>1 DEF Sound
  <2>4. v.dir \in Pages /\ v.dir # 0
    BY <1>1, DirPage DEF Sound
  <2>5. w.entry[w.dir] = w.dir <=> w.next # w.dir + 1
    <3>1. v.entry[v.dir] = v.dir <=> v.next # v.dir + 1
      BY DEF Sound
    <3>2. CASE p = v.dir
      <4>1. w.entry[w.dir] = 0 /\ v.entry[v.dir] # v.dir
        BY <1>1, <2>1, <2>2, <3>2
      <4> QED BY <2>1, <2>4, <3>1, <4>1
    <3>3. CASE p # v.dir
      <4>1. w.entry[w.dir] = v.entry[v.dir]
        BY <2>1, <2>4, <3>3
      <4> QED BY <2>1, <3>1, <4>1
    <3> QED BY <3>2, <3>3
  <2>6. 0 \notin w.free /\ w.dir \notin w.free
    BY <2>1, <2>2 DEF Sound
  <2>7. \A q \in G \ {p} : q \in Pages \ {0} /\ Rank(q) < Rank(w.next) /\ w.entry[q] \notin {0, w.dir}
    BY <2>1, <2>3 DEF Sound
  <2>8. /\ w.dir # 0 /\ w.dir + 2 <= PageEntries /\ w.table[0] # 0
        /\ w.next >= FirstPage \/ w.next <= w.dir + 1
    BY <2>1 DEF Sound
  <2>9. Sound(w, G \ {p})
    BY <2>1, <2>5, <2>6, <2>7, <2>8 DEF Sound
  <2> QED BY <2>1, <2>3, <2>9
<1> QED BY <1>4, <1>5, <1>6, <1>7

\* One frame at most and no second table: no page can be had.
Barren(v) ==
  \/ v.faulted
  \/ /\ \A e \in Dirs \ {0} : v.table[e] = 0
     /\ \E f \in v.free \cup {0} : v.free \subseteq {f}
     /\ 0 < v.next /\ v.next < FirstPage => v.free = {}

LEMMA BarrenAlloc ==
  ASSUME NEW v, NEW G, Sound(v, G), ~v.faulted, Barren(v), NEW r, r = AllocPage(v)
  PROVE  r.vm.faulted \/ (r.page = 0 /\ Barren(r.vm))
<1>1. /\ v \in VM /\ v.dir \in Nat /\ v.dir < FirstPage /\ v.dir + 2 <= PageEntries
      /\ v.next \in Pages /\ v.next \in Nat /\ v.next < NumPages
      /\ v.next < PageEntries => v.next \div PageEntries = 0
      /\ v.next \div PageEntries \in Dirs
      /\ v.next >= FirstPage \/ v.next <= v.dir + 1
      /\ v.table[0] # 0 /\ 0 \notin v.free
  BY DirPage DEF Sound
<1>2. NoneLeft(v, r) \/ NoTable(v, r) \/ Got(v, r) \/ Faults(v, r)
  BY <1>1, AllocOutcomes
<1>3. /\ \A e \in Dirs \ {0} : v.table[e] = 0
      /\ 0 < v.next /\ v.next < FirstPage => v.free = {}
  BY DEF Barren
<1>4. PICK g \in v.free \cup {0} : v.free \subseteq {g}
  BY DEF Barren
<1>5. Advance(v.next) = (IF v.next + 1 = NumPages THEN 0 ELSE v.next + 1)
  BY <1>1, AdvanceIs
<1>6. CASE NoneLeft(v, r)
  <2>1. r.page = 0 /\ r.vm = v
    BY <1>1, <1>6 DEF NoneLeft, VM
  <2> QED BY <2>1
<1>7. CASE NoTable(v, r)
  <2>1. v.next >= FirstPage
    <3>1. v.next \div PageEntries # 0
      BY <1>1, <1>7 DEF NoTable, TableAt
    <3> QED BY <1>1, <3>1, NumFacts
  <2>2. r.page = 0 /\ r.vm.table = v.table /\ r.vm.free = v.free /\ r.vm.next = Advance(v.next)
    BY <1>1, <1>7 DEF NoTable, VM
  <2>3. ~(0 < r.vm.next /\ r.vm.next < FirstPage)
    BY <1>1, <1>5, <2>1, <2>2, NumFacts
  <2> QED BY <1>3, <1>4, <2>2, <2>3 DEF Barren
<1>8. CASE Got(v, r)
  <2>1. PICK f, F, T : Backed(v, r, f, F, T)
    BY <1>8 DEF Got
  <2>2. f \in v.free /\ v.free \ {f} = {} /\ F = {}
    BY <1>4, <2>1 DEF Backed
  <2>3. TableAt(v) # 0
    <3>1. ASSUME TableAt(v) = 0 PROVE FALSE
      <4>1. \E x \in v.free : x # f
        BY <2>1, <3>1 DEF Backed
      <4> QED BY <2>2, <4>1
    <3> QED BY <3>1
  <2>4. v.next \div PageEntries = 0
    BY <1>1, <1>3, <2>3 DEF TableAt
  <2>5. v.next < PageEntries
    <3>1. \A a \in Nat, c \in Nat \ {0} : a \div c = 0 => a < c
      BY SMT
    <3> QED BY <1>1, <2>4, <3>1, NumFacts
  <2>6. v.next = 0
    BY <1>1, <1>3, <2>2, <2>5, NumFacts
  <2>7. T = v.table
    BY <2>1, <2>3 DEF Backed
  <2>8. r.page = 0 /\ r.vm.table = v.table /\ r.vm.free = {}
    <3>1. r = [page |-> v.next, vm |-> [v EXCEPT !.free = F, !.next = Advance(@),
                                                 !.table = T, !.entry[v.next] = f]]
      BY <2>1 DEF Backed
    <3> DEFINE n == v.next
               w == [v EXCEPT !.free = F, !.next = Advance(n), !.table = T, !.entry[n] = f]
    <3>2. r = [page |-> n, vm |-> w]
      BY <3>1
    <3>3. w.table = T /\ w.free = F
      BY <1>1 DEF VM
    <3> HIDE DEF w
    <3>4. r.page = n /\ r.vm.table = T /\ r.vm.free = F
      BY <3>2, <3>3
    <3> QED BY <2>2, <2>6, <2>7, <3>4
  <2> QED BY <1>3, <2>8 DEF Barren
<1>9. CASE Faults(v, r)
  BY <1>9 DEF Faults
<1> QED BY <1>2, <1>6, <1>7, <1>8, <1>9

LEMMA BootedSound ==
  ASSUME NEW F \in FrameSets
  PROVE  /\ Sound(Booted(F), {}) /\ Booted(F).next = FirstPage /\ ~Booted(F).faulted
         /\ \A e \in Dirs \ {0} : Booted(F).table[e] = 0
<1> DEFINE dir == Lowest(F)
           kpd == Lowest(F \ {dir})
           v == Booted(F)
<1>1. /\ F \subseteq Nat /\ 0 \notin F
      /\ dir \in F /\ kpd \in F /\ dir # kpd /\ dir # 0 /\ kpd < PageEntries
      /\ dir + 2 <= PageEntries
  <2>1. \A S : V!Lowest(S) = Lowest(S)
    BY DEF V!Lowest, Lowest
  <2>2. dir = V!Lowest(F) /\ kpd = V!Lowest(F \ {dir})
    BY <2>1
  <2> HIDE DEF dir, kpd
  <2> QED BY <2>2, SamePaging, V!BootedFacts
<1>2. /\ v.free = F \ {dir, kpd} /\ v.dir = dir /\ v.next = FirstPage /\ v.faulted = FALSE
      /\ v.table = [d \in Dirs |-> IF d = 0 THEN kpd ELSE 0]
      /\ v.entry = [p \in Pages |-> IF p < PageEntries THEN p ELSE 0]
  BY DEF Booted
<1>3. v = [free |-> v.free, dir |-> v.dir, table |-> v.table, entry |-> v.entry,
           next |-> v.next, faulted |-> v.faulted]
  BY DEF Booted
<1> HIDE DEF dir, kpd, v
<1>4. dir \in Nat /\ kpd \in Nat /\ dir < PageEntries /\ kpd # 0
  BY <1>1, SizeFacts
<1>5. FirstPage \in Pages /\ FirstPage > PageEntries /\ 0 \in Dirs /\ dir \in Pages
      /\ \A p \in Pages : p \in Nat
  BY <1>4, NumFacts, SizeFacts
<1>6. /\ v.free \in SUBSET Nat /\ v.table \in [Dirs -> Nat] /\ v.entry \in [Pages -> Nat]
      /\ v.next \in Pages /\ v.dir \in Nat /\ v.faulted \in BOOLEAN
  <2>1. v.free \in SUBSET Nat
    BY <1>1, <1>2
  <2>2. v.table \in [Dirs -> Nat]
    <3>1. \A d \in Dirs : (IF d = 0 THEN kpd ELSE 0) \in Nat
      BY <1>4
    <3> QED BY <1>2, <3>1
  <2>3. v.entry \in [Pages -> Nat]
    <3>1. \A p \in Pages : (IF p < PageEntries THEN p ELSE 0) \in Nat
      BY <1>5
    <3> QED BY <1>2, <3>1
  <2> QED BY <1>2, <1>4, <1>5, <2>1, <2>2, <2>3
<1>7. v \in VM
  BY <1>3, <1>6 DEF VM
<1>8. v.table[0] = kpd /\ v.entry[dir] = dir /\ \A e \in Dirs \ {0} : v.table[e] = 0
  BY <1>2, <1>4, <1>5
<1>9. v.next # dir + 1 /\ v.next >= FirstPage /\ 0 \notin v.free /\ dir \notin v.free
  BY <1>1, <1>2, <1>4, <1>5, NumFacts
<1>10. Sound(v, {})
  BY <1>1, <1>2, <1>4, <1>7, <1>8, <1>9 DEF Sound
<1> QED BY <1>2, <1>8, <1>10 DEF v

-----------------------------------------------------------------------------
(* The searches through the list.                                            *)

\* The index a search finds is the least of those it looks for.
LEMMA LeastIs ==
  ASSUME NEW I \in SUBSET Nat, I # {}
  PROVE  Min(I) \in I /\ \A j \in I : Min(I) <= j
BY NatMin DEF Min

LEMMA FindIs ==
  ASSUME NEW bs \in Seq(Block), NEW size
  PROVE  LET i == find_free_block(bs, size)
         IN  IF i = 0 THEN \A j \in DOMAIN bs : ~(~bs[j].used /\ bs[j].size >= size)
             ELSE i \in DOMAIN bs /\ ~bs[i].used /\ bs[i].size >= size
<1> DEFINE I == {j \in 1 .. Len(bs) : ~bs[j].used /\ bs[j].size >= size}
<1>1. find_free_block(bs, size) = IF I # {} THEN Min(I) ELSE 0
  BY DEF find_free_block, SelectInSeq
<1>2. DOMAIN bs = 1 .. Len(bs) /\ Len(bs) \in Nat /\ I \in SUBSET Nat
  OBVIOUS
<1>3. CASE I = {}
  BY <1>1, <1>2, <1>3
<1>4. CASE I # {}
  <2> DEFINE i == Min(I)
  <2>1. i \in I
    <3> HIDE DEF I
    <3> QED BY <1>2, <1>4, LeastIs
  <2>2. find_free_block(bs, size) = i
    BY <1>1, <1>4
  <2> HIDE DEF i
  <2> QED BY <1>2, <2>1, <2>2
<1> QED BY <1>3, <1>4

LEMMA BlockOfIs ==
  ASSUME NEW bs \in Seq(Block), NEW p, NEW k \in DOMAIN bs, bs[k].addr + HeaderSize = p
  PROVE  BlockOf(bs, p) \in DOMAIN bs /\ bs[BlockOf(bs, p)].addr + HeaderSize = p
<1> DEFINE I == {j \in 1 .. Len(bs) : bs[j].addr + HeaderSize = p}
<1>1. BlockOf(bs, p) = IF I # {} THEN Min(I) ELSE 0
  BY DEF BlockOf, SelectInSeq
<1>2. DOMAIN bs = 1 .. Len(bs) /\ I \in SUBSET Nat /\ k \in I
  OBVIOUS
<1> DEFINE i == Min(I)
<1>3. i \in I
  <2> HIDE DEF I
  <2> QED BY <1>2, LeastIs
<1>4. BlockOf(bs, p) = i
  BY <1>1, <1>2
<1> HIDE DEF i
<1> QED BY <1>2, <1>3, <1>4

\* The next page is linked after the last block.
LEMMA LinkedIs ==
  ASSUME NEW top \in Nat, top < Base + AddressSpace, NEW bs, Listed(bs, top), NEW end, NEW block
  PROVE  /\ bs = <<>> => Linked(bs, end, block) = <<>>
         /\ bs # <<>> /\ end = Last(bs).addr => Linked(bs, end, block) = Append(bs, block)
<1> DEFINE I == {j \in 1 .. Len(bs) : bs[j].addr = end}
           at == IF I # {} THEN Min(I) ELSE 0
<1>1. Linked(bs, end, block) = IF at = 0 THEN bs ELSE Append(SubSeq(bs, 1, at), block)
  BY DEF Linked, SelectInSeq
<1>2. bs \in Seq(Block) /\ DOMAIN bs = 1 .. Len(bs) /\ Len(bs) \in Nat /\ I \in SUBSET Nat
  BY DEF Listed
<1>3. ASSUME bs = <<>> PROVE Linked(bs, end, block) = <<>>
  <2>1. I = {}
    BY <1>2, <1>3
  <2> QED BY <1>1, <1>3, <2>1
<1>4. ASSUME bs # <<>>, end = Last(bs).addr
      PROVE  Linked(bs, end, block) = Append(bs, block)
  <2>1. Len(bs) \in I /\ Len(bs) # 0
    BY <1>2, <1>4, EmptySeq DEF Last
  <2>2. \A j \in I : j = Len(bs)
    <3>1. \A i, j \in DOMAIN bs : bs[i].addr = bs[j].addr => i = j
      BY ListedUnique
    <3> QED BY <1>2, <2>1, <3>1
  <2>3. Min(I) \in I
    <3> HIDE DEF I
    <3> QED BY <1>2, <2>1, LeastIs
  <2>4. at = Len(bs)
    BY <2>1, <2>2, <2>3
  <2>5. SubSeq(bs, 1, Len(bs)) = bs
    BY <1>2, SubSeqFull
  <2> HIDE DEF at
  <2> QED BY <1>1, <2>1, <2>4, <2>5
<1> QED BY <1>3, <1>4

-----------------------------------------------------------------------------
(* The heap, as the record of it that a call works on.                       *)

Top(v) == Rank(v.next) * PAGE_SIZE

LEMMA TopFacts ==
  ASSUME NEW v \in VM
  PROVE  /\ Top(v) \in Nat /\ Top(v) < Base + AddressSpace
         /\ v.next * PAGE_SIZE \in Nat /\ Key(v.next * PAGE_SIZE) = Top(v)
<1>1. v.next \in Pages
  BY DEF VM
<1> QED BY <1>1, KeyPage DEF Top

\* A page further on.
LEMMA TopRises ==
  ASSUME NEW v \in VM, NEW w \in VM
  PROVE  /\ Rank(v.next) <= Rank(w.next) => Top(v) <= Top(w)
         /\ Rank(v.next) < Rank(w.next) => Top(v) + PAGE_SIZE <= Top(w)
<1>1. v.next \in Pages /\ w.next \in Pages
  BY DEF VM
<1>2. Rank(v.next) \in Nat /\ Rank(w.next) \in Nat
  BY <1>1, KeyPage
<1>3. ASSUME Rank(v.next) < Rank(w.next) PROVE Top(v) + PAGE_SIZE <= Top(w)
  BY <1>2, <1>3, PageBelow DEF Top
<1>4. Top(v) \in Nat /\ Top(w) \in Nat /\ PAGE_SIZE \in Nat
  BY TopFacts, SizeFacts
<1>5. Rank(v.next) = Rank(w.next) => Top(v) = Top(w)
  BY DEF Top
<1> QED BY <1>2, <1>3, <1>4, <1>5

\* A page of the heap, lost to what its frame held when it was linked.
Lost(b, v, P, F) ==
  LET page == b.addr \div PAGE_SIZE
  IN  b = PageBlock(page, TRUE) /\ page \in P /\ v.entry[page] \in F

\* Block b holds what was asked for as pointer p.
Holds(b, p, n) ==
  b.addr + HeaderSize = p /\ b.used /\ (b.size >= n \/ n > AddressSpace - HEAP_ALIGNMENT)

HeldIn(bs, ptrs) ==
  \A p \in DOMAIN ptrs : p % HEAP_ALIGNMENT = 0 /\ \E i \in DOMAIN bs : Holds(bs[i], p, ptrs[p])
UsedIn(bs, ptrs, v, P, F) ==
  \A i \in DOMAIN bs : bs[i].used =>
    bs[i].addr + HeaderSize \in DOMAIN ptrs \/ Lost(bs[i], v, P, F)

\* A heap that has no first block has no page either, and never will.
Started(h, O) ==
  /\ h.blocks # <<>> => h.end = Last(h.blocks).addr
  /\ h.blocks = <<>> => h.pages = {} /\ O = {} /\ Barren(h.vm)

\* The heap h, with the pages O and the pointers ptrs of its callers, where
\* the frames F were not 0.
Whole(h, O, ptrs, F) ==
  /\ Listed(h.blocks, Top(h.vm)) /\ h.end \in Nat /\ h.size = Bytes(h.blocks)
  /\ Sound(h.vm, h.pages \cup O) /\ h.pages \cap O = {}
  /\ Started(h, O)
  /\ HeldIn(h.blocks, ptrs) /\ UsedIn(h.blocks, ptrs, h.vm, h.pages, F)
  /\ InPages(h.blocks, h.pages)

-----------------------------------------------------------------------------
(* heap_expand.                                                              *)

LEMMA PageBlockIs ==
  ASSUME NEW page \in Pages, NEW u \in BOOLEAN
  PROVE  LET b == PageBlock(page, u)
         IN  /\ b \in Block /\ b.addr = page * PAGE_SIZE /\ b.used = u
             /\ b.size = PAGE_SIZE - HeaderSize
             /\ HeaderSize + b.size = PAGE_SIZE /\ b.addr \div PAGE_SIZE = page
             /\ b.addr % HEAP_ALIGNMENT = 0
             /\ Key(b.addr) = Rank(page) * PAGE_SIZE
             /\ KEnd(b) = Rank(page) * PAGE_SIZE + PAGE_SIZE
             /\ Rank(page) * PAGE_SIZE \in Nat
<1> DEFINE b == PageBlock(page, u)
<1>1. b.addr = page * PAGE_SIZE /\ b.size = PAGE_SIZE - HeaderSize /\ b.used = u
      /\ b = [addr |-> page * PAGE_SIZE, size |-> PAGE_SIZE - HeaderSize, used |-> u]
  BY DEF PageBlock
<1> HIDE DEF b
<1>2. /\ page \in Nat /\ page * PAGE_SIZE \in Nat /\ Key(page * PAGE_SIZE) = Rank(page) * PAGE_SIZE
      /\ Rank(page) * PAGE_SIZE \in Nat
  BY KeyPage, NumFacts
<1>3. PAGE_SIZE - HeaderSize \in Nat /\ HeaderSize + (PAGE_SIZE - HeaderSize) = PAGE_SIZE
      /\ PAGE_SIZE \in Nat \ {0} /\ HeaderSize \in Nat
  BY SizeFacts
<1>4. b \in Block
  BY <1>1, <1>2, <1>3 DEF Block
<1>5. (page * PAGE_SIZE) \div PAGE_SIZE = page
  BY <1>2, <1>3, MulDiv
<1>6. (page * PAGE_SIZE) % HEAP_ALIGNMENT = 0
  BY <1>2, AlignedPage
<1>7. KEnd(b) = Rank(page) * PAGE_SIZE + PAGE_SIZE
  <2>1. KEnd(b) = Rank(page) * PAGE_SIZE + HeaderSize + (PAGE_SIZE - HeaderSize)
    BY <1>1, <1>2 DEF KEnd
  <2> QED BY <1>2, <1>3, <2>1
<1>8. HeaderSize + b.size = PAGE_SIZE
  BY <1>1, <1>3
<1>9. b.addr \div PAGE_SIZE = page /\ b.addr % HEAP_ALIGNMENT = 0 /\ Key(b.addr) = Rank(page) * PAGE_SIZE
  BY <1>1, <1>2, <1>5, <1>6
<1> QED BY <1>1, <1>2, <1>4, <1>7, <1>8, <1>9 DEF b

LEMMA InPagesAppend ==
  ASSUME NEW bs \in Seq(Block), NEW P \in SUBSET Pages, InPages(bs, P),
         NEW page \in Pages, NEW b \in Block, b.addr = page * PAGE_SIZE,
         Key(b.addr) = Rank(page) * PAGE_SIZE, KEnd(b) = Rank(page) * PAGE_SIZE + PAGE_SIZE
  PROVE  InPages(Append(bs, b), P \cup {page})
<1> DEFINE c == Append(bs, b)
<1>1. /\ DOMAIN bs = 1 .. Len(bs) /\ DOMAIN c = 1 .. Len(bs) + 1 /\ Len(bs) \in Nat
      /\ \A i \in DOMAIN bs : c[i] = bs[i]
      /\ c[Len(bs) + 1] = b
  BY AppendIs
<1> HIDE DEF c
<1>2. \A i \in DOMAIN c : i \in DOMAIN bs \/ i = Len(bs) + 1
  BY <1>1
<1>3. FromTo(b, page, page)
  <2>1. page \in Nat /\ FirstPage \in Nat /\ Rank(page) * PAGE_SIZE \in Nat /\ PAGE_SIZE \in Nat \ {0}
    BY NumFacts, KeyPage, SizeFacts
  <2>2. page < FirstPage => page * PAGE_SIZE < Base
    <3>1. ASSUME page < FirstPage PROVE page * PAGE_SIZE < Base
      <4>1. page * PAGE_SIZE \in Nat /\ FirstPage * PAGE_SIZE \in Nat
            /\ page * PAGE_SIZE + PAGE_SIZE <= FirstPage * PAGE_SIZE
        BY <2>1, <3>1, PageBelow
      <4> QED BY <2>1, <4>1 DEF Base
    <3> QED BY <3>1
  <2> QED BY <2>1, <2>2 DEF FromTo
<1>4. \A i \in DOMAIN c : \E f, l \in P \cup {page} : FromTo(c[i], f, l)
  BY <1>1, <1>2, <1>3 DEF InPages
<1> QED BY <1>4 DEF InPages, c

SameEntries(v, w, P) == \A p \in P : w.entry[p] = v.entry[p]

LEMMA LostStays ==
  ASSUME NEW b, NEW v, NEW P, NEW F, Lost(b, v, P, F),
         NEW w, NEW Q, NEW E, P \subseteq Q, F \subseteq E, SameEntries(v, w, P)
  PROVE  Lost(b, w, Q, E)
BY DEF Lost, SameEntries

LEMMA UsedStays ==
  ASSUME NEW bs, NEW ptrs, NEW v, NEW P, NEW F, UsedIn(bs, ptrs, v, P, F),
         NEW w, NEW Q, NEW E, P \subseteq Q, F \subseteq E, SameEntries(v, w, P)
  PROVE  UsedIn(bs, ptrs, w, Q, E)
<1> SUFFICES ASSUME NEW i \in DOMAIN bs, bs[i].used
             PROVE  bs[i].addr + HeaderSize \in DOMAIN ptrs \/ Lost(bs[i], w, Q, E)
  BY DEF UsedIn
<1>1. bs[i].addr + HeaderSize \in DOMAIN ptrs \/ Lost(bs[i], v, P, F)
  BY DEF UsedIn
<1> QED BY <1>1, LostStays

HeapRec == [blocks : Seq(Block), end : Nat, size : Nat, vm : VM, pages : SUBSET Pages, more : BOOLEAN]

\* The heap during a call.
Heap(h, O, ptrs, F) == h \in HeapRec /\ Whole(h, O, ptrs, F) /\ (h.more => ~h.vm.faulted)

LEMMA HeldAppend ==
  ASSUME NEW bs \in Seq(Block), NEW b \in Block, NEW ptrs, HeldIn(bs, ptrs)
  PROVE  HeldIn(Append(bs, b), ptrs)
<1> SUFFICES ASSUME NEW p \in DOMAIN ptrs
             PROVE  /\ p % HEAP_ALIGNMENT = 0
                    /\ \E i \in DOMAIN Append(bs, b) : Holds(Append(bs, b)[i], p, ptrs[p])
  BY DEF HeldIn
<1>1. p % HEAP_ALIGNMENT = 0 /\ \E i \in DOMAIN bs : Holds(bs[i], p, ptrs[p])
  BY DEF HeldIn
<1>2. PICK i \in DOMAIN bs : Holds(bs[i], p, ptrs[p])
  BY <1>1
<1>3. i \in DOMAIN Append(bs, b) /\ Append(bs, b)[i] = bs[i]
  BY AppendIs
<1> QED BY <1>1, <1>2, <1>3

LEMMA UsedAppend ==
  ASSUME NEW bs \in Seq(Block), NEW b \in Block, NEW ptrs, NEW v, NEW P, NEW F,
         UsedIn(bs, ptrs, v, P, F), b.used => Lost(b, v, P, F)
  PROVE  UsedIn(Append(bs, b), ptrs, v, P, F)
<1> DEFINE c == Append(bs, b)
<1>1. /\ DOMAIN bs = 1 .. Len(bs) /\ DOMAIN c = 1 .. Len(bs) + 1 /\ Len(bs) \in Nat
      /\ \A i \in DOMAIN bs : c[i] = bs[i]
      /\ c[Len(bs) + 1] = b
  BY AppendIs
<1> HIDE DEF c
<1>2. \A i \in DOMAIN c : i \in DOMAIN bs \/ i = Len(bs) + 1
  BY <1>1
<1>3. UsedIn(c, ptrs, v, P, F)
  BY <1>1, <1>2 DEF UsedIn
<1> QED BY <1>3 DEF c

\* Memory that has changed, but not the pages of the heap.
LEMMA MemoryWhole ==
  ASSUME NEW h \in HeapRec, NEW O, NEW ptrs, NEW F, Whole(h, O, ptrs, F),
         NEW Q, NEW E, F \subseteq E, h.pages \cap Q = {},
         NEW w, Sound(w, h.pages \cup Q), Rank(h.vm.next) <= Rank(w.next),
         SameEntries(h.vm, w, h.pages), h.blocks = <<>> => Q = {} /\ Barren(w),
         NEW g, g.blocks = h.blocks, g.end = h.end, g.size = h.size, g.pages = h.pages, g.vm = w
  PROVE  Whole(g, Q, ptrs, E)
<1>1. h.vm \in VM /\ w \in VM
  BY DEF HeapRec, Sound
<1>2. Top(h.vm) \in Nat /\ Top(w) \in Nat /\ Top(h.vm) <= Top(w)
  BY <1>1, TopFacts, TopRises
<1>3. Listed(h.blocks, Top(h.vm))
  BY DEF Whole
<1>4. Listed(g.blocks, Top(w))
  <2> DEFINE s == Top(h.vm)
             t == Top(w)
  <2>1. s \in Nat /\ t \in Nat /\ s <= t /\ Listed(h.blocks, s)
    BY <1>2, <1>3
  <2> HIDE DEF s, t
  <2>2. Listed(h.blocks, t)
    BY <2>1, ListedHigher
  <2> QED BY <2>2 DEF t
<1>5. Started(g, Q)
  BY DEF Whole, Started
<1>6. UsedIn(g.blocks, ptrs, w, g.pages, E)
  <2> DEFINE v == h.vm
             P == h.pages
             bs == h.blocks
  <2>1. UsedIn(bs, ptrs, v, P, F) /\ P \subseteq P /\ SameEntries(v, w, P)
    BY DEF Whole
  <2> HIDE DEF v, P, bs
  <2>2. UsedIn(bs, ptrs, w, P, E)
    BY <2>1, UsedStays
  <2> QED BY <2>2 DEF P, bs
<1> QED BY <1>4, <1>5, <1>6 DEF Whole

\* A call that gets no page.
LEMMA NoPageWhole ==
  ASSUME NEW h \in HeapRec, NEW O, NEW ptrs, NEW F, Whole(h, O, ptrs, F),
         NEW w, Sound(w, h.pages \cup O), Rank(h.vm.next) <= Rank(w.next),
         SameEntries(h.vm, w, h.pages), h.blocks = <<>> => Barren(w),
         NEW g, g = [h EXCEPT !.vm = w, !.more = FALSE]
  PROVE  Heap(g, O, ptrs, F)
<1>1. /\ g.blocks = h.blocks /\ g.end = h.end /\ g.size = h.size /\ g.pages = h.pages
      /\ g.vm = w /\ g.more = FALSE
  BY DEF HeapRec
<1>2. g \in HeapRec
  BY DEF HeapRec, Sound
<1>3. h.pages \cap O = {} /\ (h.blocks = <<>> => O = {} /\ Barren(w)) /\ F \subseteq F
  BY DEF Whole, Started
<1>4. Whole(g, O, ptrs, F)
  BY <1>1, <1>3, MemoryWhole, ZenonT(40)
<1> QED BY <1>1, <1>2, <1>4 DEF Heap

\* A call that gets a page, whose block is used if its frame is one of F.
NewBlock(w, page, F) == PageBlock(page, w.entry[page] \in F)
WithPage(h, w, page, b) ==
  [h EXCEPT !.vm = w, !.blocks = Append(@, b), !.end = b.addr,
            !.size = @ + PAGE_SIZE, !.pages = @ \cup {page}]

LEMMA PageWhole ==
  ASSUME NEW h \in HeapRec, NEW O, NEW ptrs, NEW F, Whole(h, O, ptrs, F), h.blocks # <<>>,
         NEW page \in Pages \ {0}, page = h.vm.next, page \notin h.pages \cup O,
         NEW w, Sound(w, h.pages \cup O \cup {page}), ~w.faulted,
         Rank(page) < Rank(w.next), SameEntries(h.vm, w, h.pages),
         NEW b, b = NewBlock(w, page, F),
         NEW g, g = WithPage(h, w, page, b)
  PROVE  Heap(g, O, ptrs, F)
<1> DEFINE bs == h.blocks
           cs == Append(bs, b)
           P  == h.pages
           Q  == P \cup {page}
           v  == h.vm
           s  == Top(v)
           t  == Top(w)
<1>1. /\ bs \in Seq(Block) /\ v \in VM /\ P \in SUBSET Pages /\ h.size \in Nat /\ h.more \in BOOLEAN
      /\ w \in VM
  BY DEF HeapRec, Sound
<1>2. /\ b \in Block /\ b.addr = page * PAGE_SIZE /\ (b.used <=> w.entry[page] \in F)
      /\ HeaderSize + b.size = PAGE_SIZE /\ b.addr \div PAGE_SIZE = page
      /\ b.addr % HEAP_ALIGNMENT = 0 /\ Key(b.addr) = Rank(page) * PAGE_SIZE
      /\ KEnd(b) = Rank(page) * PAGE_SIZE + PAGE_SIZE
      /\ Rank(page) * PAGE_SIZE \in Nat
  <2> DEFINE u == w.entry[page] \in F
  <2>1. u \in BOOLEAN /\ b = PageBlock(page, u) /\ page \in Pages
    BY DEF NewBlock
  <2> HIDE DEF u
  <2>2. /\ b \in Block /\ b.addr = page * PAGE_SIZE /\ b.used = u
        /\ HeaderSize + b.size = PAGE_SIZE /\ b.addr \div PAGE_SIZE = page
        /\ b.addr % HEAP_ALIGNMENT = 0 /\ Key(b.addr) = Rank(page) * PAGE_SIZE
        /\ KEnd(b) = Rank(page) * PAGE_SIZE + PAGE_SIZE
        /\ Rank(page) * PAGE_SIZE \in Nat
    BY <2>1, PageBlockIs
  <2> QED BY <2>2 DEF u
<1>3. /\ g.blocks = cs /\ g.end = b.addr /\ g.size = h.size + PAGE_SIZE /\ g.pages = Q
      /\ g.vm = w /\ g.more = h.more
  BY DEF HeapRec, WithPage
<1>4. cs \in Seq(Block) /\ cs # <<>> /\ Last(cs) = b /\ b.addr \in Nat
  <2>1. bs \in Seq(Block) /\ b \in Block
    BY <1>1, <1>2
  <2>2. b.addr \in Nat
    BY <2>1, KeyType
  <2> HIDE DEF bs, P, Q, v, s, t
  <2>3. Append(bs, b) \in Seq(Block) /\ Append(bs, b) # <<>> /\ Last(Append(bs, b)) = b
    BY ONLY <2>1, AppendIs
  <2> QED BY <2>2, <2>3
<1>5. g \in HeapRec
  <2> DEFINE e == b.addr
             z == h.size + PAGE_SIZE
  <2>1. g = [h EXCEPT !.vm = w, !.blocks = cs, !.end = e, !.size = z, !.pages = Q]
    BY DEF HeapRec, WithPage
  <2>2. cs \in Seq(Block) /\ e \in Nat /\ z \in Nat /\ Q \in SUBSET Pages
    BY <1>1, <1>4, SizeFacts
  <2> HIDE DEF cs, e, z, Q
  <2> QED BY <1>1, <2>1, <2>2 DEF HeapRec
<1>6. s \in Nat /\ t \in Nat /\ s = Rank(page) * PAGE_SIZE /\ s + PAGE_SIZE <= t
  BY <1>1, TopFacts, TopRises DEF Top
<1>7. Listed(cs, t)
  <2>1. Listed(bs, s)
    BY DEF Whole
  <2>2. s <= Key(b.addr) /\ KEnd(b) <= t
    BY <1>2, <1>6
  <2> HIDE DEF s, t, bs
  <2> QED BY <1>2, <1>6, <2>1, <2>2, ListedAppend DEF cs
<1>8. g.size = Bytes(cs)
  <2>1. h.size = Bytes(bs)
    BY DEF Whole
  <2>2. Bytes(cs) = Bytes(bs) + HeaderSize + b.size /\ Bytes(bs) \in Nat
    BY <1>1, <1>2, BytesAppend
  <2>3. HeaderSize \in Nat /\ b.size \in Nat
    BY <1>2, KeyType, SizeFacts
  <2> QED BY <1>2, <1>3, <2>1, <2>2, <2>3
<1>9. Sound(w, Q \cup O) /\ Q \cap O = {}
  <2>1. Q \cup O = P \cup O \cup {page}
    OBVIOUS
  <2> QED BY <2>1 DEF Whole
<1>10. Started(g, O)
  BY <1>3, <1>4 DEF Started
<1>11. HeldIn(cs, ptrs)
  BY <1>1, <1>2, HeldAppend DEF Whole
<1>12. UsedIn(cs, ptrs, w, Q, F)
  <2>1. UsedIn(bs, ptrs, v, P, F) /\ P \subseteq Q /\ F \subseteq F /\ SameEntries(v, w, P)
    BY DEF Whole
  <2>2. b.used => Lost(b, w, Q, F)
    <3>1. ASSUME b.used PROVE Lost(b, w, Q, F)
      <4>1. b = PageBlock(page, TRUE)
        <5>1. (w.entry[page] \in F) = TRUE
          BY <1>2, <3>1
        <5> QED BY <5>1 DEF NewBlock
      <4>2. page \in Q /\ w.entry[page] \in F
        BY <1>2, <3>1
      <4>3. b = PageBlock(b.addr \div PAGE_SIZE, TRUE)
        BY <1>2, <4>1
      <4> QED BY <1>2, <4>2, <4>3 DEF Lost
    <3> QED BY <3>1
  <2> HIDE DEF v, P, Q, bs
  <2>3. UsedIn(bs, ptrs, w, Q, F)
    BY <2>1, UsedStays
  <2> QED BY <1>1, <1>2, <2>2, <2>3, UsedAppend DEF cs
<1>13. InPages(cs, Q)
  <2>1. InPages(bs, P) /\ page \in Pages
    BY DEF Whole
  <2> HIDE DEF bs, P
  <2> QED BY <1>1, <1>2, <2>1, InPagesAppend
<1>14. Whole(g, O, ptrs, F)
  <2>1. g.end \in Nat
    BY <1>3, <1>4
  <2> HIDE DEF cs, Q
  <2> QED BY <1>3, <1>7, <1>8, <1>9, <1>10, <1>11, <1>12, <1>13, <2>1 DEF Whole, t
<1> QED BY <1>3, <1>5, <1>14 DEF Heap

\* What a turn of the loop finds, r being what vmm_alloc_page returns.
Alloced(h, O, r) ==
  /\ Rank(h.vm.next) <= Rank(r.vm.next) /\ SameEntries(h.vm, r.vm, h.pages)
  /\ h.blocks = <<>> => r.vm.faulted \/ (r.page = 0 /\ Barren(r.vm))
NoPage(h, O, r) ==
  /\ Sound(r.vm, h.pages \cup O)
  /\ Expand(h) = [h EXCEPT !.vm = r.vm, !.more = FALSE]
NewPage(h, O, r) ==
  /\ r.page = h.vm.next /\ r.page \in Pages \ {0} /\ r.page \notin h.pages \cup O
  /\ Sound(r.vm, h.pages \cup O \cup {r.page}) /\ Rank(r.page) < Rank(r.vm.next)
  /\ h.blocks # <<>>
  /\ Expand(h) = WithPage(h, r.vm, r.page, NewBlock(r.vm, r.page, dirty))

\* One turn of the loop.
LEMMA ExpandIs ==
  ASSUME NEW h, NEW O, NEW ptrs, Heap(h, O, ptrs, dirty), h.more,
         NEW r, r = AllocPage(h.vm)
  PROVE  /\ Alloced(h, O, r)
         /\ r.vm.faulted \/ r.page = 0 => NoPage(h, O, r)
         /\ ~r.vm.faulted /\ r.page # 0 => NewPage(h, O, r)
<1> DEFINE w == r.vm
           G == h.pages \cup O
           v == h.vm
           b == PageBlock(r.page, UsedByte(w, r.page))
<1>1. h \in HeapRec /\ Whole(h, O, ptrs, dirty) /\ ~v.faulted /\ Sound(v, G)
  BY DEF Heap, Whole
<1>2. /\ w.faulted => Sound(w, G)
      /\ ~w.faulted => Sound(w, G \cup ({r.page} \ {0}))
      /\ ~w.faulted => r.page \notin G
      /\ Rank(v.next) <= Rank(w.next)
      /\ \A p \in G : w.entry[p] = v.entry[p]
      /\ ~w.faulted /\ r.page # 0 => r.page = v.next /\ Rank(v.next) < Rank(w.next)
  <2>1. Sound(v, G) /\ ~v.faulted /\ r = AllocPage(v)
    BY <1>1
  <2> HIDE DEF v, G, w
  <2> QED BY <2>1, AllocSound DEF w
<1>3. h.blocks = <<>> => w.faulted \/ (r.page = 0 /\ Barren(w))
  <2>1. ASSUME h.blocks = <<>> PROVE w.faulted \/ (r.page = 0 /\ Barren(w))
    <3>1. Sound(v, G) /\ ~v.faulted /\ r = AllocPage(v) /\ Barren(v)
      BY <1>1, <2>1 DEF Whole, Started
    <3> HIDE DEF v, G, w
    <3> QED BY <3>1, BarrenAlloc DEF w
  <2> QED BY <2>1
<1>4. Alloced(h, O, r)
  <2>1. SameEntries(v, w, h.pages)
    BY <1>2 DEF SameEntries
  <2> QED BY <1>2, <1>3, <2>1 DEF Alloced
<1> HIDE DEF v, w, G
<1>5. ASSUME w.faulted \/ r.page = 0 PROVE NoPage(h, O, r)
  <2>1. Expand(h) = [h EXCEPT !.vm = w, !.more = FALSE]
    BY <1>5 DEF Expand, w
  <2>2. Sound(w, h.pages \cup O)
    <3>1. r.page = 0 => G \cup ({r.page} \ {0}) = G
      OBVIOUS
    <3> QED BY <1>2, <1>5, <3>1 DEF G
  <2> QED BY <2>1, <2>2 DEF NoPage, w
<1>6. ASSUME ~w.faulted /\ r.page # 0 PROVE NewPage(h, O, r)
  <2>1. h.blocks # <<>>
    BY <1>3, <1>6
  <2>2. r.page = h.vm.next /\ r.page \notin h.pages \cup O /\ Rank(r.page) < Rank(w.next)
    BY <1>2, <1>6 DEF G, v
  <2>3. r.page \in Pages \ {0}
    BY <1>1, <1>6, <2>2 DEF HeapRec, VM
  <2>4. Sound(w, h.pages \cup O \cup {r.page})
    <3>1. G \cup ({r.page} \ {0}) = h.pages \cup O \cup {r.page}
      BY <1>6 DEF G
    <3> QED BY <1>2, <1>6, <3>1
  <2>5. b = NewBlock(w, r.page, dirty)
    BY DEF UsedByte, NewBlock
  <2>6. Linked(h.blocks, h.end, b) = Append(h.blocks, b)
    <3> DEFINE bs == h.blocks
               top == Top(h.vm)
               end == h.end
    <3>1. top \in Nat /\ top < Base + AddressSpace
      BY <1>1, TopFacts DEF HeapRec
    <3>2. Listed(bs, top) /\ bs # <<>> /\ end = Last(bs).addr
      BY <1>1, <2>1 DEF Whole, Started
    <3> HIDE DEF bs, top, end, b
    <3>3. Linked(bs, end, b) = Append(bs, b)
      BY <3>1, <3>2, LinkedIs
    <3> QED BY <3>3 DEF bs, end
  <2>7. Expand(h) = [h EXCEPT !.vm = w, !.blocks = Linked(h.blocks, h.end, b), !.end = b.addr,
                              !.size = @ + PAGE_SIZE, !.pages = @ \cup {r.page}]
    <3> HIDE DEF b
    <3> QED BY <1>6 DEF Expand, w, b
  <2> HIDE DEF b
  <2>8. Expand(h) = WithPage(h, w, r.page, b)
    BY <2>6, <2>7 DEF WithPage
  <2> QED BY <2>1, <2>2, <2>3, <2>4, <2>5, <2>8 DEF NewPage, w
<1> QED BY <1>4, <1>5, <1>6 DEF w

LEMMA ExpandWhole ==
  ASSUME NEW h, NEW O, NEW ptrs, Heap(h, O, ptrs, dirty)
  PROVE  Heap(Expand(h), O, ptrs, dirty)
<1>1. h \in HeapRec /\ Whole(h, O, ptrs, dirty) /\ h.more \in BOOLEAN
  BY DEF Heap, HeapRec
<1>2. CASE ~h.more
  BY <1>2 DEF Expand
<1>3. CASE h.more
  <2>1. PICK r : r = AllocPage(h.vm)
    OBVIOUS
  <2>2. /\ Alloced(h, O, r)
        /\ r.vm.faulted \/ r.page = 0 => NoPage(h, O, r)
        /\ ~r.vm.faulted /\ r.page # 0 => NewPage(h, O, r)
    BY <1>3, <2>1, ExpandIs
  <2>3. PICK w : w = r.vm
    OBVIOUS
  <2>4. Rank(h.vm.next) <= Rank(w.next) /\ SameEntries(h.vm, w, h.pages)
    BY <2>2, <2>3 DEF Alloced
  <2>5. CASE w.faulted \/ r.page = 0
    <3>1. Expand(h) = [h EXCEPT !.vm = w, !.more = FALSE] /\ Sound(w, h.pages \cup O)
      BY <2>2, <2>3, <2>5 DEF NoPage
    <3>2. h.blocks = <<>> => Barren(w)
      BY <2>2, <2>3 DEF Alloced, Barren
    <3> QED BY <1>1, <2>4, <3>1, <3>2, NoPageWhole
  <2>6. CASE ~w.faulted /\ r.page # 0
    <3>1. PICK page : page = r.page
      OBVIOUS
    <3>2. NewPage(h, O, r) /\ ~w.faulted
      BY <2>2, <2>3, <2>6
    <3>3. PICK b : b = NewBlock(w, page, dirty)
      OBVIOUS
    <3>4. /\ h.blocks # <<>> /\ page \in Pages \ {0} /\ page = h.vm.next
          /\ page \notin h.pages \cup O /\ Sound(w, h.pages \cup O \cup {page})
          /\ Rank(page) < Rank(w.next) /\ Expand(h) = WithPage(h, w, page, b)
      BY <2>3, <3>1, <3>2, <3>3 DEF NewPage
    <3> QED BY <1>1, <2>4, <3>2, <3>3, <3>4, PageWhole
  <2> QED BY <2>5, <2>6
<1> QED BY <1>1, <1>2, <1>3

LEMMA ExpandPagesType == ASSUME NEW size \in Nat PROVE ExpandPages(size) \in Nat
<1> DEFINE a == size + HeaderSize
           m == a % AddressSpace
           e == m + HEAP_EXPAND_SIZE - 1
           k == e % AddressSpace
<1>1. a \in Nat /\ AddressSpace \in Nat \ {0} /\ HEAP_EXPAND_SIZE \in Nat \ {0}
  BY SizeFacts, SpaceIs
<1>2. ExpandPages(size) = k \div HEAP_EXPAND_SIZE
  BY DEF ExpandPages, size32
<1> HIDE DEF a
<1>3. m \in Nat
  BY <1>1, ModType
<1> HIDE DEF m
<1>4. e \in Nat
  BY <1>1, <1>3
<1> HIDE DEF e
<1>5. k \in Nat
  BY <1>1, <1>4, ModType
<1> HIDE DEF k
<1> QED BY <1>1, <1>2, <1>5, DivType

\* The loop of heap_expand: the heap before it and after each of its turns.
Turns(turn, h, size, O, ptrs) ==
  LET n == ExpandPages(size)
  IN  /\ n \in Nat /\ turn[0] = h /\ heap_expand(h, size) = turn[n]
      /\ \A i \in 0 .. n : Heap(turn[i], O, ptrs, dirty)
      /\ \A i \in 1 .. n : turn[i] = Expand(turn[i - 1])

LEMMA TurnsAre ==
  ASSUME NEW h, NEW O, NEW ptrs, Heap(h, O, ptrs, dirty), NEW size \in Nat
  PROVE  \E turn : Turns(turn, h, size, O, ptrs)
<1> DEFINE n == ExpandPages(size)
           S == {x \in HeapRec : Heap(x, O, ptrs, dirty)}
           P(turn) == turn = [i \in 0 .. n |-> IF i = 0 THEN h ELSE Expand(turn[i - 1])]
           g == CHOOSE turn : P(turn)
           step == [x \in (1 .. n) \X S |-> Expand(x[2])]
           D == {i \in Nat : i <= n => g[i] \in S}
<1>1. n \in Nat
  BY ExpandPagesType
<1>2. h \in S
  BY DEF Heap
<1>3. ASSUME NEW x \in S PROVE Expand(x) \in S
  <2>1. Heap(Expand(x), O, ptrs, dirty)
    BY ExpandWhole
  <2> QED BY <2>1 DEF Heap
<1> HIDE DEF S
<1>4. step \in [(1 .. n) \X S -> S]
  BY <1>3
<1>5. \E turn : P(turn)
  <2>1. PICK turn \in [0 .. n -> S] : Recursion(turn, n, h, step)
    <3> HIDE DEF step, n, g, D, P
    <3> QED BY <1>1, <1>2, <1>4, RecExists
  <2>2. ASSUME NEW i \in 0 .. n
        PROVE  turn[i] = IF i = 0 THEN h ELSE Expand(turn[i - 1])
    <3>1. CASE i = 0
      BY <2>1, <3>1 DEF Recursion
    <3>2. CASE i # 0
      <4>1. <<i, turn[i - 1]>> \in (1 .. n) \X S
        <5> HIDE DEF step, n, g, D, P
        <5> QED BY <1>1, <2>1, <3>2
      <4> QED BY <2>1, <3>2, <4>1 DEF Recursion
    <3> QED BY <3>1, <3>2
  <2>3. P(turn)
    <3> HIDE DEF step, n
    <3> QED BY <2>1, <2>2
  <2> QED BY <2>3
<1>6. P(g)
  <2> HIDE DEF P
  <2> QED BY <1>5
<1> HIDE DEF g, n, step
<1>7. 0 \in D
  BY <1>1, <1>2, <1>6
<1>8. ASSUME NEW i \in Nat, i \in D PROVE i + 1 \in D
  <2> SUFFICES ASSUME i + 1 <= n PROVE g[i + 1] \in S
    OBVIOUS
  <2>1. g[i] \in S /\ i + 1 \in 0 .. n /\ i + 1 # 0 /\ (i + 1) - 1 = i
    BY <1>1, <1>8
  <2>2. g[i + 1] = Expand(g[i])
    BY <1>6, <2>1
  <2> QED BY <1>3, <2>1, <2>2
<1>9. \A i \in Nat : i \in D
  <2> HIDE DEF D
  <2> QED BY <1>7, <1>8, NatInd
<1>10. \A i \in 0 .. n : Heap(g[i], O, ptrs, dirty)
  <2>1. \A i \in 0 .. n : g[i] \in S
    BY <1>1, <1>9
  <2> QED BY <2>1 DEF S
<1>11. g[0] = h /\ \A i \in 1 .. n : g[i] = Expand(g[i - 1])
  BY <1>1, <1>6
<1>12. heap_expand(h, size) = g[n]
  BY DEF heap_expand, g, n
<1>13. Turns(g, h, size, O, ptrs)
  BY <1>1, <1>10, <1>11, <1>12 DEF Turns, n
<1> QED BY <1>13

LEMMA heap_expandWhole ==
  ASSUME NEW h, NEW O, NEW ptrs, Heap(h, O, ptrs, dirty), NEW size \in Nat
  PROVE  Heap(heap_expand(h, size), O, ptrs, dirty)
<1>1. PICK turn : Turns(turn, h, size, O, ptrs)
  BY TurnsAre
<1> QED BY <1>1 DEF Turns

LEMMA SearchedWhole ==
  ASSUME NEW h, NEW O, NEW ptrs, Heap(h, O, ptrs, dirty), NEW size \in Nat
  PROVE  Heap(Searched(h, size), O, ptrs, dirty)
<1> DEFINE z == size32(size + HeaderSize)
<1>1. z \in Nat
  <2>1. \A a \in Nat : a % AddressSpace \in Nat
    BY SpaceIs, ModType
  <2> QED BY <2>1, SizeFacts DEF size32
<1> HIDE DEF z
<1>2. Heap(heap_expand(h, z), O, ptrs, dirty)
  BY <1>1, heap_expandWhole
<1>3. Searched(h, size) = h \/ Searched(h, size) = heap_expand(h, z)
  BY DEF Searched, z
<1> QED BY <1>2, <1>3

-----------------------------------------------------------------------------
(* What a request that fits a page gets.                                     *)

\* No page can be had when there is no frame for it or for its table, or when
\* it would be page 0.
LEMMA NoPageWhy ==
  ASSUME NEW v, NEW G, Sound(v, G), ~v.faulted, NEW r, r = AllocPage(v),
         ~r.vm.faulted, r.page = 0
  PROVE  Cardinality(v.free) < 2 \/ v.next = 0
<1>1. v \in VM /\ v.table[0] # 0 /\ 0 \notin v.free
  BY DEF Sound
<1>2. NoneLeft(v, r) \/ NoTable(v, r) \/ Got(v, r) \/ Faults(v, r)
  BY <1>1, AllocOutcomes
<1>3. CASE NoneLeft(v, r)
  <2>1. v.free = {}
    BY <1>1, <1>3 DEF NoneLeft
  <2> QED BY <2>1, FS_EmptySet
<1>4. CASE NoTable(v, r)
  <2>1. PICK f : v.free = {f}
    BY <1>4 DEF NoTable
  <2>2. Cardinality({f}) = 1
    BY FS_Singleton
  <2> QED BY <2>1, <2>2
<1>5. CASE Got(v, r)
  <2>1. r.page = v.next
    BY <1>5 DEF Got, Backed
  <2> QED BY <2>1
<1>6. CASE Faults(v, r)
  BY <1>6 DEF Faults
<1> QED BY <1>2, <1>3, <1>4, <1>5, <1>6

Room(bs, size) == \E j \in DOMAIN bs : ~bs[j].used /\ bs[j].size >= size

\* The heap g that h has become in some turns: the machine has halted, the
\* first turn found no page, or there is a block or every new page is lost.
Stopped(g, h) ==
  ~g.more /\ g.pages = h.pages /\ (Cardinality(h.vm.free) < 2 \/ h.vm.next = 0)
Extended(g, h, size) ==
  /\ h.pages \subseteq g.pages /\ \E p \in g.pages : p \notin h.pages
  /\ \A p \in g.pages \ h.pages : g.vm.entry[p] \in dirty \/ Room(g.blocks, size)
Served(g, h, size) == g.vm.faulted \/ Stopped(g, h) \/ Extended(g, h, size)

LEMMA RoomAppend ==
  ASSUME NEW bs \in Seq(Block), NEW b \in Block, NEW size
  PROVE  /\ Room(bs, size) => Room(Append(bs, b), size)
         /\ ~b.used /\ b.size >= size => Room(Append(bs, b), size)
<1> DEFINE c == Append(bs, b)
<1>1. /\ DOMAIN bs = 1 .. Len(bs) /\ DOMAIN c = 1 .. Len(bs) + 1 /\ Len(bs) \in Nat
      /\ \A i \in DOMAIN bs : c[i] = bs[i]
      /\ c[Len(bs) + 1] = b
  BY AppendIs
<1> HIDE DEF c
<1>2. Len(bs) + 1 \in DOMAIN c /\ \A i \in DOMAIN bs : i \in DOMAIN c
  BY <1>1
<1>3. Room(bs, size) => Room(c, size)
  BY <1>1, <1>2 DEF Room
<1>4. ~b.used /\ b.size >= size => Room(c, size)
  BY <1>1, <1>2 DEF Room
<1> QED BY <1>3, <1>4 DEF c

\* A turn that gets a page leaves a block for the request or a lost page.
LEMMA NewPageServed ==
  ASSUME NEW g, NEW h, NEW O, NEW ptrs, Heap(g, O, ptrs, dirty), NEW r, NewPage(g, O, r),
         Alloced(g, O, r), NEW size \in Nat, size <= PAGE_SIZE - HeaderSize,
         h.pages \subseteq g.pages,
         \A p \in g.pages \ h.pages : g.vm.entry[p] \in dirty \/ Room(g.blocks, size)
  PROVE  Extended(Expand(g), h, size)
<1>1. g \in HeapRec /\ g.blocks \in Seq(Block)
  BY DEF Heap, HeapRec
<1>2. PICK page, w, b : page = r.page /\ w = r.vm /\ b = NewBlock(w, page, dirty)
  OBVIOUS
<1>3. /\ page \in Pages /\ page \notin g.pages /\ Expand(g) = WithPage(g, w, page, b)
      /\ SameEntries(g.vm, w, g.pages)
  BY <1>2 DEF NewPage, Alloced
<1>4. PICK k : k = Expand(g)
  OBVIOUS
<1>5. k.vm = w /\ k.blocks = Append(g.blocks, b) /\ k.pages = g.pages \cup {page}
  BY <1>1, <1>3, <1>4 DEF WithPage, HeapRec
<1>6. b \in Block /\ b.size = PAGE_SIZE - HeaderSize /\ (b.used <=> w.entry[page] \in dirty)
  <2> DEFINE u == w.entry[page] \in dirty
  <2>1. u \in BOOLEAN /\ b = PageBlock(page, u)
    BY <1>2 DEF NewBlock
  <2> HIDE DEF u
  <2>2. b \in Block /\ b.size = PAGE_SIZE - HeaderSize /\ b.used = u
    BY <1>3, <2>1, PageBlockIs
  <2> QED BY <2>2 DEF u
<1>7. Room(g.blocks, size) => Room(k.blocks, size)
  BY <1>1, <1>5, <1>6, RoomAppend
<1>8. w.entry[page] \in dirty \/ Room(k.blocks, size)
  BY <1>1, <1>5, <1>6, RoomAppend
<1>9. ASSUME NEW p \in k.pages \ h.pages
      PROVE  k.vm.entry[p] \in dirty \/ Room(k.blocks, size)
  <2>1. CASE p = page
    BY <1>5, <1>8, <2>1
  <2>2. CASE p # page
    <3>1. p \in g.pages \ h.pages
      BY <1>5, <1>9, <2>2
    <3>2. k.vm.entry[p] = g.vm.entry[p]
      BY <1>3, <1>5, <3>1 DEF SameEntries
    <3> QED BY <1>7, <3>1, <3>2
  <2> QED BY <2>1, <2>2
<1> QED BY <1>3, <1>4, <1>5, <1>9 DEF Extended

LEMMA FirstServed ==
  ASSUME NEW h, NEW O, NEW ptrs, Heap(h, O, ptrs, dirty), h.more,
         NEW size \in Nat, size <= PAGE_SIZE - HeaderSize
  PROVE  Served(Expand(h), h, size)
<1>1. h \in HeapRec /\ ~h.vm.faulted /\ Sound(h.vm, h.pages \cup O)
  BY DEF Heap, Whole
<1>2. PICK r : r = AllocPage(h.vm)
  OBVIOUS
<1>3. /\ Alloced(h, O, r)
      /\ r.vm.faulted \/ r.page = 0 => NoPage(h, O, r)
      /\ ~r.vm.faulted /\ r.page # 0 => NewPage(h, O, r)
  BY <1>2, ExpandIs
<1>4. CASE r.vm.faulted \/ r.page = 0
  <2>1. PICK k : k = Expand(h)
    OBVIOUS
  <2>2. k.vm = r.vm /\ k.more = FALSE /\ k.pages = h.pages
    BY <1>1, <1>3, <1>4, <2>1 DEF NoPage, HeapRec
  <2>3. ~r.vm.faulted => Cardinality(h.vm.free) < 2 \/ h.vm.next = 0
    <3>1. PICK v, G : v = h.vm /\ G = h.pages \cup O
      OBVIOUS
    <3>2. Sound(v, G) /\ ~v.faulted /\ r = AllocPage(v)
      BY <1>1, <1>2, <3>1
    <3>3. ~r.vm.faulted => Cardinality(v.free) < 2 \/ v.next = 0
      BY <1>4, <3>2, NoPageWhy
    <3> QED BY <3>1, <3>3
  <2> QED BY <2>1, <2>2, <2>3 DEF Served, Stopped
<1>5. CASE ~(r.vm.faulted \/ r.page = 0)
  <2>1. Extended(Expand(h), h, size)
    <3>1. h.pages \subseteq h.pages
          /\ \A p \in h.pages \ h.pages : h.vm.entry[p] \in dirty \/ Room(h.blocks, size)
      OBVIOUS
    <3>2. NewPage(h, O, r) /\ Alloced(h, O, r)
      BY <1>3, <1>5
    <3> QED BY <3>1, <3>2, NewPageServed
  <2> QED BY <2>1 DEF Served
<1> QED BY <1>4, <1>5

LEMMA TurnServed ==
  ASSUME NEW g, NEW h, NEW O, NEW ptrs, Heap(g, O, ptrs, dirty),
         NEW size \in Nat, size <= PAGE_SIZE - HeaderSize, Served(g, h, size)
  PROVE  Served(Expand(g), h, size)
<1>1. g \in HeapRec /\ (g.more => ~g.vm.faulted)
  BY DEF Heap
<1>2. CASE ~g.more
  BY <1>2 DEF Expand
<1>3. CASE g.more
  <2>1. Extended(g, h, size)
    BY <1>1, <1>3 DEF Served, Stopped
  <2>2. PICK r : r = AllocPage(g.vm)
    OBVIOUS
  <2>3. /\ Alloced(g, O, r)
        /\ r.vm.faulted \/ r.page = 0 => NoPage(g, O, r)
        /\ ~r.vm.faulted /\ r.page # 0 => NewPage(g, O, r)
    BY <1>3, <2>2, ExpandIs
  <2>4. CASE r.vm.faulted \/ r.page = 0
    <3>1. PICK k : k = Expand(g)
      OBVIOUS
    <3>2. k.vm = r.vm /\ k.blocks = g.blocks /\ k.pages = g.pages
      BY <1>1, <2>3, <2>4, <3>1 DEF NoPage, HeapRec
    <3>3. \A p \in k.pages : k.vm.entry[p] = g.vm.entry[p]
      BY <2>3, <3>2 DEF Alloced, SameEntries
    <3>4. Extended(k, h, size)
      BY <2>1, <3>2, <3>3 DEF Extended
    <3> QED BY <3>1, <3>4 DEF Served
  <2>5. CASE ~(r.vm.faulted \/ r.page = 0)
    <3>1. /\ NewPage(g, O, r) /\ Alloced(g, O, r)
          /\ h.pages \subseteq g.pages
          /\ \A p \in g.pages \ h.pages : g.vm.entry[p] \in dirty \/ Room(g.blocks, size)
      BY <2>1, <2>3, <2>5 DEF Extended
    <3>2. Extended(Expand(g), h, size)
      BY <3>1, NewPageServed
    <3> QED BY <3>2 DEF Served
  <2> QED BY <2>4, <2>5
<1> QED BY <1>2, <1>3

\* heap_expand asks for at least one page.
LEMMA OnePageAsked ==
  ASSUME NEW size \in Nat, size <= PAGE_SIZE - HeaderSize
  PROVE  /\ size32(size + HeaderSize) = size + HeaderSize
         /\ ExpandPages(size + HeaderSize) >= 1
<1> DEFINE e == HEAP_EXPAND_SIZE
           s == AddressSpace
           a == size + HeaderSize
           b == a + HeaderSize
           c == b + e - 1
<1>1. /\ e \in Nat \ {0} /\ s \in Nat \ {0} /\ a \in Nat /\ b \in Nat /\ c \in Nat
      /\ a < s /\ b < s /\ c < s /\ e <= c
  BY SizeFacts, SpaceIs, HeapAssumption
<1>2. \A x \in Nat : x < s => x % s = x
  BY <1>1
<1>3. size32(a) = a /\ size32(b) = b /\ size32(c) = c
  BY <1>1, <1>2 DEF size32
<1>4. ExpandPages(a) = c \div e
  BY <1>3 DEF ExpandPages
<1>5. \A x, y \in Nat : y # 0 /\ y <= x => x \div y >= 1
  BY SMT
<1> QED BY <1>1, <1>3, <1>4, <1>5

LEMMA heap_expandServed ==
  ASSUME NEW h, NEW O, NEW ptrs, Heap(h, O, ptrs, dirty), h.more,
         NEW size \in Nat, size <= PAGE_SIZE - HeaderSize
  PROVE  Served(heap_expand(h, size + HeaderSize), h, size)
<1> DEFINE z == size + HeaderSize
           n == ExpandPages(z)
<1>1. z \in Nat
  BY SizeFacts
<1>2. n >= 1
  BY OnePageAsked
<1> HIDE DEF z
<1>3. PICK turn : Turns(turn, h, z, O, ptrs)
  BY <1>1, TurnsAre
<1>4. /\ n \in Nat /\ turn[0] = h /\ heap_expand(h, z) = turn[n]
      /\ \A i \in 0 .. n : Heap(turn[i], O, ptrs, dirty)
      /\ \A i \in 1 .. n : turn[i] = Expand(turn[i - 1])
  BY <1>3 DEF Turns
<1> HIDE DEF n
<1> DEFINE D == {i \in Nat : i < n => Served(turn[i + 1], h, size)}
<1>5. 0 \in D
  <2>1. 1 \in 1 .. n /\ 1 - 1 = 0 /\ 0 + 1 = 1
    BY <1>2, <1>4
  <2>2. turn[1] = Expand(h)
    BY <1>4, <2>1
  <2>3. Served(turn[1], h, size)
    BY <2>2, FirstServed
  <2> QED BY <2>1, <2>3
<1>6. ASSUME NEW i \in Nat, i \in D PROVE i + 1 \in D
  <2> SUFFICES ASSUME i + 1 < n PROVE Served(turn[(i + 1) + 1], h, size)
    OBVIOUS
  <2>1. i + 1 \in 0 .. n /\ (i + 1) + 1 \in 1 .. n /\ ((i + 1) + 1) - 1 = i + 1 /\ i < n
    BY <1>4
  <2>2. turn[(i + 1) + 1] = Expand(turn[i + 1])
    BY <1>4, <2>1
  <2>3. Heap(turn[i + 1], O, ptrs, dirty) /\ Served(turn[i + 1], h, size)
    BY <1>4, <1>6, <2>1
  <2> QED BY <2>2, <2>3, TurnServed
<1>7. \A i \in Nat : i \in D
  <2> HIDE DEF D
  <2> QED BY <1>5, <1>6, NatInd
<1>8. n - 1 \in Nat /\ n - 1 < n /\ (n - 1) + 1 = n
  BY <1>2, <1>4
<1>9. Served(turn[n], h, size)
  BY <1>7, <1>8
<1> QED BY <1>4, <1>9 DEF z

-----------------------------------------------------------------------------
(* A block that is cut, and one that is taken or freed.                      *)

\* cs is bs with block i, and nothing else that is used, changed.
Others(bs, cs, i) ==
  /\ i \in DOMAIN bs /\ i \in DOMAIN cs /\ cs[i].addr = bs[i].addr
  /\ \A k \in DOMAIN bs \ {i} : \E m \in DOMAIN cs \ {i} : cs[m] = bs[k]
  /\ \A m \in DOMAIN cs \ {i} : cs[m].used => \E k \in DOMAIN bs \ {i} : bs[k] = cs[m]

LEMMA CutOthers ==
  ASSUME NEW bs, NEW cs, NEW i, NEW c, NEW d, Replaced(bs, cs, i, c, d), ~d.used,
         c.addr = bs[i].addr
  PROVE  Others(bs, cs, i) /\ cs[i] = c
<1>1. /\ i \in 1 .. Len(bs) /\ Len(bs) \in Nat /\ DOMAIN bs = 1 .. Len(bs)
      /\ DOMAIN cs = 1 .. Len(bs) + 1
      /\ (\A k \in 1 .. i - 1 : cs[k] = bs[k]) /\ cs[i] = c /\ cs[i + 1] = d
      /\ \A k \in i + 1 .. Len(bs) : cs[k + 1] = bs[k]
  BY DEF Replaced
<1>2. ASSUME NEW k \in DOMAIN bs \ {i} PROVE \E m \in DOMAIN cs \ {i} : cs[m] = bs[k]
  <2>1. CASE k < i
    BY <1>1, <2>1
  <2>2. CASE k > i
    <3>1. k + 1 \in DOMAIN cs \ {i} /\ cs[k + 1] = bs[k]
      BY <1>1, <2>2
    <3> QED BY <3>1
  <2> QED BY <1>1, <2>1, <2>2
<1>3. ASSUME NEW m \in DOMAIN cs \ {i}, cs[m].used PROVE \E k \in DOMAIN bs \ {i} : bs[k] = cs[m]
  <2>1. \/ m \in 1 .. i - 1 /\ m \in DOMAIN bs /\ cs[m] = bs[m]
        \/ m = i /\ cs[m] = c
        \/ m = i + 1 /\ cs[m] = d
        \/ m \in i + 2 .. Len(bs) + 1 /\ m - 1 \in DOMAIN bs /\ m - 1 > i /\ cs[m] = bs[m - 1]
    BY ReplacedCases
  <2>2. CASE m \in 1 .. i - 1 /\ m \in DOMAIN bs /\ cs[m] = bs[m]
    BY <1>1, <2>2
  <2>3. CASE m \in i + 2 .. Len(bs) + 1 /\ m - 1 \in DOMAIN bs /\ m - 1 > i /\ cs[m] = bs[m - 1]
    <3>1. m - 1 \in DOMAIN bs \ {i} /\ bs[m - 1] = cs[m]
      BY <1>1, <2>3
    <3> QED BY <3>1
  <2> QED BY <1>3, <2>1, <2>2, <2>3
<1>4. i \in DOMAIN bs /\ i \in DOMAIN cs
  BY <1>1
<1> QED BY <1>1, <1>2, <1>3, <1>4 DEF Others

\* What Trimmed makes of the list and its end.
LEMMA TrimmedIs ==
  ASSUME NEW h \in HeapRec, Listed(h.blocks, Top(h.vm)), h.end = Last(h.blocks).addr,
         NEW i \in DOMAIN h.blocks,
         NEW size \in Nat, size % HEAP_ALIGNMENT = 0, h.blocks[i].size >= size,
         NEW g, g = Trimmed(h, i, size)
  PROVE  /\ g \in HeapRec /\ g.size = h.size /\ g.vm = h.vm /\ g.pages = h.pages
         /\ Listed(g.blocks, Top(h.vm)) /\ Bytes(g.blocks) = Bytes(h.blocks)
         /\ g.blocks # <<>> /\ g.end = Last(g.blocks).addr
         /\ Others(h.blocks, g.blocks, i)
         /\ g.blocks[i].size >= size /\ g.blocks[i].used = h.blocks[i].used
         /\ Spans(g.blocks, h.blocks)
<1> DEFINE bs == h.blocks
           b == bs[i]
           c == Split(b, size)[1]
           d == Split(b, size)[2]
           cs == Cut(bs, i, size)
           top == Top(h.vm)
<1>1. /\ bs \in Seq(Block) /\ b \in Block /\ top \in Nat /\ top < Base + AddressSpace
      /\ Listed(bs, top) /\ DOMAIN bs = 1 .. Len(bs) /\ Len(bs) \in Nat /\ bs # <<>>
      /\ h.end = Last(bs).addr /\ b.size >= size /\ i \in DOMAIN bs
  <2>1. bs \in Seq(Block) /\ h.vm \in VM
    BY DEF HeapRec
  <2>2. bs # <<>>
    BY <2>1
  <2> QED BY <2>1, <2>2, TopFacts
<1>2. CASE ~WorthSplitting(b, size)
  <2>1. g = h
    BY <1>2 DEF Trimmed
  <2>2. Others(bs, bs, i)
    BY <1>1 DEF Others
  <2>3. Spans(bs, bs)
    <3> HIDE DEF bs
    <3> QED BY <1>1, SpansSame
  <2> QED BY <1>1, <2>1, <2>2, <2>3
<1>3. CASE WorthSplitting(b, size)
  <2>1. b.size >= size + HeaderSize
    <3>1. b.size \in Nat /\ HeaderSize \in Nat /\ HEAP_ALIGNMENT \in Nat
      BY <1>1, SizeFacts, KeyType
    <3> QED BY <1>3, <3>1 DEF WorthSplitting
  <2>2. g = [h EXCEPT !.blocks = cs, !.end = IF @ = c.addr THEN d.addr ELSE @]
    BY <1>3 DEF Trimmed, Cut
  <2>3. Replaced(bs, cs, i, c, d) /\ c \in Block /\ d \in Block
    <3>1. bs \in Seq(Block) /\ i \in DOMAIN bs /\ bs[i].size >= size + HeaderSize
      BY <1>1, <2>1
    <3> HIDE DEF bs
    <3> QED BY <3>1, CutIs
  <2>4. /\ c.addr = b.addr /\ c.size = size /\ c.used = b.used /\ d.used = FALSE
        /\ KEnd(d) = KEnd(b) /\ Key(c.addr) = Key(b.addr) /\ KEnd(c) <= KEnd(b)
        /\ Key(b.addr) <= Key(d.addr) /\ (b.addr < Base => d.addr < Base)
    <3>1. KEnd(b) < Base + AddressSpace
      <4>1. KEnd(b) <= top /\ KEnd(b) \in Nat
        BY <1>1, KeyType DEF Listed
      <4> HIDE DEF b, top
      <4> QED BY <1>1, <4>1, BaseFacts
    <3> HIDE DEF b, bs, cs, top
    <3> QED BY <1>1, <2>1, <3>1, SplitFills
  <2>5. Listed(cs, top) /\ Bytes(cs) = Bytes(bs)
    <3>1. bs \in Seq(Block) /\ i \in DOMAIN bs /\ bs[i].size >= size + HeaderSize
      BY <1>1, <2>1
    <3> HIDE DEF bs, top
    <3>2. Listed(cs, top)
      BY <1>1, <3>1, ListedCut
    <3>3. Bytes(cs) = Bytes(bs)
      BY <3>1, BytesCut
    <3> QED BY <3>2, <3>3
  <2> DEFINE e == IF h.end = c.addr THEN d.addr ELSE h.end
  <2>6. cs \in Seq(Block) /\ cs # <<>> /\ Len(cs) = Len(bs) + 1 /\ DOMAIN cs = 1 .. Len(bs) + 1
    <3>1. cs \in Seq(Block) /\ Len(cs) = Len(bs) + 1 /\ DOMAIN cs = 1 .. Len(bs) + 1
      BY <2>3 DEF Replaced
    <3> HIDE DEF cs
    <3> QED BY <1>1, <3>1, EmptySeq
  <2>7. e = Last(cs).addr /\ e \in Nat
    <3>1. CASE i = Len(bs)
      <4>1. h.end = c.addr
        BY <1>1, <2>4, <3>1 DEF Last
      <4>2. Last(cs) = d
        BY <2>3, <2>6, <3>1 DEF Last, Replaced
      <4>3. d.addr \in Nat
        BY <2>3, KeyType
      <4> HIDE DEF c, d, cs
      <4> QED BY <4>1, <4>2, <4>3
    <3>2. CASE i # Len(bs)
      <4>1. Len(bs) \in DOMAIN bs /\ Len(bs) \in i + 1 .. Len(bs)
        BY <1>1, <3>2
      <4>2. h.end # c.addr
        <5>1. \A j, k \in DOMAIN bs : bs[j].addr = bs[k].addr => j = k
          <6> HIDE DEF bs, top
          <6> QED BY <1>1, ListedUnique
        <5> QED BY <1>1, <2>4, <3>2, <4>1, <5>1 DEF Last
      <4>3. Last(cs) = Last(bs)
        BY <2>3, <2>6, <4>1 DEF Last, Replaced
      <4>4. h.end \in Nat
        BY DEF HeapRec
      <4> HIDE DEF c, d, cs, bs
      <4> QED BY <1>1, <4>2, <4>3, <4>4
    <3> QED BY <3>1, <3>2
  <2>8. Others(bs, cs, i) /\ cs[i] = c
    <3> HIDE DEF bs, cs, c, d
    <3> QED BY <2>3, <2>4, CutOthers DEF b
  <2>9. g = [h EXCEPT !.blocks = cs, !.end = e]
    BY <2>2
  <2> HIDE DEF cs, e, c, d
  <2>10. /\ g \in HeapRec /\ g.blocks = cs /\ g.end = e /\ g.size = h.size /\ g.vm = h.vm
         /\ g.pages = h.pages
    BY <2>6, <2>7, <2>9 DEF HeapRec
  <2>11. g.blocks[i].size >= size /\ g.blocks[i].used = b.used
    BY <2>4, <2>8, <2>10
  <2>12. Spans(cs, bs)
    <3>1. Key(b.addr) \in Nat /\ KEnd(b) \in Nat
      BY <1>1, KeyType
    <3>2. Between(c, b, b) /\ Between(d, b, b)
      BY <2>4, <3>1 DEF Between
    <3> HIDE DEF bs
    <3> QED BY <2>3, <3>2, SpansCut
  <2> QED BY <2>5, <2>6, <2>7, <2>8, <2>10, <2>11, <2>12
<1> QED BY <1>2, <1>3

-----------------------------------------------------------------------------
(* What a call leaves.                                                       *)

\* The pointers ptrs2 are ptrs and q, with a size of its own.
Gives(ptrs, ptrs2, q) ==
  DOMAIN ptrs2 = DOMAIN ptrs \cup {q} /\ \A p \in DOMAIN ptrs \ {q} : ptrs2[p] = ptrs[p]

LEMMA HeldOthers ==
  ASSUME NEW bs, NEW cs, NEW i, Others(bs, cs, i), NEW ptrs, HeldIn(bs, ptrs),
         NEW q, q = bs[i].addr + HeaderSize, q % HEAP_ALIGNMENT = 0,
         NEW ptrs2, Gives(ptrs, ptrs2, q), Holds(cs[i], q, ptrs2[q])
  PROVE  HeldIn(cs, ptrs2)
<1> SUFFICES ASSUME NEW p \in DOMAIN ptrs2
             PROVE  /\ p % HEAP_ALIGNMENT = 0
                    /\ \E m \in DOMAIN cs : Holds(cs[m], p, ptrs2[p])
  BY DEF HeldIn
<1>1. CASE p = q
  BY <1>1 DEF Others
<1>2. CASE p # q
  <2>1. p \in DOMAIN ptrs /\ ptrs2[p] = ptrs[p]
    BY <1>2 DEF Gives
  <2>2. p % HEAP_ALIGNMENT = 0 /\ \E k \in DOMAIN bs : Holds(bs[k], p, ptrs[p])
    BY <2>1 DEF HeldIn
  <2>3. PICK k \in DOMAIN bs : Holds(bs[k], p, ptrs[p])
    BY <2>2
  <2>4. k # i
    BY <1>2, <2>3 DEF Holds
  <2>5. PICK m \in DOMAIN cs : cs[m] = bs[k]
    BY <2>3, <2>4 DEF Others
  <2> QED BY <2>1, <2>2, <2>3, <2>5
<1> QED BY <1>1, <1>2

LEMMA UsedOthers ==
  ASSUME NEW bs, NEW cs, NEW i, Others(bs, cs, i), NEW ptrs, NEW v, NEW P, NEW F,
         UsedIn(bs, ptrs, v, P, F),
         NEW q, q = bs[i].addr + HeaderSize, NEW ptrs2, Gives(ptrs, ptrs2, q)
  PROVE  UsedIn(cs, ptrs2, v, P, F)
<1> SUFFICES ASSUME NEW m \in DOMAIN cs, cs[m].used
             PROVE  cs[m].addr + HeaderSize \in DOMAIN ptrs2 \/ Lost(cs[m], v, P, F)
  BY DEF UsedIn
<1>1. CASE m = i
  BY <1>1 DEF Others, Gives
<1>2. CASE m # i
  <2>1. PICK k \in DOMAIN bs : bs[k] = cs[m]
    BY <1>2 DEF Others
  <2>2. bs[k].addr + HeaderSize \in DOMAIN ptrs \/ Lost(bs[k], v, P, F)
    BY <2>1 DEF UsedIn
  <2> QED BY <2>1, <2>2 DEF Gives
<1> QED BY <1>1, <1>2

\* Setting the used byte of block i.
PutIn(g, i, c) == [g EXCEPT !.blocks = Put(@, i, c)]

LEMMA PutIs ==
  ASSUME NEW g \in HeapRec, NEW top \in Nat, Listed(g.blocks, top), g.end = Last(g.blocks).addr,
         NEW i \in DOMAIN g.blocks, NEW c \in Block, c.addr = g.blocks[i].addr, c.size = g.blocks[i].size,
         NEW t, t = PutIn(g, i, c)
  PROVE  /\ t \in HeapRec /\ t.size = g.size /\ t.vm = g.vm /\ t.pages = g.pages /\ t.end = g.end
         /\ Listed(t.blocks, top) /\ Bytes(t.blocks) = Bytes(g.blocks)
         /\ t.blocks # <<>> /\ t.end = Last(t.blocks).addr
         /\ Len(t.blocks) = Len(g.blocks) /\ DOMAIN t.blocks = DOMAIN g.blocks
         /\ \A k \in DOMAIN g.blocks \ {i} : t.blocks[k] = g.blocks[k]
         /\ t.blocks[i] = c
         /\ Spans(t.blocks, g.blocks)
<1> DEFINE bs == g.blocks
           cs == Put(bs, i, c)
<1>1. bs \in Seq(Block) /\ i \in DOMAIN bs /\ Listed(bs, top) /\ DOMAIN bs = 1 .. Len(bs) /\ Len(bs) \in Nat
      /\ c.addr = bs[i].addr /\ c.size = bs[i].size
  BY DEF HeapRec
<1>2. t = [g EXCEPT !.blocks = cs]
  BY DEF PutIn
<1> HIDE DEF bs
<1>3. /\ Listed(cs, top) /\ Len(cs) = Len(bs) /\ DOMAIN cs = DOMAIN bs
      /\ \A k \in DOMAIN bs : /\ cs[k].addr = bs[k].addr /\ cs[k].size = bs[k].size
                              /\ k # i => cs[k] = bs[k]
      /\ cs[i] = c
  <2>1. PICK x, y : x = bs /\ y = cs
    OBVIOUS
  <2>2. /\ Listed(x, top) /\ i \in DOMAIN x
        /\ c.addr = x[i].addr /\ c.size = x[i].size /\ y = Put(x, i, c)
    BY <1>1, <2>1
  <2> HIDE DEF cs
  <2>3. /\ Listed(y, top) /\ Len(y) = Len(x) /\ DOMAIN y = DOMAIN x
        /\ \A k \in DOMAIN x : /\ y[k].addr = x[k].addr /\ y[k].size = x[k].size
                               /\ k # i => y[k] = x[k]
        /\ y[i] = c
    BY <2>2, ListedPut
  <2> QED BY ONLY <2>1, <2>3
<1> HIDE DEF cs
<1>4. Bytes(cs) = Bytes(bs)
  BY <1>3, BytesUsed
<1>5. cs \in Seq(Block)
  BY <1>3 DEF Listed
<1>6. /\ t \in HeapRec /\ t.size = g.size /\ t.vm = g.vm /\ t.pages = g.pages /\ t.end = g.end
      /\ t.blocks = cs
  BY <1>2, <1>5 DEF HeapRec
<1>7. Len(bs) \in DOMAIN bs /\ cs # <<>> /\ Last(cs).addr = Last(bs).addr
  <2>1. Len(bs) \in DOMAIN bs
    BY <1>1
  <2>2. cs # <<>>
    BY <1>1, <1>3, <1>5
  <2> QED BY <1>3, <2>1, <2>2 DEF Last
<1>8. Spans(cs, bs)
  BY <1>1, <1>3, <1>5, SpansPut
<1> QED BY <1>1, <1>3, <1>4, <1>6, <1>7, <1>8 DEF bs

\* kmalloc and krealloc give out a block that Trimmed has cut, as pointer q.
LEMMA GivenWhole ==
  ASSUME NEW h \in HeapRec, NEW O, NEW ptrs, NEW F, Whole(h, O, ptrs, F), NEW i \in DOMAIN h.blocks,
         NEW n \in Requests, h.blocks[i].size >= Rounded(n),
         NEW g, g = Trimmed(h, i, Rounded(n)),
         NEW c, c = [g.blocks[i] EXCEPT !.used = TRUE], NEW t, t = PutIn(g, i, c),
         NEW q, q = h.blocks[i].addr + HeaderSize,
         NEW ptrs2, Gives(ptrs, ptrs2, q), ptrs2[q] = n
  PROVE  t \in HeapRec /\ Whole(t, O, ptrs2, F)
<1> DEFINE bs == h.blocks
           b == bs[i]
           size == Rounded(n)
           cs == g.blocks
           ds == t.blocks
           top == Top(h.vm)
<1>1. /\ bs \in Seq(Block) /\ b \in Block /\ h.vm \in VM /\ top \in Nat /\ i \in DOMAIN bs
      /\ Listed(bs, top) /\ b.addr % HEAP_ALIGNMENT = 0 /\ b.addr \in Nat
      /\ bs # <<>> /\ h.end = Last(bs).addr
  <2>1. bs \in Seq(Block) /\ h.vm \in VM /\ Listed(bs, top)
    BY DEF HeapRec, Whole
  <2>2. bs # <<>>
    BY <2>1
  <2>3. b \in Block /\ b.addr % HEAP_ALIGNMENT = 0 /\ b.addr \in Nat
    BY <2>1, KeyType DEF Listed
  <2>4. h.end = Last(bs).addr
    BY <2>2 DEF Whole, Started
  <2> QED BY <2>1, <2>2, <2>3, <2>4, TopFacts
<1>2. size \in Nat /\ size % HEAP_ALIGNMENT = 0 /\ (size >= n \/ n > AddressSpace - HEAP_ALIGNMENT)
      /\ n \in Nat
  <2>1. n \in 1 .. AddressSpace - 1
    BY HeapAssumption
  <2> QED BY <2>1, RoundedIs, SpaceIs
<1>3. /\ g \in HeapRec /\ g.size = h.size /\ g.vm = h.vm /\ g.pages = h.pages
      /\ Listed(cs, top) /\ Bytes(cs) = Bytes(bs)
      /\ cs # <<>> /\ g.end = Last(cs).addr
      /\ Others(bs, cs, i)
      /\ cs[i].size >= size /\ cs[i].used = b.used
      /\ Spans(cs, bs)
  <2>1. Listed(h.blocks, Top(h.vm)) /\ h.end = Last(h.blocks).addr /\ i \in DOMAIN h.blocks
        /\ h.blocks[i].size >= size /\ g = Trimmed(h, i, size)
    BY <1>1
  <2> HIDE DEF size
  <2> QED BY <1>2, <2>1, TrimmedIs
<1>4. i \in DOMAIN cs /\ cs[i].addr = b.addr /\ cs \in Seq(Block) /\ cs[i] \in Block
  BY <1>3 DEF Others, Listed
<1>5. c \in Block /\ c.addr = cs[i].addr /\ c.size = cs[i].size /\ c.used
  BY <1>4 DEF Block
<1>6. /\ t \in HeapRec /\ t.size = g.size /\ t.vm = g.vm /\ t.pages = g.pages /\ t.end = g.end
      /\ Listed(ds, top) /\ Bytes(ds) = Bytes(cs)
      /\ ds # <<>> /\ t.end = Last(ds).addr
      /\ DOMAIN ds = DOMAIN cs
      /\ \A k \in DOMAIN cs \ {i} : ds[k] = cs[k]
      /\ ds[i] = c
      /\ Spans(ds, cs)
  <2>1. Listed(g.blocks, top) /\ g.end = Last(g.blocks).addr /\ i \in DOMAIN g.blocks
        /\ c.addr = g.blocks[i].addr /\ c.size = g.blocks[i].size
    BY <1>3, <1>4, <1>5
  <2>2. g \in HeapRec /\ top \in Nat /\ c \in Block /\ t = PutIn(g, i, c)
    BY <1>1, <1>3, <1>5
  <2> HIDE DEF top, bs, b, size
  <2>3. /\ t \in HeapRec /\ t.size = g.size /\ t.vm = g.vm /\ t.pages = g.pages /\ t.end = g.end
        /\ Listed(t.blocks, top) /\ Bytes(t.blocks) = Bytes(g.blocks)
        /\ t.blocks # <<>> /\ t.end = Last(t.blocks).addr
        /\ DOMAIN t.blocks = DOMAIN g.blocks
        /\ \A k \in DOMAIN g.blocks \ {i} : t.blocks[k] = g.blocks[k]
        /\ t.blocks[i] = c
        /\ Spans(t.blocks, g.blocks)
    BY ONLY <2>1, <2>2, PutIs
  <2> QED BY <2>3
<1>7. Others(bs, ds, i)
  <2> HIDE DEF bs, cs, ds
  <2>1. ASSUME NEW k \in DOMAIN bs \ {i} PROVE \E m \in DOMAIN ds \ {i} : ds[m] = bs[k]
    <3>1. PICK m \in DOMAIN cs \ {i} : cs[m] = bs[k]
      BY <1>3 DEF Others
    <3> QED BY <1>6, <3>1
  <2>2. ASSUME NEW m \in DOMAIN ds \ {i}, ds[m].used PROVE \E k \in DOMAIN bs \ {i} : bs[k] = ds[m]
    <3>1. m \in DOMAIN cs \ {i} /\ cs[m] = ds[m]
      BY <1>6
    <3>2. PICK k \in DOMAIN bs \ {i} : bs[k] = cs[m]
      BY <1>3, <2>2, <3>1 DEF Others
    <3> QED BY <3>1, <3>2
  <2>3. i \in DOMAIN bs /\ i \in DOMAIN ds /\ ds[i].addr = bs[i].addr
    BY <1>1, <1>4, <1>6, <1>5 DEF b
  <2> QED BY <2>1, <2>2, <2>3 DEF Others
<1>8. Holds(ds[i], q, ptrs2[q]) /\ q % HEAP_ALIGNMENT = 0 /\ q = bs[i].addr + HeaderSize
  <2>1. q % HEAP_ALIGNMENT = 0
    <3>1. HeaderSize % HEAP_ALIGNMENT = 0 /\ HeaderSize \in Nat
      BY HeapAssumption
    <3> DEFINE a == b.addr
    <3>2. a \in Nat /\ a % HEAP_ALIGNMENT = 0
      BY <1>1
    <3> HIDE DEF a
    <3>3. (a + HeaderSize) % HEAP_ALIGNMENT = 0
      BY <3>1, <3>2, AlignedSum
    <3> QED BY <3>3 DEF a
  <2>2. cs[i].size \in Nat
    BY <1>4, KeyType
  <2>3. ds[i].size >= n \/ n > AddressSpace - HEAP_ALIGNMENT
    <3>1. ds[i].size >= size /\ ds[i].size \in Nat
      <4>1. ds[i] = c /\ c.size = cs[i].size /\ cs[i].size >= size
        BY <1>3, <1>6, <1>5
      <4> HIDE DEF ds, cs, size
      <4> QED BY <2>2, <4>1
    <3> HIDE DEF size, ds
    <3> QED BY <1>2, <3>1
  <2> HIDE DEF size, ds, cs
  <2> QED BY <1>4, <1>6, <1>5, <2>1, <2>3 DEF Holds
<1>9. HeldIn(ds, ptrs2) /\ UsedIn(ds, ptrs2, h.vm, h.pages, F)
  <2> DEFINE v == h.vm
             P == h.pages
  <2>1. HeldIn(bs, ptrs) /\ UsedIn(bs, ptrs, v, P, F)
    BY DEF Whole
  <2> HIDE DEF v, P, bs, ds
  <2>2. HeldIn(ds, ptrs2)
    BY <1>7, <1>8, <2>1, HeldOthers
  <2>3. UsedIn(ds, ptrs2, v, P, F)
    BY <1>7, <1>8, <2>1, UsedOthers
  <2> QED BY <2>2, <2>3 DEF v, P
<1>10. Started(t, O)
  BY <1>6 DEF Started
<1>11. t.size = Bytes(ds) /\ t.end \in Nat
  <2>1. t.end \in Nat
    BY <1>6 DEF HeapRec
  <2> QED BY <1>3, <1>6, <2>1 DEF Whole
<1>12. Listed(t.blocks, Top(t.vm)) /\ Sound(t.vm, t.pages \cup O) /\ t.pages \cap O = {}
  <2>1. t.vm = h.vm /\ t.pages = h.pages
    BY <1>3, <1>6
  <2>2. Listed(ds, top) /\ Sound(h.vm, h.pages \cup O) /\ h.pages \cap O = {}
    BY <1>6 DEF Whole
  <2> QED BY <2>1, <2>2
<1>13. HeldIn(t.blocks, ptrs2) /\ UsedIn(t.blocks, ptrs2, t.vm, t.pages, F)
  BY <1>3, <1>6, <1>9
<1>14. InPages(t.blocks, t.pages)
  <2> DEFINE P == h.pages
  <2>1. P \in SUBSET Pages /\ InPages(bs, P) /\ ds \in Seq(Block) /\ t.pages = P
    BY <1>3, <1>6 DEF HeapRec, Whole
  <2> HIDE DEF P, bs, cs, ds
  <2>2. InPages(cs, P)
    BY <1>1, <1>3, <1>4, <2>1, InPagesSpans
  <2>3. InPages(ds, P)
    BY <1>4, <1>6, <2>1, <2>2, InPagesSpans
  <2> QED BY <2>1, <2>3 DEF ds
<1>15. Whole(t, O, ptrs2, F)
  BY <1>10, <1>11, <1>12, <1>13, <1>14 DEF Whole
<1> QED BY <1>6, <1>15

\* The block of a pointer that a caller holds.
LEMMA BlockOfHeld ==
  ASSUME NEW h \in HeapRec, NEW O, NEW ptrs, NEW F, Whole(h, O, ptrs, F), NEW p \in DOMAIN ptrs,
         NEW i, i = BlockOf(h.blocks, p)
  PROVE  i \in DOMAIN h.blocks /\ h.blocks[i].addr + HeaderSize = p
         /\ Holds(h.blocks[i], p, ptrs[p])
<1> DEFINE bs == h.blocks
           top == Top(h.vm)
<1>1. bs \in Seq(Block) /\ h.vm \in VM /\ Listed(bs, top) /\ HeldIn(bs, ptrs)
      /\ top \in Nat /\ top < Base + AddressSpace
  <2>1. bs \in Seq(Block) /\ h.vm \in VM
    BY DEF HeapRec
  <2> QED BY <2>1, TopFacts DEF Whole
<1> HIDE DEF bs, top
<1>2. PICK k \in DOMAIN bs : Holds(bs[k], p, ptrs[p])
  BY <1>1 DEF HeldIn
<1>3. bs[k].addr + HeaderSize = p
  BY <1>2 DEF Holds
<1>4. i \in DOMAIN bs /\ bs[i].addr + HeaderSize = p
  <2>1. i = BlockOf(bs, p)
    BY DEF bs
  <2> QED BY <1>1, <1>3, <2>1, BlockOfIs
<1>5. i = k
  <2>1. \A j, l \in DOMAIN bs : bs[j].addr = bs[l].addr => j = l
    BY <1>1, ListedUnique
  <2>2. bs[i] \in Block /\ bs[k] \in Block
    BY <1>1, <1>4
  <2>3. bs[i].addr = bs[k].addr
    BY <1>3, <1>4, <2>2, KeyType, SizeFacts
  <2> QED BY <1>4, <2>1, <2>3
<1> QED BY <1>2, <1>4, <1>5 DEF bs

Takes(ptrs, ptrs2, p) ==
  DOMAIN ptrs2 = DOMAIN ptrs \ {p} /\ \A q \in DOMAIN ptrs2 : ptrs2[q] = ptrs[q]

\* kfree: the block of p is marked free and the list is merged.
LEMMA FreedWhole ==
  ASSUME NEW h \in HeapRec, NEW O, NEW ptrs, NEW F, Whole(h, O, ptrs, F), NEW p \in DOMAIN ptrs,
         NEW ptrs2, Takes(ptrs, ptrs2, p), NEW t, t = merge_blocks(Freed(h, p))
  PROVE  t \in HeapRec /\ Whole(t, O, ptrs2, F)
<1> DEFINE bs == h.blocks
           i == BlockOf(bs, p)
           c == [bs[i] EXCEPT !.used = FALSE]
           f == PutIn(h, i, c)
           cs == f.blocks
           ds == Merged(cs)
           e == MergedEnd(cs, ds, f.end)
           top == Top(h.vm)
<1>1. /\ bs \in Seq(Block) /\ h.vm \in VM /\ Listed(bs, top) /\ HeldIn(bs, ptrs)
      /\ UsedIn(bs, ptrs, h.vm, h.pages, F)
      /\ top \in Nat /\ top < Base + AddressSpace
      /\ \A j, k \in DOMAIN bs : bs[j].addr = bs[k].addr => j = k
  <2>1. bs \in Seq(Block) /\ h.vm \in VM
    BY DEF HeapRec
  <2>2. Listed(bs, top) /\ HeldIn(bs, ptrs) /\ UsedIn(bs, ptrs, h.vm, h.pages, F)
    BY DEF Whole
  <2>3. top \in Nat /\ top < Base + AddressSpace
    BY <2>1, TopFacts
  <2> HIDE DEF top, bs
  <2> QED BY <2>1, <2>2, <2>3, ListedUnique
<1>2. i \in DOMAIN bs /\ bs[i].addr + HeaderSize = p
  <2> DEFINE j == i
  <2>1. j = BlockOf(h.blocks, p)
    OBVIOUS
  <2> HIDE DEF j
  <2>2. j \in DOMAIN h.blocks /\ h.blocks[j].addr + HeaderSize = p
    BY <2>1, BlockOfHeld
  <2> QED BY <2>2 DEF j
<1> HIDE DEF i
<1>3. bs[i] \in Block /\ bs # <<>> /\ h.end = Last(bs).addr
  <2>1. bs[i] \in Block /\ bs # <<>>
    BY <1>1, <1>2
  <2> QED BY <2>1 DEF Whole, Started
<1>4. c \in Block /\ c.addr = bs[i].addr /\ c.size = bs[i].size /\ ~c.used
  BY <1>3 DEF Block
<1>5. Freed(h, p) = f
  <2>1. Freed(h, p) = [h EXCEPT !.blocks = Put(@, i, c)]
    BY <1>1, <1>2 DEF Freed, Put, i
  <2> QED BY <2>1 DEF PutIn
<1> HIDE DEF c
<1>6. /\ f \in HeapRec /\ f.size = h.size /\ f.vm = h.vm /\ f.pages = h.pages /\ f.end = h.end
      /\ Listed(cs, top) /\ Bytes(cs) = Bytes(bs)
      /\ cs # <<>> /\ f.end = Last(cs).addr
      /\ DOMAIN cs = DOMAIN bs
      /\ \A k \in DOMAIN bs \ {i} : cs[k] = bs[k]
      /\ cs[i] = c
      /\ Spans(cs, bs)
  <2> DEFINE g == f
  <2>1. /\ Listed(h.blocks, top) /\ h.end = Last(h.blocks).addr /\ i \in DOMAIN h.blocks
        /\ c.addr = h.blocks[i].addr /\ c.size = h.blocks[i].size
        /\ h \in HeapRec /\ top \in Nat /\ c \in Block /\ g = PutIn(h, i, c)
    BY <1>1, <1>2, <1>3, <1>4
  <2> HIDE DEF top, g
  <2>2. /\ g \in HeapRec /\ g.size = h.size /\ g.vm = h.vm /\ g.pages = h.pages /\ g.end = h.end
        /\ Listed(g.blocks, top) /\ Bytes(g.blocks) = Bytes(h.blocks)
        /\ g.blocks # <<>> /\ g.end = Last(g.blocks).addr
        /\ DOMAIN g.blocks = DOMAIN h.blocks
        /\ \A k \in DOMAIN h.blocks \ {i} : g.blocks[k] = h.blocks[k]
        /\ g.blocks[i] = c
        /\ Spans(g.blocks, h.blocks)
    BY ONLY <2>1, PutIs
  <2> QED BY <2>2 DEF g
<1> HIDE DEF f
<1>7. cs \in Seq(Block) /\ DOMAIN cs = 1 .. Len(cs) /\ Len(cs) \in Nat
  BY <1>6 DEF HeapRec
<1>8. /\ Listed(ds, top) /\ Bytes(ds) = Bytes(cs) /\ ds \in Seq(Block) /\ ds # <<>>
      /\ SameUsed(ds, cs, Len(cs)) /\ Spans(ds, cs)
  <2> HIDE DEF cs, top
  <2> QED BY <1>1, <1>6, MergeKeeps
<1>9. e = Last(ds).addr /\ e \in Nat
  <2>1. e = Last(ds).addr
    <3> HIDE DEF cs, ds
    <3> QED BY <1>6 DEF MergedEnd
  <2>2. Last(ds) \in Block
    <3> HIDE DEF ds
    <3>1. Len(ds) \in 1 .. Len(ds)
      BY <1>8, EmptySeq
    <3> QED BY <1>8, <3>1 DEF Last
  <2> QED BY <2>1, <2>2, KeyType
<1>10. t = [f EXCEPT !.blocks = ds, !.end = e]
  BY <1>5 DEF merge_blocks
<1>11. /\ t \in HeapRec /\ t.blocks = ds /\ t.end = e /\ t.size = h.size /\ t.vm = h.vm
       /\ t.pages = h.pages
  <2> HIDE DEF ds, e
  <2> QED BY <1>6, <1>8, <1>9, <1>10 DEF HeapRec
<1>12. HeldIn(ds, ptrs2)
  <2> SUFFICES ASSUME NEW q \in DOMAIN ptrs2
               PROVE  /\ q % HEAP_ALIGNMENT = 0
                      /\ \E m \in DOMAIN ds : Holds(ds[m], q, ptrs2[q])
    BY DEF HeldIn
  <2> HIDE DEF ds, bs, cs
  <2>1. q \in DOMAIN ptrs /\ q # p /\ ptrs2[q] = ptrs[q]
    BY DEF Takes
  <2>2. q % HEAP_ALIGNMENT = 0 /\ \E k \in DOMAIN bs : Holds(bs[k], q, ptrs[q])
    BY <1>1, <2>1 DEF HeldIn
  <2>3. PICK k \in DOMAIN bs : Holds(bs[k], q, ptrs[q])
    BY <2>2
  <2>4. k # i /\ bs[k].used
    BY <1>2, <2>1, <2>3 DEF Holds
  <2>5. cs[k] = bs[k] /\ k \in 1 .. Len(cs)
    BY <1>6, <1>7, <2>4
  <2>6. PICK m \in DOMAIN ds : ds[m] = cs[k]
    BY <1>8, <2>4, <2>5 DEF SameUsed
  <2> QED BY <2>1, <2>2, <2>3, <2>5, <2>6
<1>13. UsedIn(ds, ptrs2, h.vm, h.pages, F)
  <2> SUFFICES ASSUME NEW m \in DOMAIN ds, ds[m].used
               PROVE  ds[m].addr + HeaderSize \in DOMAIN ptrs2 \/ Lost(ds[m], h.vm, h.pages, F)
    BY DEF UsedIn
  <2>1. PICK k \in 1 .. Len(cs) : cs[k] = ds[m]
    <3> HIDE DEF ds, cs
    <3> QED BY <1>8 DEF SameUsed
  <2> HIDE DEF ds, bs, cs
  <2>2. k # i
    BY <1>4, <1>6, <2>1
  <2>3. k \in DOMAIN bs /\ bs[k] = ds[m]
    BY <1>6, <1>7, <2>1, <2>2
  <2>4. bs[k].addr + HeaderSize \in DOMAIN ptrs \/ Lost(bs[k], h.vm, h.pages, F)
    BY <1>1, <2>3 DEF UsedIn
  <2>5. bs[k].addr + HeaderSize # p
    <3>1. bs[k].addr # bs[i].addr
      BY <1>1, <1>2, <2>2, <2>3
    <3>2. bs[k] \in Block
      BY <1>1, <2>3
    <3>3. bs[k].addr \in Nat /\ bs[i].addr \in Nat /\ HeaderSize \in Nat
      BY <1>3, <3>2, SizeFacts DEF Block
    <3> QED BY ONLY <1>2, <3>1, <3>3
  <2> QED BY <2>3, <2>4, <2>5 DEF Takes
<1>14. Started(t, O)
  <2> HIDE DEF ds, e
  <2> QED BY <1>8, <1>9, <1>11 DEF Started
<1>15. t.size = Bytes(ds) /\ t.end \in Nat
  <2> HIDE DEF ds, e
  <2> QED BY <1>6, <1>8, <1>9, <1>11 DEF Whole, bs
<1>16. Listed(t.blocks, Top(t.vm)) /\ Sound(t.vm, t.pages \cup O) /\ t.pages \cap O = {}
  BY <1>8, <1>11 DEF Whole
<1>17. HeldIn(t.blocks, ptrs2) /\ UsedIn(t.blocks, ptrs2, t.vm, t.pages, F)
  BY <1>11, <1>12, <1>13
<1>18. InPages(t.blocks, t.pages)
  <2> DEFINE P == h.pages
  <2>1. P \in SUBSET Pages /\ InPages(bs, P) /\ t.pages = P /\ t.blocks = ds
    BY <1>11 DEF HeapRec, Whole
  <2> HIDE DEF P, bs, cs, ds
  <2>2. InPages(cs, P)
    BY <1>1, <1>6, <1>7, <2>1, InPagesSpans
  <2>3. InPages(ds, P)
    BY <1>7, <1>8, <2>1, <2>2, InPagesSpans
  <2> QED BY <2>1, <2>3
<1>19. Whole(t, O, ptrs2, F)
  <2> HIDE DEF ds
  <2> QED BY <1>11, <1>14, <1>15, <1>16, <1>17, <1>18 DEF Whole
<1> QED BY <1>11, <1>19

-----------------------------------------------------------------------------
(* The invariant.                                                            *)

\* What every call of heap.c finds and leaves.
HeapInv ==
  /\ Current \in HeapRec /\ Whole(Current, others, held, dirty)
  /\ heap_lock \in BOOLEAN /\ dirty \subseteq Nat
  /\ \A p \in DOMAIN held : held[p] \in Requests

\* The record of the heap does not matter, only what it holds.
LEMMA WholeSame ==
  ASSUME NEW h \in HeapRec, NEW O, NEW ptrs, NEW F, Whole(h, O, ptrs, F),
         NEW g, g = [blocks |-> h.blocks, end |-> h.end, size |-> h.size,
                     vm |-> h.vm, pages |-> h.pages, more |-> TRUE]
  PROVE  g \in HeapRec /\ Whole(g, O, ptrs, F)
<1>1. /\ g.blocks = h.blocks /\ g.end = h.end /\ g.size = h.size /\ g.pages = h.pages
      /\ g.vm = h.vm
  OBVIOUS
<1>2. g \in HeapRec
  BY DEF HeapRec
<1> QED BY <1>1, <1>2 DEF Whole, Started

LEMMA BecomesInv ==
  ASSUME NEW h \in HeapRec, Becomes(h), Whole(h, others', held', dirty'),
         heap_lock' \in BOOLEAN, dirty' \subseteq Nat,
         \A p \in DOMAIN held' : held'[p] \in Requests
  PROVE  HeapInv'
<1>1. Current' = [blocks |-> h.blocks, end |-> h.end, size |-> h.size,
                  vm |-> h.vm, pages |-> h.pages, more |-> TRUE]
  BY DEF Current, Becomes
<1>2. (Current \in HeapRec)' /\ Whole(Current', others', held', dirty')
  BY <1>1, WholeSame
<1>3. Whole(Current', others', held', dirty') <=> Whole(Current, others, held, dirty)'
  BY DEF Whole, Listed, Sound, Started, HeldIn, UsedIn, InPages
<1> QED BY <1>2, <1>3 DEF HeapInv

\* A first page that cannot be had never will be.
LEMMA BarrenFailed ==
  ASSUME NEW v, NEW G, Sound(v, G), ~v.faulted, v.next = FirstPage,
         \A e \in Dirs \ {0} : v.table[e] = 0,
         NEW r, r = AllocPage(v), r.vm.faulted \/ r.page = 0
  PROVE  Barren(r.vm)
<1>1. v \in VM /\ v.table[0] # 0 /\ 0 \notin v.free
  BY DEF Sound
<1>2. NoneLeft(v, r) \/ NoTable(v, r) \/ Got(v, r) \/ Faults(v, r)
  BY <1>1, AllocOutcomes
<1>3. CASE NoneLeft(v, r)
  <2>1. v.free = {} /\ r.vm = v
    BY <1>1, <1>3 DEF NoneLeft, VM
  <2> QED BY <2>1 DEF Barren
<1>4. CASE NoTable(v, r)
  <2>1. r.vm.table = v.table /\ r.vm.free = v.free /\ r.vm.next = Advance(FirstPage)
    BY <1>1, <1>4 DEF NoTable, VM
  <2>2. PICK f : v.free = {f}
    BY <1>4 DEF NoTable
  <2>3. Advance(FirstPage) = (IF FirstPage + 1 = NumPages THEN 0 ELSE FirstPage + 1)
    <3>1. FirstPage \in Pages
      BY PagingAssumption
    <3> QED BY <3>1, AdvanceIs
  <2>4. ~(0 < r.vm.next /\ r.vm.next < FirstPage)
    BY <2>1, <2>3, SizeFacts
  <2> QED BY <2>1, <2>2, <2>4 DEF Barren
<1>5. CASE Got(v, r)
  <2>1. PICK f, F, T : Backed(v, r, f, F, T)
    BY <1>5 DEF Got
  <2> DEFINE w == [v EXCEPT !.free = F, !.next = Advance(@), !.table = T, !.entry[v.next] = f]
  <2>2. r = [page |-> v.next, vm |-> w]
    BY <2>1 DEF Backed
  <2>3. w.faulted = v.faulted
    BY <1>1 DEF VM
  <2> HIDE DEF w
  <2>4. r.page = FirstPage /\ ~r.vm.faulted
    BY <2>2, <2>3
  <2> QED BY <2>4, SizeFacts
<1>6. CASE Faults(v, r)
  BY <1>6 DEF Faults, Barren
<1> QED BY <1>2, <1>3, <1>4, <1>5, <1>6

\* The heap that has no page.
LEMMA EmptyWhole ==
  ASSUME NEW w, Sound(w, {}), Barren(w), NEW E,
         NEW g, g.blocks = <<>>, g.end = 0, g.size = 0, g.pages = {}, g.vm = w
  PROVE  Whole(g, {}, <<>>, E)
<1>1. DOMAIN <<>> = {} /\ <<>> \in Seq(Block)
  BY EmptySeq
<1>2. Listed(<<>>, Top(w)) /\ HeldIn(<<>>, <<>>) /\ UsedIn(<<>>, <<>>, w, {}, E) /\ InPages(<<>>, {})
  BY <1>1 DEF Listed, HeldIn, UsedIn, InPages
<1>3. Started(g, {})
  BY DEF Started
<1> QED BY <1>2, <1>3, BytesEmpty DEF Whole

\* The heap of one page.
LEMMA FirstWhole ==
  ASSUME NEW v \in VM, NEW w \in VM, NEW page \in Pages \ {0}, page = v.next,
         Sound(w, {page}), Rank(v.next) < Rank(w.next), NEW b, b = PageBlock(page, FALSE), NEW E,
         NEW g, g.blocks = <<b>>, g.end = page * PAGE_SIZE, g.size = PAGE_SIZE,
         g.pages = {page}, g.vm = w
  PROVE  <<b>> \in Seq(Block) /\ Whole(g, {}, <<>>, E)
<1> DEFINE bs == Append(<<>>, b)
           top == Top(w)
<1>1. /\ b \in Block /\ b.addr = page * PAGE_SIZE /\ b.used = FALSE
      /\ HeaderSize + b.size = PAGE_SIZE /\ b.addr % HEAP_ALIGNMENT = 0
      /\ KEnd(b) = Rank(page) * PAGE_SIZE + PAGE_SIZE
      /\ Key(b.addr) = Rank(page) * PAGE_SIZE
  BY PageBlockIs
<1> HIDE DEF bs
<1>2. <<b>> = bs
  BY DEF bs
<1>3. /\ bs \in Seq(Block) /\ bs # <<>> /\ DOMAIN bs = {1} /\ bs[1] = b /\ Last(bs) = b
  <2>1. <<>> \in Seq(Block) /\ Len(<<>>) = 0
    BY EmptySeq
  <2>2. /\ bs \in Seq(Block) /\ bs # <<>> /\ DOMAIN bs = 1 .. 0 + 1 /\ bs[0 + 1] = b /\ Last(bs) = b
    BY <1>1, <2>1, AppendIs DEF bs
  <2>3. 0 + 1 = 1 /\ 1 .. 1 = {1}
    OBVIOUS
  <2> QED BY <2>2, <2>3
<1>4. Bytes(bs) = PAGE_SIZE
  <2>1. <<>> \in Seq(Block)
    BY EmptySeq
  <2>2. Bytes(bs) = Bytes(<<>>) + HeaderSize + b.size
    BY <1>1, <2>1, BytesAppend DEF bs
  <2>3. HeaderSize \in Nat /\ b.size \in Nat
    BY <1>1, SizeFacts DEF Block
  <2>4. Bytes(<<>>) = 0 /\ HeaderSize + b.size = PAGE_SIZE
    BY <1>1, BytesEmpty
  <2>5. 0 + HeaderSize + b.size = HeaderSize + b.size
    BY <2>3
  <2> QED BY <2>2, <2>4, <2>5
<1>5. KEnd(b) <= top
  <2>1. Top(v) + PAGE_SIZE <= Top(w)
    BY TopRises
  <2> QED BY <1>1, <2>1 DEF Top
<1>6. Listed(bs, top)
  <2>1. \A i, j \in DOMAIN bs : ~(i < j)
    BY <1>3
  <2> QED BY <1>1, <1>3, <1>5, <2>1 DEF Listed
<1>7. HeldIn(bs, <<>>) /\ UsedIn(bs, <<>>, w, {page}, E)
  <2>1. DOMAIN <<>> = {}
    BY EmptySeq
  <2>2. HeldIn(bs, <<>>)
    BY <2>1 DEF HeldIn
  <2> QED BY <1>1, <1>3, <2>2 DEF UsedIn
<1>8. Started(g, {}) /\ g.end \in Nat
  BY <1>1, <1>2, <1>3 DEF Started, Block
<1>9. Sound(g.vm, g.pages \cup {}) /\ g.pages \cap {} = {}
  <2>1. g.pages \cup {} = {page}
    OBVIOUS
  <2> QED BY <2>1
<1>10. Listed(g.blocks, Top(g.vm)) /\ g.size = Bytes(g.blocks)
  BY <1>2, <1>4, <1>6
<1>11. HeldIn(g.blocks, <<>>) /\ UsedIn(g.blocks, <<>>, g.vm, g.pages, E)
  BY <1>2, <1>7
<1>12. InPages(g.blocks, g.pages)
  <2>1. <<>> \in Seq(Block) /\ InPages(<<>>, {}) /\ {} \cup {page} = {page} /\ {} \in SUBSET Pages
    BY EmptySeq DEF InPages
  <2>2. page \in Pages
    OBVIOUS
  <2>3. InPages(bs, {} \cup {page})
    BY <1>1, <2>1, <2>2, InPagesAppend DEF bs
  <2> QED BY <1>2, <2>1, <2>3
<1> QED BY <1>2, <1>3, <1>8, <1>9, <1>10, <1>11, <1>12 DEF Whole

\* A heap that has just been made.
LEMMA CreatedWhole ==
  ASSUME NEW F \in FrameSets, NEW E, NEW h, h = Created(Booted(F)),
         NEW g, g = [blocks |-> h.blocks, end |-> h.end, size |-> h.size,
                     vm |-> h.vm, pages |-> h.pages, more |-> TRUE]
  PROVE  g \in HeapRec /\ Whole(g, {}, <<>>, E)
<1> DEFINE v == Booted(F)
           r == AllocPage(v)
           w == r.vm
           page == r.page
           b == PageBlock(page, FALSE)
<1>1. /\ Sound(v, {}) /\ v.next = FirstPage /\ ~v.faulted
      /\ \A e \in Dirs \ {0} : v.table[e] = 0
  BY BootedSound
<1>2. h = IF w.faulted \/ page = 0
            THEN [blocks |-> <<>>, end |-> 0, size |-> 0, vm |-> w, pages |-> {}]
            ELSE [blocks |-> <<b>>, end |-> page * PAGE_SIZE,
                  size |-> PAGE_SIZE, vm |-> w, pages |-> {page}]
  BY DEF Created
<1> HIDE DEF v
<1>3. /\ w.faulted => Sound(w, {})
      /\ ~w.faulted => Sound(w, {page} \ {0})
      /\ ~w.faulted /\ page # 0 => page = v.next /\ Rank(v.next) < Rank(w.next)
      /\ w.faulted \/ page = 0 => Barren(w)
  <2> DEFINE z == r
  <2>1. z = AllocPage(v)
    OBVIOUS
  <2> HIDE DEF z
  <2>2. {} \cup ({z.page} \ {0}) = {z.page} \ {0}
    OBVIOUS
  <2>3. /\ z.vm.faulted => Sound(z.vm, {})
        /\ ~z.vm.faulted => Sound(z.vm, {z.page} \ {0})
        /\ ~z.vm.faulted /\ z.page # 0 => z.page = v.next /\ Rank(v.next) < Rank(z.vm.next)
    BY <1>1, <2>1, <2>2, AllocSound
  <2>4. z.vm.faulted \/ z.page = 0 => Barren(z.vm)
    BY <1>1, <2>1, BarrenFailed
  <2> QED BY <2>3, <2>4 DEF z
<1> HIDE DEF w, page, b
<1>4. v \in VM /\ w \in VM
  BY <1>1, <1>3 DEF Sound
<1>5. g.vm = h.vm /\ g.blocks = h.blocks /\ g.end = h.end /\ g.size = h.size /\ g.pages = h.pages
  OBVIOUS
<1>6. CASE w.faulted \/ page = 0
  <2>1. /\ g.blocks = <<>> /\ g.end = 0 /\ g.size = 0 /\ g.pages = {} /\ g.vm = w
    BY <1>2, <1>5, <1>6
  <2>2. Sound(w, {})
    <3>1. page = 0 => {page} \ {0} = {}
      OBVIOUS
    <3> QED BY <1>3, <1>6, <3>1
  <2>3. Whole(g, {}, <<>>, E)
    BY <1>3, <1>6, <2>1, <2>2, EmptyWhole
  <2>4. <<>> \in Seq(Block)
    BY EmptySeq
  <2>5. g \in HeapRec
    BY <1>4, <1>5, <2>1, <2>4 DEF HeapRec
  <2> QED BY <2>3, <2>5
<1>7. CASE ~w.faulted /\ page # 0
  <2>1. /\ g.blocks = <<b>> /\ g.end = page * PAGE_SIZE /\ g.size = PAGE_SIZE
        /\ g.pages = {page} /\ g.vm = w
    BY <1>2, <1>5, <1>7
  <2>2. page \in Pages \ {0} /\ page = v.next /\ Rank(v.next) < Rank(w.next)
    BY <1>3, <1>4, <1>7 DEF VM
  <2>3. Sound(w, {page}) /\ b = PageBlock(page, FALSE)
    <3>1. {page} \ {0} = {page}
      BY <1>7
    <3> QED BY <1>3, <1>7, <3>1 DEF b
  <2>4. <<b>> \in Seq(Block) /\ Whole(g, {}, <<>>, E)
    BY ONLY <1>4, <2>1, <2>2, <2>3, FirstWhole
  <2>5. page * PAGE_SIZE \in Nat /\ PAGE_SIZE \in Nat
    BY <1>1, <1>4, <2>2, TopFacts, SizeFacts
  <2>6. g \in HeapRec
    BY <1>4, <1>5, <2>1, <2>2, <2>4, <2>5 DEF HeapRec
  <2> QED BY <2>4, <2>6
<1> QED BY <1>6, <1>7

LEMMA InitInv == Init => HeapInv
<1> SUFFICES ASSUME Init PROVE HeapInv
  OBVIOUS
<1>1. PICK F \in FrameSets : LET h == Created(Booted(F)) IN
        /\ blocks = h.blocks /\ heap_end = h.end /\ heap_size = h.size
        /\ vm = h.vm /\ pages = h.pages
  BY DEF Init
<1> DEFINE h == Created(Booted(F))
<1>2. Current = [blocks |-> h.blocks, end |-> h.end, size |-> h.size,
                 vm |-> h.vm, pages |-> h.pages, more |-> TRUE]
  BY <1>1 DEF Current
<1> HIDE DEF h
<1>3. Current \in HeapRec /\ Whole(Current, {}, <<>>, dirty)
  BY <1>2, CreatedWhole DEF h
<1>4. heap_lock = FALSE /\ others = {} /\ held = <<>> /\ dirty \in DirtySets
  BY DEF Init
<1>5. dirty \subseteq Nat
  BY <1>4, HeapAssumption
<1>6. \A p \in DOMAIN held : held[p] \in Requests
  BY <1>4, EmptySeq
<1> QED BY <1>3, <1>4, <1>5, <1>6 DEF HeapInv

LEMMA RunningFacts ==
  ASSUME HeapInv, Running
  PROVE  /\ Current \in HeapRec /\ Whole(Current, others, held, dirty)
         /\ Heap(Current, others, held, dirty) /\ Sound(vm, pages \cup others) /\ ~vm.faulted
         /\ Current.vm = vm /\ Current.blocks = blocks /\ Current.pages = pages
         /\ pages \cap others = {}
<1>1. Current.vm = vm /\ Current.blocks = blocks /\ Current.pages = pages
  BY DEF Current
<1>2. Current \in HeapRec /\ Whole(Current, others, held, dirty) /\ ~vm.faulted
  BY DEF HeapInv, Running
<1>3. Heap(Current, others, held, dirty)
  BY <1>1, <1>2 DEF Heap
<1>4. Sound(vm, pages \cup others) /\ pages \cap others = {}
  BY <1>1, <1>2 DEF Whole
<1> QED BY <1>1, <1>2, <1>3, <1>4

LEMMA WithSizeIs ==
  ASSUME NEW p, NEW n
  PROVE  Gives(held, WithSize(p, n), p) /\ WithSize(p, n)[p] = n
BY DEF Gives, WithSize

LEMMA RequestSize ==
  ASSUME NEW n \in Requests
  PROVE  Rounded(n) \in Nat /\ Rounded(n) % HEAP_ALIGNMENT = 0
<1>1. n \in 1 .. AddressSpace - 1
  BY HeapAssumption
<1> QED BY <1>1, RoundedIs

LEMMA kmallocInv ==
  ASSUME HeapInv, NEW n \in Requests, kmalloc(n)
  PROVE  HeapInv'
<1> DEFINE size  == Rounded(n)
           found == Searched(Current, size)
           i     == find_free_block(found.blocks, size)
<1>1. /\ dirty' = dirty /\ heap_lock' = heap_lock /\ others' = others /\ Running
      /\ IF i = 0 \/ found.vm.faulted
           THEN Becomes(found) /\ held' = held
           ELSE /\ Becomes(Taken(Trimmed(found, i, size), i))
                /\ held' = WithSize(found.blocks[i].addr + HeaderSize, n)
  BY DEF kmalloc
<1>2. Heap(found, others, held, dirty)
  <2> DEFINE h == Current
  <2>1. size \in Nat /\ Heap(h, others, held, dirty)
    BY <1>1, RunningFacts, RequestSize
  <2> HIDE DEF size, h
  <2> QED BY <2>1, SearchedWhole DEF h
<1> HIDE DEF found
<1>3. found \in HeapRec /\ Whole(found, others, held, dirty)
  BY <1>2 DEF Heap
<1>4. heap_lock' \in BOOLEAN /\ dirty' \subseteq Nat
  BY <1>1 DEF HeapInv
<1>5. CASE i = 0 \/ found.vm.faulted
  <2>1. PICK h : h = found
    OBVIOUS
  <2>2. h \in HeapRec /\ Becomes(h) /\ Whole(h, others', held', dirty')
    BY <1>1, <1>3, <1>5, <2>1
  <2>3. \A p \in DOMAIN held' : held'[p] \in Requests
    BY <1>1, <1>5 DEF HeapInv
  <2> QED BY <1>4, <2>2, <2>3, BecomesInv
<1>6. CASE ~(i = 0 \/ found.vm.faulted)
  <2> DEFINE g == Trimmed(found, i, size)
             c == [g.blocks[i] EXCEPT !.used = TRUE]
             t == PutIn(g, i, c)
             q == found.blocks[i].addr + HeaderSize
  <2>1. i \in DOMAIN found.blocks /\ found.blocks[i].size >= size
    BY <1>3, <1>6, FindIs DEF HeapRec
  <2>2. Taken(g, i) = t
    BY DEF Taken, PutIn, Put
  <2>3. Becomes(t) /\ held' = WithSize(q, n)
    BY <1>1, <1>6, <2>2
  <2>4. Gives(held, held', q) /\ held'[q] = n
    BY <2>3, WithSizeIs
  <2>5. t \in HeapRec /\ Whole(t, others, held', dirty)
    <3>1. g = Trimmed(found, i, Rounded(n)) /\ c = [g.blocks[i] EXCEPT !.used = TRUE]
          /\ t = PutIn(g, i, c) /\ q = found.blocks[i].addr + HeaderSize
          /\ found.blocks[i].size >= Rounded(n)
      BY <2>1
    <3> HIDE DEF i, g, c, t, q, size
    <3> QED BY <1>3, <2>1, <2>4, <3>1, GivenWhole
  <2>6. \A p \in DOMAIN held' : held'[p] \in Requests
    <3> HIDE DEF q
    <3> QED BY <2>4 DEF HeapInv, Gives
  <2> HIDE DEF t
  <2>7. PICK h : h = t
    OBVIOUS
  <2>8. h \in HeapRec /\ Becomes(h) /\ Whole(h, others', held', dirty')
    BY <1>1, <2>3, <2>5, <2>7
  <2> QED BY <1>4, <2>6, <2>8, BecomesInv
<1> QED BY <1>5, <1>6

LEMMA kfreeInv ==
  ASSUME HeapInv, NEW p \in DOMAIN held, kfree(p)
  PROVE  HeapInv'
<1> DEFINE t == merge_blocks(Freed(Current, p))
<1>1. /\ dirty' = dirty /\ heap_lock' = heap_lock /\ others' = others /\ Running
      /\ Becomes(t) /\ held' = Without(p)
  BY DEF kfree
<1>2. Current \in HeapRec /\ Whole(Current, others, held, dirty)
  BY <1>1, RunningFacts
<1>3. Takes(held, held', p)
  BY <1>1 DEF Takes, Without
<1>4. t \in HeapRec /\ Whole(t, others, held', dirty)
  <2> DEFINE z == t
  <2>1. z = merge_blocks(Freed(Current, p))
    OBVIOUS
  <2> HIDE DEF z
  <2>2. z \in HeapRec /\ Whole(z, others, held', dirty)
    BY <1>2, <1>3, <2>1, FreedWhole
  <2> QED BY <2>2 DEF z
<1> HIDE DEF t
<1>5. PICK h : h = t
  OBVIOUS
<1>6. h \in HeapRec /\ Becomes(h) /\ Whole(h, others', held', dirty')
  BY <1>1, <1>4, <1>5
<1>7. heap_lock' \in BOOLEAN /\ dirty' \subseteq Nat /\ \A q \in DOMAIN held' : held'[q] \in Requests
  BY <1>1, <1>3 DEF HeapInv, Takes
<1> QED BY <1>6, <1>7, BecomesInv

LEMMA krealloc_in_placeInv ==
  ASSUME HeapInv, NEW p \in DOMAIN held, NEW n \in Requests, krealloc_in_place(p, n)
  PROVE  HeapInv'
<1> DEFINE bs == Current.blocks
           i  == BlockOf(bs, p)
           g  == Trimmed(Current, i, Rounded(n))
           c  == [g.blocks[i] EXCEPT !.used = TRUE]
<1>1. /\ Current \in HeapRec /\ Whole(Current, others, held, dirty) /\ Current.blocks = blocks
      /\ Current.vm \in VM
  BY RunningFacts DEF krealloc_in_place, HeapRec
<1>2. /\ dirty' = dirty /\ heap_lock' = heap_lock /\ others' = others
      /\ bs[i].size >= Rounded(n) /\ Becomes(g) /\ held' = WithSize(p, n)
  BY <1>1 DEF krealloc_in_place
<1>3. i \in DOMAIN bs /\ bs[i].addr + HeaderSize = p /\ bs[i].used
  <2> DEFINE z == i
  <2>1. z = BlockOf(Current.blocks, p)
    OBVIOUS
  <2> HIDE DEF z
  <2>2. z \in DOMAIN Current.blocks /\ Current.blocks[z].addr + HeaderSize = p
        /\ Holds(Current.blocks[z], p, held[p])
    BY <1>1, <2>1, BlockOfHeld
  <2> QED BY <2>2 DEF z, Holds
<1> HIDE DEF i
<1>4. PICK h : h = Current
  OBVIOUS
<1>5. /\ g \in HeapRec /\ g.blocks \in Seq(Block) /\ i \in DOMAIN g.blocks /\ g.blocks[i].used
  <2>1. Listed(h.blocks, Top(h.vm)) /\ h.end = Last(h.blocks).addr
    <3>1. h.blocks # <<>>
      BY <1>1, <1>3, <1>4, EmptySeq
    <3> QED BY <1>1, <1>4, <3>1 DEF Whole, Started
  <2>2. h \in HeapRec /\ i \in DOMAIN h.blocks /\ h.blocks[i].size >= Rounded(n) /\ h.blocks[i].used
    BY <1>1, <1>2, <1>3, <1>4
  <2>3. Rounded(n) \in Nat /\ Rounded(n) % HEAP_ALIGNMENT = 0 /\ g = Trimmed(h, i, Rounded(n))
    BY <1>4, RequestSize
  <2> DEFINE z == g
  <2>4. z = Trimmed(h, i, Rounded(n))
    BY <2>3
  <2> HIDE DEF z
  <2>5. z \in HeapRec /\ Others(h.blocks, z.blocks, i) /\ z.blocks[i].used = h.blocks[i].used
    BY <2>1, <2>2, <2>3, <2>4, TrimmedIs
  <2> QED BY <2>2, <2>5 DEF z, Others, HeapRec
<1>6. PutIn(g, i, c) = g
  <2> HIDE DEF g
  <2> DEFINE cs == g.blocks
  <2>1. cs \in Seq(Block) /\ i \in DOMAIN cs /\ cs[i].used = TRUE /\ cs[i] \in Block
    <3>1. cs \in Seq(Block) /\ i \in DOMAIN cs /\ cs[i].used
      BY <1>5
    <3> HIDE DEF cs
    <3>2. cs[i] \in Block
      BY <3>1
    <3>3. cs[i].used \in BOOLEAN
      BY <3>2, KeyType
    <3> QED BY <3>1, <3>2, <3>3
  <2>2. [cs[i] EXCEPT !.used = TRUE] = cs[i]
    BY <2>1 DEF Block
  <2>3. [cs EXCEPT ![i] = cs[i]] = cs
    BY <2>1
  <2>4. Put(cs, i, c) = cs
    BY <2>2, <2>3 DEF Put
  <2>5. [g EXCEPT !.blocks = cs] = g
    BY <1>5 DEF HeapRec
  <2> QED BY <2>4, <2>5 DEF PutIn
<1>7. Gives(held, held', p) /\ held'[p] = n
  BY <1>2, WithSizeIs
<1>8. Whole(g, others, held', dirty)
  <2> DEFINE t == PutIn(g, i, c)
  <2>1. h \in HeapRec /\ Whole(h, others, held, dirty) /\ i \in DOMAIN h.blocks
        /\ h.blocks[i].size >= Rounded(n) /\ p = h.blocks[i].addr + HeaderSize
        /\ g = Trimmed(h, i, Rounded(n)) /\ c = [g.blocks[i] EXCEPT !.used = TRUE]
        /\ t = PutIn(g, i, c)
    BY <1>1, <1>2, <1>3, <1>4
  <2> HIDE DEF g, c, t
  <2>2. Whole(t, others, held', dirty)
    BY <1>7, <2>1, GivenWhole
  <2> QED BY <1>6, <2>2 DEF t
<1> HIDE DEF g
<1>9. PICK f : f = g
  OBVIOUS
<1>10. f \in HeapRec /\ Becomes(f) /\ Whole(f, others', held', dirty')
  BY <1>2, <1>5, <1>8, <1>9
<1>11. heap_lock' \in BOOLEAN /\ dirty' \subseteq Nat /\ \A q \in DOMAIN held' : held'[q] \in Requests
  BY <1>2, <1>7 DEF HeapInv, Gives
<1> QED BY <1>10, <1>11, BecomesInv

LEMMA krealloc_growInv ==
  ASSUME HeapInv, NEW p \in DOMAIN held, NEW n \in Requests, krealloc_grow(p, n)
  PROVE  HeapInv'
<1>1. /\ heap_lock' = TRUE /\ vm' = vm /\ dirty' = dirty /\ blocks' = blocks /\ heap_end' = heap_end
      /\ heap_size' = heap_size /\ pages' = pages /\ others' = others /\ held' = held
  BY DEF krealloc_grow
<1>2. PICK h : h = Current
  OBVIOUS
<1>3. h \in HeapRec /\ Becomes(h) /\ Whole(h, others', held', dirty')
  BY <1>1, <1>2 DEF HeapInv, Becomes, Current
<1>4. heap_lock' \in BOOLEAN /\ dirty' \subseteq Nat /\ \A q \in DOMAIN held' : held'[q] \in Requests
  BY <1>1 DEF HeapInv
<1> QED BY <1>3, <1>4, BecomesInv

LEMMA OtherAllocInv ==
  ASSUME HeapInv, OtherAlloc
  PROVE  HeapInv'
<1> DEFINE r == AllocPage(vm)
           G == pages \cup others
           Q == others'
<1>1. /\ Running /\ vm' = r.vm
      /\ others' = IF r.vm.faulted THEN others ELSE others \cup ({r.page} \ {0})
      /\ dirty' = dirty /\ blocks' = blocks /\ heap_end' = heap_end /\ heap_size' = heap_size
      /\ heap_lock' = heap_lock /\ pages' = pages /\ held' = held
  BY DEF OtherAlloc
<1>2. PICK z, v, h : z = r /\ v = vm /\ h = Current
  OBVIOUS
<1>3. /\ h \in HeapRec /\ Whole(h, others, held, dirty) /\ Sound(v, G) /\ ~v.faulted
      /\ h.vm = v /\ h.blocks = blocks /\ h.pages = pages /\ h.end = heap_end /\ h.size = heap_size
      /\ pages \cap others = {} /\ z = AllocPage(v)
  BY <1>1, <1>2, RunningFacts DEF Current
<1>4. /\ z.vm.faulted => Sound(z.vm, G)
      /\ ~z.vm.faulted => Sound(z.vm, G \cup ({z.page} \ {0})) /\ z.page \notin G
      /\ Rank(v.next) <= Rank(z.vm.next)
      /\ \A p \in G : z.vm.entry[p] = v.entry[p]
  BY ONLY <1>3, AllocSound
<1>5. Sound(z.vm, h.pages \cup Q) /\ h.pages \cap Q = {}
  <2>1. CASE z.vm.faulted
    BY <1>1, <1>2, <1>3, <1>4, <2>1
  <2>2. CASE ~z.vm.faulted
    <3>1. Q = others \cup ({z.page} \ {0})
      BY <1>1, <1>2, <2>2
    <3>2. pages \cup Q = G \cup ({z.page} \ {0}) /\ pages \cap Q = {}
      BY <1>3, <1>4, <2>2, <3>1
    <3> QED BY <1>3, <1>4, <2>2, <3>2
  <2> QED BY <2>1, <2>2
<1>6. h.blocks = <<>> => Q = {} /\ Barren(z.vm)
  <2>1. ASSUME h.blocks = <<>> PROVE Q = {} /\ Barren(z.vm)
    <3>1. others = {} /\ Barren(v)
      BY <1>3, <2>1 DEF Whole, Started
    <3>2. z.vm.faulted \/ (z.page = 0 /\ Barren(z.vm))
      BY ONLY <1>3, <3>1, BarrenAlloc
    <3> QED BY <1>1, <1>2, <3>1, <3>2 DEF Barren
  <2> QED BY <2>1
<1>7. SameEntries(h.vm, z.vm, h.pages) /\ Rank(h.vm.next) <= Rank(z.vm.next)
  BY <1>3, <1>4 DEF SameEntries
<1> DEFINE g == [h EXCEPT !.vm = z.vm]
<1>8. /\ g.blocks = h.blocks /\ g.end = h.end /\ g.size = h.size /\ g.pages = h.pages /\ g.vm = z.vm
      /\ g \in HeapRec
  BY <1>3, <1>5 DEF HeapRec, Sound
<1> HIDE DEF g
<1>9. Whole(g, Q, held, dirty)
  <2>1. dirty \subseteq dirty
    OBVIOUS
  <2> HIDE DEF Q
  <2> QED BY ONLY <1>3, <1>5, <1>6, <1>7, <1>8, <2>1, MemoryWhole
<1>10. Becomes(g) /\ Whole(g, others', held', dirty')
  BY <1>1, <1>2, <1>3, <1>8, <1>9 DEF Becomes
<1>11. heap_lock' \in BOOLEAN /\ dirty' \subseteq Nat /\ \A q \in DOMAIN held' : held'[q] \in Requests
  BY <1>1 DEF HeapInv
<1> QED BY <1>8, <1>10, <1>11, BecomesInv

LEMMA OtherFreeInv ==
  ASSUME HeapInv, NEW page \in others, OtherFree(page)
  PROVE  HeapInv'
<1> DEFINE G == pages \cup others
           Q == others \ {page}
<1>1. /\ Running /\ vm' = FreePage(vm, page) /\ others' = Q
      /\ dirty' = dirty \/ dirty' = dirty \cup {vm.entry[page]}
      /\ blocks' = blocks /\ heap_end' = heap_end /\ heap_size' = heap_size
      /\ heap_lock' = heap_lock /\ pages' = pages /\ held' = held
  BY DEF OtherFree
<1>2. PICK w, v, h : w = FreePage(v, page) /\ v = vm /\ h = Current
  OBVIOUS
<1>3. /\ h \in HeapRec /\ Whole(h, others, held, dirty) /\ Sound(v, G) /\ ~v.faulted
      /\ h.vm = v /\ h.blocks = blocks /\ h.pages = pages /\ h.end = heap_end /\ h.size = heap_size
      /\ pages \cap others = {} /\ w = FreePage(v, page) /\ page \in G
  BY <1>1, <1>2, RunningFacts DEF Current
<1>4. Sound(w, G \ {page}) /\ w.next = v.next /\ \A q \in G \ {page} : w.entry[q] = v.entry[q]
  <2>1. Sound(v, G) /\ ~v.faulted /\ page \in G /\ w = FreePage(v, page)
    BY <1>3
  <2> HIDE DEF G
  <2> QED BY ONLY <2>1, FreeSound
<1>5. G \ {page} = h.pages \cup Q /\ h.pages \cap Q = {} /\ h.pages \subseteq G \ {page}
  BY <1>3
<1>6. h.blocks # <<>>
  BY <1>3 DEF Whole, Started
<1>7. SameEntries(h.vm, w, h.pages) /\ Rank(h.vm.next) <= Rank(w.next)
  <2>1. SameEntries(h.vm, w, h.pages)
    BY <1>3, <1>4, <1>5 DEF SameEntries
  <2>2. Rank(v.next) \in Nat
    BY <1>3, KeyPage DEF HeapRec, VM
  <2> QED BY <1>3, <1>4, <2>1, <2>2
<1> DEFINE g == [h EXCEPT !.vm = w]
<1>8. /\ g.blocks = h.blocks /\ g.end = h.end /\ g.size = h.size /\ g.pages = h.pages /\ g.vm = w
      /\ g \in HeapRec
  BY <1>3, <1>4 DEF HeapRec, Sound
<1> HIDE DEF g
<1>9. Whole(g, Q, held, dirty')
  <2>1. dirty \subseteq dirty' /\ Sound(w, h.pages \cup Q) /\ h.pages \cap Q = {}
    BY <1>1, <1>4, <1>5
  <2>2. h.blocks = <<>> => Q = {} /\ Barren(w)
    BY <1>6
  <2> HIDE DEF Q
  <2> QED BY ONLY <1>3, <1>7, <1>8, <2>1, <2>2, MemoryWhole
<1>10. Becomes(g) /\ Whole(g, others', held', dirty')
  BY <1>1, <1>2, <1>3, <1>8, <1>9 DEF Becomes
<1>11. dirty' \subseteq Nat
  <2>1. page \in Pages /\ v.entry \in [Pages -> Nat]
    BY <1>3 DEF Sound, VM
  <2>2. vm.entry[page] \in Nat /\ dirty \subseteq Nat
    BY <1>2, <2>1 DEF HeapInv
  <2> QED BY <1>1, <2>2
<1>12. heap_lock' \in BOOLEAN /\ \A q \in DOMAIN held' : held'[q] \in Requests
  BY <1>1 DEF HeapInv
<1> QED BY <1>8, <1>10, <1>11, <1>12, BecomesInv

LEMMA StepInv == HeapInv /\ [Next]_vars => HeapInv'
<1> SUFFICES ASSUME HeapInv, [Next]_vars PROVE HeapInv'
  OBVIOUS
<1>1. CASE \E n \in Requests : kmalloc(n)
  BY <1>1, kmallocInv
<1>2. CASE \E p \in DOMAIN held : kfree(p)
  BY <1>2, kfreeInv
<1>3. CASE \E p \in DOMAIN held, n \in Requests : krealloc_in_place(p, n) \/ krealloc_grow(p, n)
  BY <1>3, krealloc_in_placeInv, krealloc_growInv
<1>4. CASE OtherAlloc
  BY <1>4, OtherAllocInv
<1>5. CASE \E page \in others : OtherFree(page)
  BY <1>5, OtherFreeInv
<1>6. CASE UNCHANGED vars
  <2>1. PICK h : h = Current
    OBVIOUS
  <2>2. h \in HeapRec /\ Becomes(h) /\ Whole(h, others', held', dirty')
    BY <1>6, <2>1 DEF HeapInv, Becomes, Current, vars
  <2>3. heap_lock' \in BOOLEAN /\ dirty' \subseteq Nat /\ \A q \in DOMAIN held' : held'[q] \in Requests
    BY <1>6 DEF HeapInv, vars
  <2> QED BY <2>2, <2>3, BecomesInv
<1> QED BY <1>1, <1>2, <1>3, <1>4, <1>5, <1>6 DEF Next

LEMMA InvAlways == Spec => []HeapInv
<1>1. Init => HeapInv
  BY InitInv
<1>2. HeapInv /\ [Next]_vars => HeapInv'
  BY StepInv
<1> QED BY <1>1, <1>2, PTL DEF Spec

-----------------------------------------------------------------------------
(* What follows from it.                                                     *)

LEMMA InvFacts ==
  ASSUME HeapInv
  PROVE  /\ vm \in VM /\ blocks \in Seq(Block) /\ heap_end \in Nat /\ heap_size \in Nat
         /\ Listed(blocks, Top(vm)) /\ heap_size = Bytes(blocks)
         /\ Sound(vm, pages \cup others) /\ pages \cap others = {}
         /\ blocks # <<>> => heap_end = Last(blocks).addr
         /\ HeldIn(blocks, held) /\ UsedIn(blocks, held, vm, pages, dirty)
         /\ InPages(blocks, pages)
<1>1. /\ Current.blocks = blocks /\ Current.end = heap_end /\ Current.size = heap_size
      /\ Current.vm = vm /\ Current.pages = pages
  BY DEF Current
<1>2. vm \in VM /\ blocks \in Seq(Block) /\ heap_end \in Nat /\ heap_size \in Nat
  BY <1>1 DEF HeapInv, HeapRec
<1> QED BY <1>1, <1>2 DEF HeapInv, Whole, Started

\* The pages that a block reaches into lie between those it was built from.
LEMMA FromToWithin ==
  ASSUME NEW b \in Block, NEW f \in Pages, NEW l \in Pages, FromTo(b, f, l),
         f < FirstPage <=> l < FirstPage
  PROVE  (b.addr \div PAGE_SIZE) .. ((End(b) - 1) \div PAGE_SIZE) \subseteq f .. l
<1> DEFINE s == f * PAGE_SIZE
           e == l * PAGE_SIZE
           a == b.addr
           z == End(b)
           rs == Rank(f) * PAGE_SIZE
           re == Rank(l) * PAGE_SIZE
<1>1. /\ f \in Nat /\ l \in Nat /\ l < NumPages /\ NumPages \in Nat /\ FirstPage \in Nat
      /\ s \in Nat /\ e \in Nat /\ rs \in Nat /\ re \in Nat
      /\ Key(s) = rs /\ Key(e) = re
      /\ AddressSpace \in Nat /\ Base \in Nat /\ PAGE_SIZE \in Nat \ {0}
  BY NumFacts, KeyPage, BaseFacts, SizeFacts
<1>2. /\ a \in Nat /\ z \in Nat /\ a < z /\ Key(a) \in Nat /\ KEnd(b) \in Nat
      /\ Key(a) < KEnd(b) /\ KEnd(b) - Key(a) = z - a
  BY KeyType
<1>3. rs <= Key(a) /\ KEnd(b) <= re + PAGE_SIZE /\ (f < FirstPage => a < Base)
  BY DEF FromTo
<1>4. ASSUME NEW p \in Nat, p < FirstPage PROVE p * PAGE_SIZE < Base
  BY <1>1, <1>4, PageBelow DEF Base
<1>5. ASSUME NEW p \in Nat, p >= FirstPage PROVE p * PAGE_SIZE >= Base
  <2>1. p = FirstPage \/ FirstPage < p
    BY <1>1, <1>5
  <2> QED BY <1>1, <2>1, PageBelow DEF Base
<1>6. e + PAGE_SIZE <= AddressSpace
  BY <1>1, PageBelow, SpaceIs DEF NumPages
<1>7. /\ f < FirstPage => s < Base /\ e < Base
      /\ f >= FirstPage => s >= Base /\ e >= Base
  BY <1>1, <1>4, <1>5
<1>8. s <= a /\ z <= e + PAGE_SIZE
  <2>1. /\ Key(s) = IF s >= Base THEN s ELSE s + AddressSpace
        /\ Key(e) = IF e >= Base THEN e ELSE e + AddressSpace
        /\ Key(a) = IF a >= Base THEN a ELSE a + AddressSpace
    BY DEF Key
  <2> DEFINE ka == Key(a)
             ks == Key(s)
             ke == Key(e)
             kz == KEnd(b)
  <2>2. /\ ks = IF s >= Base THEN s ELSE s + AddressSpace
        /\ ke = IF e >= Base THEN e ELSE e + AddressSpace
        /\ ka = IF a >= Base THEN a ELSE a + AddressSpace
        /\ ks <= ka /\ kz <= ke + PAGE_SIZE /\ (f < FirstPage => a < Base)
        /\ ka \in Nat /\ kz \in Nat /\ ka < kz /\ kz - ka = z - a
    BY <1>1, <1>2, <1>3, <2>1
  <2> HIDE DEF s, e, a, z, ka, ks, ke, kz
  <2>3. CASE f < FirstPage
    BY <1>1, <1>2, <1>7, <2>2, <2>3
  <2>4. CASE f >= FirstPage
    <3>1. s >= Base /\ e >= Base /\ ke = e
      BY <1>7, <2>2, <2>4
    <3>2. ka < AddressSpace
      BY <1>1, <1>2, <1>6, <2>2, <3>1
    <3>3. ka = a
      BY <1>1, <1>2, <2>2, <3>2
    <3> QED BY <1>1, <1>2, <2>2, <3>1, <3>3
  <2> QED BY <1>1, <2>3, <2>4
<1> DEFINE x == a \div PAGE_SIZE
           y == (z - 1) \div PAGE_SIZE
<1>9. ASSUME NEW m \in Nat PROVE m \div PAGE_SIZE \in Nat
  BY <1>1, DivType
<1>10. x \in Nat /\ y \in Nat /\ z - 1 \in Nat
  BY <1>2, <1>9
<1>11. x * PAGE_SIZE \in Nat /\ x * PAGE_SIZE <= a /\ a < x * PAGE_SIZE + PAGE_SIZE
  BY <1>2, <1>10, PageBytes, PageNext
<1>12. y * PAGE_SIZE \in Nat /\ y * PAGE_SIZE <= z - 1
  BY <1>10, PageBytes, PageNext
<1>13. f <= x
  <2>1. ASSUME x < f PROVE FALSE
    <3>1. x * PAGE_SIZE + PAGE_SIZE <= s
      BY <1>1, <1>10, <2>1, PageBelow
    <3> HIDE DEF s, a, x
    <3> QED BY <1>1, <1>2, <1>8, <1>11, <3>1
  <2> QED BY <1>1, <1>10, <2>1
<1>14. y <= l
  <2>1. ASSUME l < y PROVE FALSE
    <3>1. e + PAGE_SIZE <= y * PAGE_SIZE
      BY <1>1, <1>10, <2>1, PageBelow
    <3> HIDE DEF e, z, y
    <3> QED BY <1>1, <1>2, <1>8, <1>12, <3>1
  <2> QED BY <1>1, <1>10, <2>1
<1> HIDE DEF x, y
<1>15. x .. y \subseteq f .. l
  BY <1>1, <1>10, <1>13, <1>14
<1> QED BY <1>15 DEF x, y, a, z

\* Consecutive pages are all from FirstPage up or all below it: the heap
\* would otherwise have the page that next_virt cannot get past.
LEMMA OneSide ==
  ASSUME HeapInv, Consecutive, NEW p \in pages, NEW q \in pages, p < FirstPage
  PROVE  q < FirstPage
<1> SUFFICES ASSUME q >= FirstPage PROVE FALSE
  <2>1. q \in Nat /\ FirstPage \in Nat
    BY InvFacts, NumFacts DEF Sound
  <2> QED BY <2>1
<1> DEFINE n == vm.next
           d == vm.dir
<1>1. Sound(vm, pages \cup others)
  BY InvFacts
<1>2. /\ vm \in VM /\ d + 2 <= PageEntries
      /\ n >= FirstPage \/ n <= d + 2
      /\ \A r \in pages : r \in Pages /\ Rank(r) < Rank(n)
  BY <1>1 DEF Sound
<1>3. d \in Nat /\ n \in Nat /\ n < NumPages /\ p \in Nat /\ q \in Nat
  <2>1. d \in Nat /\ n \in Nat /\ n < NumPages
    BY <1>2, DirPage
  <2>2. p \in Pages /\ q \in Pages
    BY <1>2
  <2> QED BY <2>1, <2>2, NumFacts
<1>4. Rank(p) < Rank(n)
  BY <1>2
<1> HIDE DEF n, d
<1>5. n <= d + 2 /\ n < FirstPage /\ p < n
  BY <1>2, <1>3, <1>4, NumFacts DEF Rank
<1>6. d + 2 \in p .. q
  BY <1>2, <1>3, <1>5, NumFacts
<1>7. Rank(d + 2) < Rank(n)
  BY <1>2, <1>6 DEF Consecutive
<1> QED BY <1>2, <1>3, <1>5, <1>7, NumFacts DEF Rank

\* heap.c: the heap keeps its types: every block lies at an address of its
\* own with a size and a used flag, and no page of the heap is also one that
\* another caller of vmm_alloc_page holds.
THEOREM TypesAreKept == Spec => []TypeOK
<1>1. HeapInv => TypeOK
  <2> SUFFICES ASSUME HeapInv PROVE TypeOK
    OBVIOUS
  <2>1. pages \subseteq Pages /\ others \subseteq Pages \ pages
    BY InvFacts DEF Sound
  <2> QED BY <2>1, InvFacts DEF TypeOK, HeapInv
<1> QED BY <1>1, InvAlways, PTL

\* heap.c: whatever kmalloc, kfree and krealloc split and merge, the sizes of
\* the blocks and their headers add up to get_heap_size.
THEOREM BytesAreAccounted == Spec => []Accounted
<1>1. HeapInv => Accounted
  BY InvFacts DEF Accounted, Bytes, Sized
<1> QED BY <1>1, InvAlways, PTL

\* heap.c: no two blocks of the list overlap, also when next_virt has passed
\* the top of the address space, and heap_end is the last of them.
THEOREM ListIsWhole == Spec => []ListWhole
<1>1. HeapInv => ListWhole
  <2> SUFFICES ASSUME HeapInv PROVE ListWhole
    OBVIOUS
  <2>1. Top(vm) \in Nat /\ Top(vm) < Base + AddressSpace /\ Listed(blocks, Top(vm))
    BY InvFacts, TopFacts
  <2>2. ASSUME NEW i \in DOMAIN blocks, NEW j \in DOMAIN blocks, i # j
        PROVE  End(blocks[i]) <= blocks[j].addr \/ End(blocks[j]) <= blocks[i].addr
    <3> DEFINE top == Top(vm)
    <3> HIDE DEF top
    <3>1. top \in Nat /\ top < Base + AddressSpace /\ Listed(blocks, top)
      BY <2>1 DEF top
    <3> QED BY <2>2, <3>1, ListedApart
  <2> QED BY <2>2, InvFacts DEF ListWhole
<1> QED BY <1>1, InvAlways, PTL

\* heap.c: every pointer that kmalloc or krealloc gave out and kfree did not
\* take back is aligned and has the bytes it was asked for.
THEOREM PointersAreBacked == Spec => []HeldBacked
<1>1. HeapInv => HeldBacked
  BY InvFacts DEF HeldBacked, HeldIn, Holds
<1> QED BY <1>1, InvAlways, PTL

\* heap.c: a used block is one a caller can still free, or a whole page that
\* heap_expand linked without setting its used flag.
THEOREM UsedBlocksAreHeld == Spec => []UsedIsHeld
<1>1. HeapInv => UsedIsHeld
  <2> SUFFICES ASSUME HeapInv, NEW i \in DOMAIN blocks, blocks[i].used
               PROVE  \/ blocks[i].addr + HeaderSize \in DOMAIN held
                      \/ /\ blocks[i] = PageBlock(blocks[i].addr \div PAGE_SIZE, TRUE)
                         /\ vm.entry[blocks[i].addr \div PAGE_SIZE] \in dirty
    BY DEF UsedIsHeld
  <2>1. blocks[i].addr + HeaderSize \in DOMAIN held \/ Lost(blocks[i], vm, pages, dirty)
    BY InvFacts DEF UsedIn
  <2> QED BY <2>1 DEF Lost
<1> QED BY <1>1, InvAlways, PTL

\* heap.c: split_block and merge_blocks never make a block that reaches past
\* the pages of the heap as long as these are consecutive; merge_blocks joins
\* blocks without looking at their addresses, so that only a page of someone
\* else between two of the heap's can come to lie in a block.
THEOREM OverreachNeedsGap == Spec => []OverreachOnlyAtGaps
<1>1. HeapInv => OverreachOnlyAtGaps
  <2> SUFFICES ASSUME HeapInv, Consecutive, NEW i \in DOMAIN blocks
               PROVE  Within(blocks[i])
    BY DEF OverreachOnlyAtGaps, Overreach
  <2>1. blocks \in Seq(Block) /\ InPages(blocks, pages) /\ pages \subseteq Pages
    BY InvFacts DEF Sound
  <2>2. PICK f \in pages, l \in pages : FromTo(blocks[i], f, l)
    BY <2>1 DEF InPages
  <2>3. f < FirstPage <=> l < FirstPage
    BY <2>2, OneSide
  <2>4. blocks[i] \in Block /\ f \in Pages /\ l \in Pages
    BY <2>1
  <2>5. (blocks[i].addr \div PAGE_SIZE) .. ((End(blocks[i]) - 1) \div PAGE_SIZE) \subseteq f .. l
    BY <2>2, <2>3, <2>4, FromToWithin
  <2>6. f .. l \subseteq pages
    BY DEF Consecutive
  <2> QED BY <2>5, <2>6 DEF Within
<1> QED BY <1>1, InvAlways, PTL

\* heap.c: kmalloc fails a request that fits one page only when no page can be
\* had, or when every page that heap_expand got is lost because its frame was
\* not 0; a page that is had and not lost always serves it.
THEOREM SmallRequestsAreServed == Spec => []SmallRequestServed
<1>1. HeapInv => SmallRequestServed
  <2> SUFFICES ASSUME HeapInv, Running, NEW n \in Requests,
                      Fails(n), Rounded(n) <= PAGE_SIZE - HeaderSize
               PROVE  LET new == Result(n).pages \ pages
                      IN  \/ new = {} /\ (Cardinality(vm.free) < 2 \/ vm.next = 0)
                          \/ new # {} /\ \A p \in new : Result(n).vm.entry[p] \in dirty
    BY DEF SmallRequestServed
  <2>1. PICK size, h, g : size = Rounded(n) /\ h = Current /\ g = Result(n)
    OBVIOUS
  <2>2. size \in Nat /\ size <= PAGE_SIZE - HeaderSize
    BY <2>1, RequestSize
  <2>3. Heap(h, others, held, dirty) /\ h.more /\ h.pages = pages /\ h.vm = vm
    BY <2>1, RunningFacts DEF Current
  <2>4. ~g.vm.faulted /\ find_free_block(g.blocks, size) = 0
    BY <2>1 DEF Fails
  <2>5. g = heap_expand(h, size + HeaderSize)
    <3>1. find_free_block(h.blocks, size) # 0 => g = h
      BY <2>1 DEF Result, Searched
    <3>2. g = heap_expand(h, size32(size + HeaderSize))
      BY <2>1, <2>4, <3>1 DEF Result, Searched
    <3> QED BY <2>2, <3>2, OnePageAsked
  <2>6. Served(g, h, size)
    BY <2>2, <2>3, <2>5, heap_expandServed
  <2>7. ~Room(g.blocks, size)
    <3>1. Heap(g, others, held, dirty)
      BY <2>2, <2>3, <2>5, heap_expandWhole, SizeFacts
    <3>2. g.blocks \in Seq(Block)
      BY <3>1 DEF Heap, HeapRec
    <3> QED BY <2>4, <3>2, FindIs DEF Room
  <2>8. Stopped(g, h) \/ Extended(g, h, size)
    BY <2>4, <2>6 DEF Served
  <2>9. CASE Stopped(g, h)
    BY <2>1, <2>3, <2>9 DEF Stopped
  <2>10. CASE Extended(g, h, size)
    BY <2>1, <2>3, <2>7, <2>10 DEF Extended
  <2> QED BY <2>8, <2>9, <2>10
<1> QED BY <1>1, InvAlways, PTL
=============================================================================
