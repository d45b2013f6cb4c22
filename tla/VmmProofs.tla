------------------------------ MODULE VmmProofs ------------------------------
(* Proofs about modules Paging and Vmm, for every size of the page tables,  *)
(* every page to start from and every set of free frames.                   *)
EXTENDS Vmm, NatFacts, FiniteSetTheorems

(* The inductive invariant.  Until next_virt wraps (Early) every frame has  *)
(* one use, every table lies in low memory, and a page without a table or   *)
(* from next_virt on is not mapped.  After it has wrapped (Late) the next   *)
(* allocations overwrite the identity map from page 0 on; once they have    *)
(* overwritten the page of the directory itself every call faults, so that  *)
(* next_virt never comes back to FirstPage.                                 *)

Types ==
  /\ frames \in FrameSets /\ vm \in VM /\ given \subseteq Pages
  /\ vm.dir # 0 /\ vm.dir + 2 <= PageEntries
  /\ vm.table[0] # 0

Identity == \A p \in 0 .. PageEntries - 1 : vm.entry[p] = p

Unmapped ==
  \A p \in Pages : FirstPage <= p => 
    (vm.next <= p \/ vm.table[p \div PageEntries] = 0 => vm.entry[p] = 0)

Early ==
  /\ Identity
  /\ ~vm.faulted =>
       /\ FramesConserved
       /\ Unmapped
       /\ \A d \in Dirs : vm.table[d] < PageEntries

Late ==
  ~vm.faulted =>
    /\ vm.next <= vm.dir + 1
    /\ vm.dir \notin vm.free
    /\ \A p \in Pages : FirstPage <= p => vm.entry[p] # vm.dir
    /\ vm.entry[vm.dir] = vm.dir <=> vm.next <= vm.dir

VmmInv == Types /\ (~Wrapped => Early) /\ (Wrapped => Late)

-----------------------------------------------------------------------------
(* Pages, tables and frames. *)

LEMMA LowestIn ==
  ASSUME NEW S \in SUBSET Nat, S # {}
  PROVE  Lowest(S) \in S /\ \A g \in S : Lowest(S) <= g
BY NatMin DEF Lowest

LEMMA SizeFacts ==
  /\ PageEntries \in Nat \ {0} /\ DirEntries \in Nat \ {0}
  /\ PageEntries * DirEntries \in Nat
  /\ FirstPage \in Nat /\ PageEntries < FirstPage /\ FirstPage < PageEntries * DirEntries
  /\ 0 \in Dirs /\ 0 \in Pages
BY PagingAssumption DEF Pages, Dirs

\* The table of a page is one of the directory's; low memory is in the first.
LEMMA TableOf ==
  ASSUME NEW p \in Pages
  PROVE  /\ p \div PageEntries \in Dirs
         /\ p < PageEntries => p \div PageEntries = 0
<1>1. p \in Nat /\ p < PageEntries * DirEntries
  BY SizeFacts DEF Pages
<1>2. p \div PageEntries \in Dirs
  BY <1>1, DivBelow, SizeFacts DEF Dirs
<1>3. ASSUME p < PageEntries PROVE p \div PageEntries = 0
  BY <1>1, <1>3, SizeFacts
<1> QED BY <1>2, <1>3

LEMMA LowPages ==
  ASSUME NEW f \in Nat, f < PageEntries
  PROVE  f \in Pages /\ f < FirstPage
BY SizeFacts DEF Pages

LEMMA AdvanceType ==
  ASSUME NEW p \in Pages
  PROVE  /\ Advance(p) \in Pages /\ Advance(p) # p
         /\ Advance(p) = (IF p + 1 = PageEntries * DirEntries THEN 0 ELSE p + 1)
<1> DEFINE n == PageEntries * DirEntries
<1>1. n \in Nat /\ n > 1 /\ p \in 0 .. n - 1
  BY SizeFacts DEF Pages
<1> HIDE DEF n
<1>2. (p + 1) % n = IF p + 1 = n THEN 0 ELSE p + 1
  BY <1>1
<1> QED BY <1>1, <1>2 DEF Advance, Pages, n

\* Two frames below the end of the identity map can be told apart.
LEMMA TwoElements ==
  ASSUME NEW n \in Nat, NEW S \in SUBSET (1 .. n), Cardinality(S) >= 2
  PROVE  \E a, b \in S : a < b
<1>1. IsFiniteSet(S)
  <2>1. IsFiniteSet(1 .. n)
    BY FS_Interval
  <2> QED BY <2>1, FS_Subset
<1>2. PICK a \in S : TRUE
  <2>1. S # {}
    BY FS_EmptySet
  <2> QED BY <2>1
<1>3. Cardinality(S \ {a}) = Cardinality(S) - 1 /\ Cardinality(S) \in Nat
  BY <1>1, FS_RemoveElement, FS_CardinalityType
<1>4. S \ {a} # {}
  BY <1>3, FS_EmptySet
<1>5. PICK b \in S : b # a
  BY <1>4
<1> QED BY <1>5

-----------------------------------------------------------------------------
(* What the functions of module Paging return. *)

LEMMA TakeFrameType ==
  ASSUME NEW v \in VM
  PROVE  /\ TakeFrame(v) \in VM
         /\ NoFrame(v) => TakeFrame(v) = [v EXCEPT !.free = @ \ {0}]
         /\ ~NoFrame(v) => /\ TakeFrame(v) = [v EXCEPT !.free = @ \ {Frame(v)}]
                           /\ Frame(v) \in v.free /\ Frame(v) \in Nat \ {0}
                           /\ 0 \notin v.free /\ \A g \in v.free : Frame(v) <= g
<1>1. v.free \in SUBSET Nat
  BY DEF VM
<1>2. CASE v.free = {}
  <2>1. TakeFrame(v) = [v EXCEPT !.free = {}]
    BY <1>2 DEF TakeFrame
  <2> QED BY <1>2, <2>1 DEF NoFrame, VM
<1>3. CASE v.free # {}
  <2>1. Lowest(v.free) \in v.free /\ \A g \in v.free : Lowest(v.free) <= g
    BY <1>1, <1>3, LowestIn
  <2>2. TakeFrame(v) = [v EXCEPT !.free = @ \ {Lowest(v.free)}]
    BY <1>3 DEF TakeFrame
  <2> QED BY <1>1, <1>3, <2>1, <2>2 DEF NoFrame, Frame, VM
<1> QED BY <1>2, <1>3

\* vmm_map_page either faults, or fails for want of a frame for a table, or
\* maps the page, in a table that is there or in a new one.
Unreachable(v, page) ==
  LET t == v.table[page \div PageEntries]
  IN  \/ ~Reachable(v, v.dir)
      \/ t # 0 /\ ~Reachable(v, t)
      \/ t = 0 /\ ~NoFrame(v) /\ ~Reachable(v, Frame(v))

MapOutcome(v, page, frame, m) ==
  LET d == page \div PageEntries
  IN  \/ Unreachable(v, page) /\ m.ok /\ m.vm \in {Fault(v), Fault(TakeFrame(v))}
      \/ v.table[d] = 0 /\ NoFrame(v) /\ ~m.ok /\ m.vm = TakeFrame(v)
      \/ /\ v.table[d] = 0 /\ ~NoFrame(v) /\ Reachable(v, Frame(v)) /\ m.ok
         /\ m.vm = [TakeFrame(v) EXCEPT !.table[d] = Frame(v), !.entry[page] = frame]
      \/ /\ v.table[d] # 0 /\ Reachable(v, v.dir) /\ m.ok
         /\ m.vm = [v EXCEPT !.entry[page] = frame]

LEMMA MapCases ==
  ASSUME NEW v \in VM, ~v.faulted, NEW page \in Pages, NEW frame \in Nat
  PROVE  MapOutcome(v, page, frame, vmm_map_page(v, page, frame))
<1> DEFINE m == vmm_map_page(v, page, frame)
           d == page \div PageEntries
<1> USE DEF MapOutcome
<1>1. d \in Dirs
  BY TableOf
<1>2. CASE ~Reachable(v, v.dir)
  BY <1>2 DEF vmm_map_page, Unreachable
<1>3. CASE Reachable(v, v.dir) /\ v.table[d] = 0 /\ NoFrame(v)
  BY <1>3 DEF vmm_map_page
<1>4. CASE Reachable(v, v.dir) /\ v.table[d] = 0 /\ ~NoFrame(v)
  <2> DEFINE made == NewTable(v, d)
  <2>1. m = [ok |-> TRUE, vm |-> IF made.faulted THEN made ELSE SetEntry(made, page, frame)]
    BY <1>4 DEF vmm_map_page
  <2>2. CASE ~Reachable(v, Frame(v))
    <3>1. made = Fault(TakeFrame(v)) /\ made.faulted
      BY <2>2 DEF NewTable, Fault, TakeFrame, VM
    <3> QED BY <1>4, <2>1, <2>2, <3>1 DEF Unreachable
  <2>3. CASE Reachable(v, Frame(v))
    <3>1. made = [TakeFrame(v) EXCEPT !.table[d] = Frame(v)]
      BY <2>3 DEF NewTable
    <3>2. /\ ~made.faulted /\ made.entry = v.entry /\ made.dir = v.dir
          /\ made.table[d] = Frame(v)
      BY <1>1, <3>1 DEF TakeFrame, VM
    <3>3. Walkable(made, page)
      BY <1>4, <2>3, <3>2 DEF Walkable, Reachable
    <3>4. m = [ok |-> TRUE, vm |-> [made EXCEPT !.entry[page] = frame]]
      BY <2>1, <3>2, <3>3 DEF SetEntry
    <3>5. m.ok /\ m.vm = [TakeFrame(v) EXCEPT !.table[d] = Frame(v), !.entry[page] = frame]
      <4> HIDE DEF m
      <4>1. TakeFrame(v) \in VM
        BY TakeFrameType
      <4> QED BY <1>1, <3>1, <3>4, <4>1 DEF VM
    <3> QED BY <1>4, <2>3, <3>5
  <2> QED BY <2>2, <2>3
<1>5. CASE Reachable(v, v.dir) /\ v.table[d] # 0
  <2>1. m = [ok |-> TRUE, vm |-> SetEntry(v, page, frame)]
    BY <1>5 DEF vmm_map_page
  <2> QED BY <1>5, <2>1 DEF SetEntry, Walkable, Unreachable
<1> QED BY <1>2, <1>3, <1>4, <1>5

\* vmm_alloc_page has no frame; or it has one, and faults, or has none left
\* for a table and gives it back, or maps it with or without a new table.
Started(v) == [v EXCEPT !.free = @ \ {Frame(v)}, !.next = Advance(@)]

AllocOutcome(v, r) ==
  LET f    == Frame(v)
      rest == v.free \ {f}
      d    == v.next \div PageEntries
  IN  \/ NoFrame(v) /\ r = [page |-> 0, vm |-> [v EXCEPT !.free = @ \ {0}]]
      \/ /\ ~NoFrame(v) /\ f \in v.free /\ f \in Nat \ {0} /\ 0 \notin v.free
         /\ \A g \in v.free : f <= g
         /\ \/ /\ Unreachable(Started(v), v.next)
               /\ r.page = v.next /\ r.vm \in {Fault(Started(v)), Fault(TakeFrame(Started(v)))}
            \/ v.table[d] = 0 /\ rest = {} /\ r = [page |-> 0, vm |-> [v EXCEPT !.next = Advance(@)]]
            \/ /\ v.table[d] = 0 /\ Lowest(rest) \in rest /\ Reachable(v, Lowest(rest))
               /\ r = [page |-> v.next,
                       vm |-> [v EXCEPT !.free = rest \ {Lowest(rest)}, !.next = Advance(@),
                                        !.table[d] = Lowest(rest), !.entry[v.next] = f]]
            \/ /\ v.table[d] # 0 /\ Reachable(v, v.dir)
               /\ r = [page |-> v.next,
                       vm |-> [v EXCEPT !.free = rest, !.next = Advance(@), !.entry[v.next] = f]]

LEMMA AllocCases ==
  ASSUME NEW v \in VM, ~v.faulted
  PROVE  AllocOutcome(v, AllocPage(v))
<1> DEFINE r == AllocPage(v)
           f == Frame(v)
           rest == v.free \ {f}
           d == v.next \div PageEntries
<1> USE DEF AllocOutcome
<1>1. CASE NoFrame(v)
  BY <1>1, TakeFrameType DEF AllocPage
<1>2. CASE ~NoFrame(v)
  <2> DEFINE w == Started(v)
             m == vmm_map_page(w, v.next, f)
  <2>1. /\ f \in v.free /\ f \in Nat \ {0} /\ 0 \notin v.free /\ \A g \in v.free : f <= g
        /\ TakeFrame(v) = [v EXCEPT !.free = @ \ {f}]
    BY <1>2, TakeFrameType
  <2>2. v.next \in Pages /\ Advance(v.next) \in Pages
    BY AdvanceType DEF VM
  <2>3. [TakeFrame(v) EXCEPT !.next = Advance(@)] = w
    BY <2>1, <2>2 DEF VM, Started
  <2>4. r = IF m.ok THEN [page |-> v.next, vm |-> m.vm]
                    ELSE [page |-> 0, vm |-> GiveBack(m.vm, f)]
    BY <1>2, <2>3 DEF AllocPage
  <2>5. /\ w \in VM /\ ~w.faulted /\ w.free = rest /\ w.table = v.table /\ w.entry = v.entry
        /\ w.dir = v.dir /\ w.next = Advance(v.next)
    BY <2>2 DEF VM, Started
  <2>6. NoFrame(w) <=> rest = {}
    BY <2>1, <2>5, LowestIn DEF NoFrame, VM
  <2>7. /\ ~NoFrame(w) => Lowest(rest) \in rest /\ TakeFrame(w) = [w EXCEPT !.free = @ \ {Lowest(rest)}]
        /\ NoFrame(w) => TakeFrame(w) = [w EXCEPT !.free = {}]
    BY <2>5, <2>6, TakeFrameType DEF Frame
  <2> HIDE DEF w
  <2>8. \/ Unreachable(w, v.next) /\ m.ok /\ m.vm \in {Fault(w), Fault(TakeFrame(w))}
        \/ w.table[d] = 0 /\ NoFrame(w) /\ ~m.ok /\ m.vm = TakeFrame(w)
        \/ /\ w.table[d] = 0 /\ ~NoFrame(w) /\ Reachable(w, Frame(w)) /\ m.ok
           /\ m.vm = [TakeFrame(w) EXCEPT !.table[d] = Frame(w), !.entry[v.next] = f]
        \/ /\ w.table[d] # 0 /\ Reachable(w, w.dir) /\ m.ok
           /\ m.vm = [w EXCEPT !.entry[v.next] = f]
    <3>1. MapOutcome(w, v.next, f, m)
      BY <2>1, <2>2, <2>5, MapCases
    <3> HIDE DEF m
    <3> QED BY <3>1 DEF MapOutcome
  <2> HIDE DEF m
  <2>9. CASE Unreachable(w, v.next) /\ m.ok /\ m.vm \in {Fault(w), Fault(TakeFrame(w))}
    BY <1>2, <2>1, <2>4, <2>9 DEF w
  <2>10. CASE w.table[d] = 0 /\ NoFrame(w) /\ ~m.ok /\ m.vm = TakeFrame(w)
    <3>1. v.free = {f}
      BY <2>1, <2>6, <2>10
    <3>2. GiveBack(m.vm, f) = [v EXCEPT !.next = Advance(@)]
      BY <2>7, <2>10, <3>1, <2>2 DEF GiveBack, pmm_free_page, w, Started, VM
    <3>3. rest = {} /\ ~m.ok
      BY <2>10, <3>1
    <3> QED BY <1>2, <2>1, <2>4, <2>5, <2>10, <3>2, <3>3
  <2>11. CASE /\ w.table[d] = 0 /\ ~NoFrame(w) /\ Reachable(w, Frame(w)) /\ m.ok
              /\ m.vm = [TakeFrame(w) EXCEPT !.table[d] = Frame(w), !.entry[v.next] = f]
    <3>1. Frame(w) = Lowest(rest)
      BY <2>5 DEF Frame
    <3>2. m.vm = [v EXCEPT !.free = rest \ {Lowest(rest)}, !.next = Advance(@),
                           !.table[d] = Lowest(rest), !.entry[v.next] = f]
      <4>1. m.vm = [[w EXCEPT !.free = @ \ {Lowest(rest)}]
                       EXCEPT !.table[d] = Lowest(rest), !.entry[v.next] = f]
        BY <2>7, <2>11, <3>1
      <4> QED BY <2>2, <4>1 DEF w, Started, VM
    <3> QED BY <1>2, <2>1, <2>4, <2>5, <2>7, <2>11, <3>1, <3>2 DEF Reachable
  <2>12. CASE /\ w.table[d] # 0 /\ Reachable(w, w.dir) /\ m.ok
              /\ m.vm = [w EXCEPT !.entry[v.next] = f]
    <3>1. m.vm = [v EXCEPT !.free = rest, !.next = Advance(@), !.entry[v.next] = f]
      BY <2>2, <2>12 DEF w, Started, VM
    <3> QED BY <1>2, <2>1, <2>4, <2>5, <2>12, <3>1 DEF Reachable
  <2> QED BY <2>8, <2>9, <2>10, <2>11, <2>12
<1> QED BY <1>1, <1>2

\* vmm_free_page faults, or leaves a page without a table alone, or clears
\* the entry and gives its frame to pmm.c.
FreeOutcome(v, page, w) ==
  LET t == v.table[page \div PageEntries]
  IN  \/ t = 0 /\ w = v
      \/ w = Fault(v) /\ (~Reachable(v, v.dir) \/ (t # 0 /\ ~Reachable(v, t)))
      \/ w = [v EXCEPT !.free = @ \cup {v.entry[page]}, !.entry[page] = 0]

LEMMA FreeCases ==
  ASSUME NEW v \in VM, NEW page \in Pages
  PROVE  FreeOutcome(v, page, FreePage(v, page))
BY DEF FreeOutcome, FreePage, Walkable, Cleared, pmm_free_page, VM

-----------------------------------------------------------------------------
(* The invariant holds initially. *)

LEMMA BootedFacts ==
  ASSUME NEW F \in FrameSets, NEW dir, dir = Lowest(F), NEW kpd, kpd = Lowest(F \ {dir})
  PROVE  /\ F \subseteq Nat /\ 0 \notin F
         /\ dir \in F /\ kpd \in F /\ dir # kpd /\ dir # 0 /\ kpd < PageEntries
         /\ dir + 2 <= PageEntries
<1>1. F \in SUBSET Nat /\ 0 \notin F /\ Cardinality(F \cap 1 .. PageEntries - 1) >= 2
  BY PagingAssumption
<1>2. PICK a, b \in F \cap 1 .. PageEntries - 1 : a < b
  <2>1. PageEntries - 1 \in Nat /\ F \cap 1 .. PageEntries - 1 \in SUBSET (1 .. PageEntries - 1)
    BY SizeFacts
  <2> QED BY <1>1, <2>1, TwoElements
<1>3. dir \in F /\ \A g \in F : dir <= g
  BY <1>1, <1>2, LowestIn
<1>4. F \ {dir} \in SUBSET Nat /\ F \ {dir} # {}
  <2>1. a # b /\ a \in F /\ b \in F
    BY <1>2, SizeFacts
  <2>2. a \in F \ {dir} \/ b \in F \ {dir}
    BY <2>1
  <2> QED BY <1>1, <2>2
<1>5. kpd \in F \ {dir} /\ \A g \in F \ {dir} : kpd <= g
  BY <1>4, LowestIn
<1>6. a \in Nat /\ b \in Nat /\ b < PageEntries /\ a \in F /\ b \in F
  BY SizeFacts
<1>7. dir \in Nat /\ kpd \in Nat /\ dir < b /\ kpd <= b
  BY <1>1, <1>2, <1>3, <1>5, <1>6
<1> QED BY <1>1, <1>3, <1>5, <1>6, <1>7, SizeFacts

LEMMA InitInv == Init => VmmInv
<1> SUFFICES ASSUME Init PROVE VmmInv
  OBVIOUS
<1> DEFINE dir == Lowest(frames)
           kpd == Lowest(frames \ {dir})
<1>1. frames \in FrameSets /\ vm = Booted(frames) /\ given = {}
  BY DEF Init
<1>2. /\ frames \subseteq Nat /\ 0 \notin frames
      /\ dir \in frames /\ kpd \in frames /\ dir # kpd /\ dir # 0 /\ kpd < PageEntries
      /\ dir + 2 <= PageEntries
  BY <1>1, BootedFacts
<1>3. /\ vm.free = frames \ {dir, kpd} /\ vm.dir = dir /\ vm.next = FirstPage /\ vm.faulted = FALSE
      /\ vm.table = [d \in Dirs |-> IF d = 0 THEN kpd ELSE 0]
      /\ vm.entry = [p \in Pages |-> IF p < PageEntries THEN p ELSE 0]
  BY <1>1 DEF Booted
<1>4. vm \in VM
  <2>1. \A p \in Pages : p \in Nat
    BY DEF Pages
  <2> HIDE DEF dir, kpd
  <2>2. vm = [free |-> vm.free, dir |-> vm.dir, table |-> vm.table, entry |-> vm.entry,
              next |-> vm.next, faulted |-> vm.faulted]
    BY <1>1 DEF Booted
  <2>3. FirstPage \in Pages
    BY PagingAssumption
  <2>4. vm.free \in SUBSET Nat /\ vm.dir \in Nat /\ vm.next \in Pages /\ vm.faulted \in BOOLEAN
    BY <1>2, <1>3, <2>3
  <2>5. vm.table \in [Dirs -> Nat] /\ vm.entry \in [Pages -> Nat]
    BY <1>2, <1>3, <2>1
  <2> QED BY <2>2, <2>4, <2>5 DEF VM
<1> HIDE DEF dir, kpd
<1>5. Types
  BY <1>1, <1>2, <1>3, <1>4, SizeFacts DEF Types
<1>6. Tables = {0} /\ Mapped = {} /\ vm.table[0] = kpd
  BY <1>2, <1>3, SizeFacts DEF Tables, Mapped, Pages
<1>7. Early
  <2>1. Identity
    BY <1>3, LowPages, SizeFacts DEF Identity
  <2>2. FramesConserved
    BY <1>1, <1>2, <1>3, <1>6 DEF FramesConserved
  <2>3. Unmapped /\ \A d \in Dirs : vm.table[d] < PageEntries
    BY <1>2, <1>3, SizeFacts DEF Unmapped, Pages
  <2> QED BY <2>1, <2>2, <2>3 DEF Early
<1> QED BY <1>3, <1>5, <1>7, SizeFacts DEF VmmInv, Wrapped

-----------------------------------------------------------------------------
(* The invariant is kept. *)

\* What Early says of a machine that runs.
Conserved ==
  /\ given = Mapped
  /\ frames = (vm.free \ {0}) \cup {vm.dir} \cup {vm.table[d] : d \in Tables}
                              \cup {vm.entry[p] : p \in Mapped}
  /\ \A d, e \in Tables : vm.table[d] = vm.table[e] => d = e
  /\ \A p, q \in Mapped : vm.entry[p] = vm.entry[q] => p = q
  /\ \A d \in Tables, p \in Mapped : vm.table[d] # vm.entry[p]
  /\ vm.dir \notin vm.free /\ \A d \in Tables : vm.table[d] \notin vm.free \cup {vm.dir}
  /\ \A p \in Mapped : vm.entry[p] \notin vm.free \cup {vm.dir}

Whole == Identity /\ Conserved /\ Unmapped /\ \A d \in Dirs : vm.table[d] < PageEntries

LEMMA EarlyWhole ==
  ASSUME Types, ~Wrapped, ~vm.faulted
  PROVE  Early <=> Whole
BY DEF Early, Whole, FramesConserved, Conserved

\* Before the wrap nothing a page table walk touches is out of reach.
LEMMA NothingUnreachable ==
  ASSUME Types, Whole
  PROVE  Reachable(vm, vm.dir) /\ \A d \in Dirs : Reachable(vm, vm.table[d])
<1>1. vm.dir \in Nat /\ \A d \in Dirs : vm.table[d] \in Nat
  BY DEF Types, VM
<1>2. vm.dir < PageEntries
  BY <1>1, SizeFacts DEF Types
<1>3. \A f \in Nat : f < PageEntries => vm.entry[f] = f
  BY SizeFacts DEF Whole, Identity
<1> QED BY <1>1, <1>2, <1>3 DEF Whole, Reachable

\* The state in which next_virt has just wrapped.
LEMMA WrapsToLate ==
  ASSUME Types, Whole, ~Wrapped, vm' \in VM, vm'.next = 0, vm'.dir = vm.dir,
         vm'.free \subseteq vm.free,
         \A p \in Pages : vm'.entry[p] = vm.entry[p] \/ (FirstPage <= p /\ vm'.entry[p] \in vm.free)
  PROVE  Late'
<1>1. vm.dir \in Nat /\ vm.dir < PageEntries /\ vm.dir \in Pages /\ vm.dir < FirstPage
  BY LowPages, SizeFacts DEF Types, VM
<1>2. vm.dir \notin vm.free /\ vm.dir # 0
  BY DEF Types, Whole, Conserved
<1>3. ASSUME NEW p \in Pages, FirstPage <= p PROVE vm'.entry[p] # vm.dir
  BY <1>2, <1>3 DEF Whole, Conserved, Mapped
<1>4. vm'.entry[vm.dir] = vm.dir
  BY <1>1, SizeFacts DEF Whole, Identity
<1> QED BY <1>1, <1>2, <1>3, <1>4 DEF Late

\* A page is mapped to a free frame, in a table that may be new.
Maps(f, taken) ==
  LET d == vm.next \div PageEntries
  IN  /\ f \in vm.free /\ f # 0 /\ taken \subseteq vm.free /\ f \in taken /\ 0 \notin vm.free
      /\ vm'.free = vm.free \ taken /\ vm'.dir = vm.dir /\ vm'.next = vm.next + 1
      /\ vm'.entry = [vm.entry EXCEPT ![vm.next] = f]
      /\ \/ vm.table[d] # 0 /\ vm'.table = vm.table /\ taken = {f}
         \/ \E t \in taken \ {f} : /\ vm.table[d] = 0 /\ t < PageEntries /\ taken = {f, t}
                                   /\ vm'.table = [vm.table EXCEPT ![d] = t]
      /\ given' = given \cup {vm.next} /\ frames' = frames

LEMMA MapKeeps ==
  ASSUME Types, Whole, ~Wrapped, vm' \in VM, ~Wrapped', NEW f, NEW taken, Maps(f, taken)
  PROVE  Whole'
<1> DEFINE d == vm.next \div PageEntries
<1>0. /\ f \in vm.free /\ f # 0 /\ taken \in SUBSET vm.free /\ f \in taken /\ 0 \notin vm.free
      /\ vm'.free = vm.free \ taken /\ vm'.dir = vm.dir /\ vm'.next = vm.next + 1
      /\ vm'.entry = [vm.entry EXCEPT ![vm.next] = f]
      /\ \/ vm.table[d] # 0 /\ vm'.table = vm.table /\ taken = {f}
         \/ \E t \in taken \ {f} : /\ vm.table[d] = 0 /\ t < PageEntries /\ taken = {f, t}
                                   /\ vm'.table = [vm.table EXCEPT ![d] = t]
      /\ given' = given \cup {vm.next} /\ frames' = frames
  BY DEF Maps
<1> USE <1>0
<1>0a. d = vm.next \div PageEntries
  OBVIOUS
<1> HIDE DEF d
<1> USE <1>0a
<1> DEFINE n == vm.next
<1>1. /\ n \in Pages /\ n \in Nat /\ FirstPage <= n /\ FirstPage \in Nat /\ d \in Dirs
      /\ vm.free \subseteq Nat /\ vm.table \in [Dirs -> Nat] /\ vm.entry \in [Pages -> Nat]
  <2>1. n \in Pages
    BY DEF Types, VM
  <2>2. n \in Nat /\ d \in Dirs
    BY <2>1, TableOf DEF Pages
  <2> QED BY <2>1, <2>2, SizeFacts DEF Types, VM, Wrapped
<1>2. vm.entry[n] = 0 /\ n \notin Mapped
  BY <1>1 DEF Whole, Unmapped, Mapped
<1>3. Mapped' = Mapped \cup {n} /\ \A p \in Mapped : vm'.entry[p] = vm.entry[p]
  BY <1>1, <1>2 DEF Mapped
<1>4. Identity'
  <2>1. \A p \in 0 .. PageEntries - 1 : p # n /\ p \in Pages
    BY <1>1, LowPages, SizeFacts
  <2> QED BY <1>1, <2>1 DEF Whole, Identity
<1>5. Unmapped'
  <2> SUFFICES ASSUME NEW p \in Pages, FirstPage <= p,
                      vm'.next <= p \/ vm'.table[p \div PageEntries] = 0
               PROVE  vm'.entry[p] = 0
    BY DEF Unmapped
  <2>1. p \in Nat /\ p \div PageEntries \in Dirs
    BY TableOf DEF Pages
  <2>2. vm'.table[d] # 0
    BY <1>1
  <2>3. p # n
    BY <1>1, <2>1, <2>2
  <2>4. vm.next <= p \/ vm.table[p \div PageEntries] = 0
    <3> DEFINE q == p \div PageEntries
    <3>1. vm'.table[q] = 0 => q # d
      BY <2>2
    <3> HIDE DEF q
    <3>2. q # d => vm'.table[q] = vm.table[q]
      BY <1>1, <2>1 DEF q
    <3>3. vm'.next <= p => vm.next <= p
      BY <1>1, <2>1
    <3> QED BY <3>1, <3>2, <3>3 DEF q
  <2> QED BY <1>1, <2>3, <2>4 DEF Whole, Unmapped
<1>6. \A e \in Dirs : vm'.table[e] < PageEntries
  BY <1>1 DEF Whole
<1>7. \A e \in Dirs : vm'.table[e] = vm.table[e] \/ (e = d /\ vm.table[d] = 0 /\ vm'.table[e] \in taken \ {f})
  BY <1>1
<1>8. {vm'.entry[p] : p \in Mapped'} = {vm.entry[p] : p \in Mapped} \cup {f}
  BY <1>1, <1>3
<1>9. {vm'.table[e] : e \in Tables'} = {vm.table[e] : e \in Tables} \cup (taken \ {f})
  <2>1. CASE vm.table[d] # 0 /\ vm'.table = vm.table /\ taken = {f}
    BY <2>1 DEF Tables
  <2>2. ASSUME NEW t \in taken \ {f}, vm.table[d] = 0, taken = {f, t}, vm'.table = [vm.table EXCEPT ![d] = t]
        PROVE  {vm'.table[e] : e \in Tables'} = {vm.table[e] : e \in Tables} \cup {t}
    <3>1. t # 0
      OBVIOUS
    <3>2. Tables' = Tables \cup {d} /\ d \notin Tables
      BY <1>1, <2>2, <3>1 DEF Tables
    <3>3. \A e \in Tables : vm'.table[e] = vm.table[e]
      BY <1>1, <2>2, <3>2 DEF Tables
    <3> QED BY <1>1, <2>2, <3>2, <3>3
  <2> QED BY <2>1, <2>2
<1>10. Conserved'
  <2>1. given' = Mapped'
    BY <1>3 DEF Whole, Conserved
  <2>2. frames' = (vm'.free \ {0}) \cup {vm'.dir} \cup {vm'.table[e] : e \in Tables'}
                                   \cup {vm'.entry[p] : p \in Mapped'}
    BY <1>8, <1>9 DEF Whole, Conserved
  <2>3. \A e \in Tables : vm.table[e] \notin vm.free
    BY DEF Whole, Conserved
  <2>4. \A p \in Mapped : vm.entry[p] \notin vm.free
    BY DEF Whole, Conserved
  <2>5. \A a, b \in Tables' : vm'.table[a] = vm'.table[b] => a = b
    BY <1>7, <2>3 DEF Whole, Conserved, Tables
  <2>6. vm'.entry[n] = f
    BY <1>1
  <2>7. \A p, q \in Mapped' : vm'.entry[p] = vm'.entry[q] => p = q
    BY <1>3, <2>4, <2>6 DEF Whole, Conserved
  <2>8. \A e \in Tables', p \in Mapped' : vm'.table[e] # vm'.entry[p]
    <3>1. ASSUME NEW e \in Tables', NEW p \in Mapped', vm'.table[e] = vm'.entry[p] PROVE FALSE
      <4>1. e \in Dirs /\ (vm'.table[e] = vm.table[e] => e \in Tables)
        BY DEF Tables
      <4>2. vm'.entry[p] = f \/ (p \in Mapped /\ vm'.entry[p] = vm.entry[p])
        BY <1>3, <2>6
      <4> QED BY <1>7, <2>3, <2>4, <3>1, <4>1, <4>2 DEF Whole, Conserved
    <3> QED BY <3>1
  <2>9. vm'.dir \notin vm'.free
    BY DEF Whole, Conserved
  <2>10. \A e \in Tables' : vm'.table[e] \notin vm'.free \cup {vm'.dir}
    BY <1>7, <2>3 DEF Whole, Conserved, Tables
  <2>11. \A p \in Mapped' : vm'.entry[p] \notin vm'.free \cup {vm'.dir}
    BY <1>3, <2>4, <2>6 DEF Whole, Conserved
  <2> QED BY <2>1, <2>2, <2>5, <2>7, <2>8, <2>9, <2>10, <2>11 DEF Conserved
<1> QED BY <1>4, <1>5, <1>6, <1>10 DEF Whole

LEMMA AllocTypes ==
  ASSUME NEW v \in VM, ~v.faulted, v.table[0] # 0
  PROVE  LET r == AllocPage(v)
         IN  r.vm \in VM /\ r.page \in Pages /\ r.vm.dir = v.dir /\ r.vm.table[0] # 0
<1> DEFINE r == AllocPage(v)
           f == Frame(v)
           rest == v.free \ {f}
           d == v.next \div PageEntries
<1> SUFFICES r.vm \in VM /\ r.page \in Pages /\ r.vm.dir = v.dir /\ r.vm.table[0] # 0
  OBVIOUS
<1>1. v.next \in Pages /\ d \in Dirs /\ Advance(v.next) \in Pages /\ v.next \in Nat /\ 0 \in Dirs
  <2>1. v.next \in Pages
    BY DEF VM
  <2>2. v.next \in Nat
    BY <2>1 DEF Pages
  <2> QED BY <2>1, <2>2, TableOf, AdvanceType, SizeFacts
<1>2. 0 \in Pages /\ v.free \subseteq Nat
  BY SizeFacts DEF VM
<1>3. AllocOutcome(v, r)
  BY AllocCases
<1> HIDE DEF r, f, rest
<1>4. CASE NoFrame(v) /\ r = [page |-> 0, vm |-> [v EXCEPT !.free = @ \ {0}]]
  BY <1>2, <1>4 DEF VM
<1>5. CASE r.page = v.next /\ r.vm \in {Fault(Started(v)), Fault(TakeFrame(Started(v)))}
  <2>1. Started(v) \in VM /\ Started(v).dir = v.dir /\ Started(v).table = v.table
    BY <1>1 DEF VM, Started
  <2>2. \A w \in VM : Fault(w) \in VM /\ Fault(w).dir = w.dir /\ Fault(w).table = w.table
    BY DEF VM, Fault
  <2>3. \A w \in VM : TakeFrame(w) \in VM /\ TakeFrame(w).dir = w.dir /\ TakeFrame(w).table = w.table
    BY TakeFrameType DEF VM
  <2> QED BY <1>1, <1>5, <2>1, <2>2, <2>3
<1>6. CASE r = [page |-> 0, vm |-> [v EXCEPT !.next = Advance(@)]]
  BY <1>1, <1>2, <1>6 DEF VM
<1>7. CASE /\ ~NoFrame(v) /\ v.table[d] = 0 /\ Lowest(rest) \in rest
           /\ r = [page |-> v.next,
                   vm |-> [v EXCEPT !.free = rest \ {Lowest(rest)}, !.next = Advance(@),
                                    !.table[d] = Lowest(rest), !.entry[v.next] = f]]
  <2>1. f \in Nat /\ Lowest(rest) \in Nat /\ d # 0 /\ rest \subseteq Nat
    <3>1. f \in Nat
      BY <1>7, TakeFrameType DEF f
    <3> QED BY <1>2, <1>7, <3>1 DEF rest
  <2> QED BY <1>1, <1>7, <2>1 DEF VM
<1>8. CASE r = [page |-> v.next,
                vm |-> [v EXCEPT !.free = rest, !.next = Advance(@), !.entry[v.next] = f]]
           /\ f \in Nat
  BY <1>1, <1>2, <1>8 DEF VM, rest
<1>9. NoFrame(v) \/ f \in Nat
  BY TakeFrameType DEF f
<1> QED BY <1>3, <1>4, <1>5, <1>6, <1>7, <1>8, <1>9 DEF AllocOutcome, f, rest

LEMMA EarlyAlloc ==
  ASSUME Types, Types', ~Wrapped, ~vm.faulted, Whole, vmm_alloc_page
  PROVE  (~Wrapped' => Early') /\ (Wrapped' => Late')
<1> DEFINE r == AllocPage(vm)
           f == Frame(vm)
           rest == vm.free \ {f}
           n == vm.next
           d == vm.next \div PageEntries
<1>1. /\ vm' = r.vm /\ frames' = frames
      /\ ~r.vm.faulted => given' = given \cup ({r.page} \ {0})
  BY DEF vmm_alloc_page
<1>2. /\ vm \in VM /\ vm' \in VM /\ n \in Pages /\ n \in Nat /\ FirstPage <= n /\ FirstPage \in Nat /\ n # 0
      /\ d \in Dirs /\ vm.free \subseteq Nat
  <2>1. vm \in VM /\ vm' \in VM /\ n \in Pages
    BY DEF Types, VM
  <2>2. n \in Nat /\ d \in Dirs /\ vm.free \subseteq Nat
    BY <2>1, TableOf DEF Pages, VM
  <2> QED BY <2>1, <2>2, SizeFacts DEF Wrapped
<1>3. Advance(n) = 0 \/ (Advance(n) = n + 1 /\ FirstPage <= n + 1)
  BY <1>2, AdvanceType
<1>4. AllocOutcome(vm, r)
  BY <1>2, AllocCases
<1>5. ~vm'.faulted /\ ~Wrapped' => (Whole' => Early')
  BY DEF Early, Whole, FramesConserved, Conserved
<1> HIDE DEF r, rest
<1>6. CASE NoFrame(vm) /\ r = [page |-> 0, vm |-> [vm EXCEPT !.free = @ \ {0}]]
  <2>1. vm' = [vm EXCEPT !.free = @ \ {0}] /\ given' = given /\ ~vm'.faulted
    BY <1>1, <1>2, <1>6 DEF VM
  <2>2. Mapped' = Mapped /\ Tables' = Tables /\ ~Wrapped'
    BY <1>2, <2>1 DEF Mapped, Tables, VM, Wrapped
  <2>3. Whole'
    BY <1>1, <1>2, <2>1, <2>2 DEF Whole, Identity, Unmapped, Conserved, VM
  <2> QED BY <1>5, <2>1, <2>2, <2>3
<1>7. CASE r.vm \in {Fault(Started(vm)), Fault(TakeFrame(Started(vm)))}
  <2>1. Started(vm) \in VM /\ Started(vm).entry = vm.entry
    BY <1>2, AdvanceType DEF VM, Started
  <2>2. \A w \in VM : Fault(w).entry = w.entry /\ Fault(w).faulted
    BY DEF VM, Fault
  <2>3. \A w \in VM : TakeFrame(w) \in VM /\ TakeFrame(w).entry = w.entry
    BY TakeFrameType DEF VM
  <2>4. vm'.faulted /\ vm'.entry = vm.entry
    BY <1>1, <1>7, <2>1, <2>2, <2>3
  <2> QED BY <2>4 DEF Early, Late, Whole, Identity
<1>8. CASE r = [page |-> 0, vm |-> [vm EXCEPT !.next = Advance(@)]]
  <2>1. /\ vm' = [vm EXCEPT !.next = Advance(@)] /\ given' = given /\ ~vm'.faulted
        /\ vm'.next = Advance(n)
    BY <1>1, <1>2, <1>8 DEF VM
  <2>2. Mapped' = Mapped /\ Tables' = Tables
    BY <1>2, <2>1 DEF Mapped, Tables, VM
  <2>3. CASE Advance(n) = 0
    <3>1. vm'.next = 0 /\ vm'.dir = vm.dir /\ vm'.free = vm.free /\ vm'.entry = vm.entry
      BY <1>2, <2>1, <2>3 DEF VM
    <3>2. Late'
      BY <1>2, <3>1, WrapsToLate
    <3>3. Wrapped'
      BY <3>1, SizeFacts DEF Wrapped
    <3> QED BY <3>2, <3>3
  <2>4. CASE Advance(n) = n + 1
    <3>1. Whole'
      <4>1. Unmapped'
        BY <1>2, <2>1, <2>4 DEF Whole, Unmapped, VM, Pages
      <4> QED BY <1>1, <1>2, <2>1, <2>2, <4>1 DEF Whole, Identity, Conserved, VM
    <3>2. ~Wrapped'
      BY <1>2, <2>1, <2>4 DEF Wrapped
    <3> QED BY <1>5, <2>1, <3>1, <3>2
  <2> QED BY <1>3, <2>3, <2>4
<1>9. ASSUME f \in vm.free, f # 0, 0 \notin vm.free, r.page = n,
             NEW taken \in SUBSET vm.free, f \in taken, 
             \/ /\ vm.table[d] # 0 /\ taken = {f}
                /\ r.vm = [vm EXCEPT !.free = @ \ taken, !.next = Advance(@), !.entry[n] = f]
             \/ \E t \in taken \ {f} :
                  /\ vm.table[d] = 0 /\ Reachable(vm, t) /\ taken = {f, t}
                  /\ r.vm = [vm EXCEPT !.free = @ \ taken, !.next = Advance(@),
                                       !.table[d] = t, !.entry[n] = f]
      PROVE  (~Wrapped' => Early') /\ (Wrapped' => Late')
  <2>1. /\ vm'.free = vm.free \ taken /\ vm'.dir = vm.dir /\ vm'.next = Advance(n)
        /\ vm'.entry = [vm.entry EXCEPT ![n] = f] /\ ~vm'.faulted
    BY <1>1, <1>2, <1>9 DEF VM
  <2>2. \/ vm.table[d] # 0 /\ vm'.table = vm.table /\ taken = {f}
        \/ \E t \in taken \ {f} : /\ vm.table[d] = 0 /\ t < PageEntries /\ taken = {f, t}
                                  /\ vm'.table = [vm.table EXCEPT ![d] = t]
    BY <1>1, <1>2, <1>9 DEF VM, Reachable
  <2>3. given' = given \cup {n}
    BY <1>1, <1>2, <1>9, <2>1
  <2>4. CASE Advance(n) = 0
    <3>1. \A p \in Pages : vm'.entry[p] = vm.entry[p] \/ (FirstPage <= p /\ vm'.entry[p] \in vm.free)
      BY <1>2, <1>9, <2>1 DEF VM
    <3>2. vm'.next = 0 /\ vm'.dir = vm.dir /\ vm'.free \subseteq vm.free
      BY <2>1, <2>4
    <3>3. Late'
      BY <1>2, <3>1, <3>2, WrapsToLate
    <3>4. Wrapped'
      BY <3>2, SizeFacts DEF Wrapped
    <3> QED BY <3>3, <3>4
  <2>5. CASE Advance(n) = n + 1 /\ FirstPage <= n + 1
    <3>1. ~Wrapped'
      BY <1>2, <2>1, <2>5 DEF Wrapped
    <3>2. Whole'
      <4>1. Maps(f, taken)
        BY <1>1, <1>9, <2>1, <2>2, <2>3, <2>5 DEF Maps
      <4> HIDE DEF f, d, n
      <4> QED BY <1>2, <3>1, <4>1, MapKeeps
    <3> QED BY <1>5, <2>1, <3>1, <3>2
  <2> QED BY <1>3, <2>4, <2>5
<1>10. CASE /\ ~NoFrame(vm) /\ vm.table[d] = 0 /\ Lowest(rest) \in rest /\ Reachable(vm, Lowest(rest))
            /\ r = [page |-> n, vm |-> [vm EXCEPT !.free = rest \ {Lowest(rest)}, !.next = Advance(@),
                                               !.table[d] = Lowest(rest), !.entry[n] = f]]
  <2> DEFINE taken == {f, Lowest(rest)}
  <2>1. f \in vm.free /\ f # 0 /\ 0 \notin vm.free
    BY <1>2, <1>10, TakeFrameType
  <2>2. taken \in SUBSET vm.free /\ Lowest(rest) \in taken \ {f} /\ f \in taken
    BY <1>10, <2>1 DEF rest
  <2>3. rest \ {Lowest(rest)} = vm.free \ taken
    BY DEF rest
  <2>4. /\ r.page = n
        /\ r.vm = [vm EXCEPT !.free = @ \ taken, !.next = Advance(@),
                             !.table[d] = Lowest(rest), !.entry[n] = f]
    BY <1>10, <2>3
  <2> HIDE DEF taken
  <2>5. taken = {f, Lowest(rest)}
    BY DEF taken
  <2> QED BY <1>9, <1>10, <2>1, <2>2, <2>4, <2>5
<1>11. CASE /\ ~NoFrame(vm) /\ vm.table[d] # 0
            /\ r = [page |-> n, vm |-> [vm EXCEPT !.free = rest, !.next = Advance(@), !.entry[n] = f]]
  <2>1. f \in vm.free /\ f # 0 /\ 0 \notin vm.free
    BY <1>2, <1>11, TakeFrameType
  <2>2. r.page = n /\ r.vm = [vm EXCEPT !.free = @ \ {f}, !.next = Advance(@), !.entry[n] = f]
    BY <1>11 DEF rest
  <2> QED BY <1>9, <1>11, <2>1, <2>2
<1> QED
  BY <1>4, <1>6, <1>7, <1>8, <1>10, <1>11 DEF AllocOutcome, rest

LEMMA FreeTypes ==
  ASSUME NEW v \in VM, NEW page \in Pages
  PROVE  LET w == FreePage(v, page)
         IN  w \in VM /\ w.dir = v.dir /\ w.table = v.table /\ w.next = v.next
<1> DEFINE w == FreePage(v, page)
<1> SUFFICES w \in VM /\ w.dir = v.dir /\ w.table = v.table /\ w.next = v.next
  OBVIOUS
<1>1. FreeOutcome(v, page, w)
  BY FreeCases
<1> HIDE DEF w
<1>2. v.entry[page] \in Nat /\ v.free \subseteq Nat
  BY DEF VM
<1>3. CASE w = v
  BY <1>3
<1>4. CASE w = Fault(v)
  BY <1>4 DEF Fault, VM
<1>5. CASE w = [v EXCEPT !.free = @ \cup {v.entry[page]}, !.entry[page] = 0]
  BY <1>2, <1>5 DEF VM
<1> QED BY <1>1, <1>3, <1>4, <1>5 DEF FreeOutcome

LEMMA EarlyFree ==
  ASSUME Types, ~Wrapped, ~vm.faulted, Whole, NEW page \in Issued, vmm_free_page(page)
  PROVE  ~Wrapped' /\ Early' /\ ~vm'.faulted
<1> DEFINE t == vm.table[page \div PageEntries]
           g == vm.entry[page]
<1>1. /\ vm' = FreePage(vm, page) /\ given' = given \ {page} /\ frames' = frames
      /\ vm \in VM /\ page \in Pages /\ FirstPage <= page
  BY DEF vmm_free_page, Types, Issued
<1>2. /\ page \div PageEntries \in Dirs /\ g \in Nat /\ page \in Nat
      /\ vm.free \subseteq Nat /\ vm.entry \in [Pages -> Nat] /\ vm.table \in [Dirs -> Nat]
  <2>1. page \div PageEntries \in Dirs
    BY <1>1, TableOf
  <2>2. page \in Nat
    BY <1>1 DEF Pages
  <2> QED BY <1>1, <2>1, <2>2 DEF VM
<1>3. vm' \in VM /\ vm'.dir = vm.dir /\ vm'.table = vm.table /\ vm'.next = vm.next
  BY <1>1, FreeTypes
<1>4. ~Wrapped'
  BY <1>3 DEF Wrapped
<1>5. FreeOutcome(vm, page, vm')
  BY <1>1, FreeCases
<1>6. ~vm'.faulted /\ vm' # Fault(vm)
  <2>1. Reachable(vm, vm.dir) /\ Reachable(vm, t)
    BY <1>2, NothingUnreachable
  <2>2. vm' = vm \/ vm' = [vm EXCEPT !.free = @ \cup {g}, !.entry[page] = 0]
    BY <1>5, <2>1 DEF FreeOutcome
  <2>3. ~vm'.faulted
    BY <1>1, <2>2 DEF VM
  <2>4. Fault(vm).faulted
    BY <1>1 DEF Fault, VM
  <2> QED BY <2>3, <2>4
<1>7. CASE t = 0 /\ vm' = vm
  <2>1. page \notin Mapped
    BY <1>1, <1>7 DEF Whole, Unmapped, Mapped
  <2>2. given' = given /\ Mapped' = Mapped /\ Tables' = Tables
    BY <1>1, <1>7, <2>1 DEF Whole, Conserved, Mapped, Tables
  <2>3. Whole'
    BY <1>1, <1>7, <2>2 DEF Whole, Conserved, Identity, Unmapped
  <2> QED BY <1>4, <1>7, <2>3 DEF Early, Whole, FramesConserved, Conserved
<1>8. CASE vm' = [vm EXCEPT !.free = @ \cup {g}, !.entry[page] = 0]
  <2>1. /\ vm'.free = vm.free \cup {g} /\ vm'.entry = [vm.entry EXCEPT ![page] = 0]
        /\ vm'.faulted = vm.faulted
    BY <1>1, <1>8 DEF VM
  <2>2. Mapped' = Mapped \ {page} /\ \A p \in Mapped' : vm'.entry[p] = vm.entry[p] /\ p \in Mapped
    BY <1>1, <1>2, <2>1 DEF Mapped
  <2>3. Tables' = Tables
    BY <1>3 DEF Tables
  <2>4. page \in Mapped <=> g # 0
    BY <1>1 DEF Mapped
  <2>5. Identity'
    <3>1. \A p \in 0 .. PageEntries - 1 : p # page /\ p \in Pages
      BY <1>1, <1>2, LowPages, SizeFacts
    <3> QED BY <1>2, <2>1, <3>1 DEF Whole, Identity
  <2>6. Unmapped'
    BY <1>2, <1>3, <2>1 DEF Whole, Unmapped
  <2>7. {vm.entry[p] : p \in Mapped} \ {0} = ({vm'.entry[p] : p \in Mapped'} \cup {g}) \ {0}
    <3>1. CASE g = 0
      BY <2>2, <2>4, <3>1
    <3>2. CASE g # 0
      BY <2>2, <2>4, <3>2
    <3> QED BY <3>1, <3>2
  <2>8. \A p \in Mapped : vm.entry[p] # 0
    BY DEF Mapped
  <2>9. frames' = (vm'.free \ {0}) \cup {vm'.dir} \cup {vm'.table[d] : d \in Tables'}
                                   \cup {vm'.entry[p] : p \in Mapped'}
    <3>1. {vm'.table[d] : d \in Tables'} = {vm.table[d] : d \in Tables}
      BY <1>3, <2>3
    <3>2. frames = (vm.free \ {0}) \cup {vm.dir} \cup {vm.table[d] : d \in Tables}
                                   \cup {vm.entry[p] : p \in Mapped}
      BY DEF Whole, Conserved
    <3>3. 0 \notin {vm.entry[p] : p \in Mapped} /\ 0 \notin {vm'.entry[p] : p \in Mapped'}
      BY <2>2, <2>8
    <3> HIDE DEF g
    <3> DEFINE T == {vm.table[d] : d \in Tables}
               E == {vm.entry[p] : p \in Mapped}
               F == {vm'.entry[p] : p \in Mapped'}
    <3> HIDE DEF T, E, F
    <3>4. (vm'.free \ {0}) \cup {vm.dir} \cup T \cup F = (vm.free \ {0}) \cup {vm.dir} \cup T \cup E
      BY <2>1, <2>7, <3>3 DEF E, F
    <3> QED BY <1>1, <1>3, <3>1, <3>2, <3>4 DEF T, E, F
  <2>10. Conserved'
    <3>1. given' = Mapped'
      BY <1>1, <2>2 DEF Whole, Conserved
    <3>2. \A p, q \in Mapped' : vm'.entry[p] = vm'.entry[q] => p = q
      BY <2>2 DEF Whole, Conserved
    <3>3. \A d \in Tables', p \in Mapped' : vm'.table[d] # vm'.entry[p]
      BY <1>3, <2>2, <2>3 DEF Whole, Conserved
    <3>4. g # vm.dir /\ \A d \in Tables : vm.table[d] # g
      <4>1. vm.dir # 0 /\ \A d \in Tables : vm.table[d] # 0
        BY DEF Types, Tables
      <4> QED BY <2>4, <4>1 DEF Whole, Conserved
    <3>5. vm'.dir \notin vm'.free /\ \A d \in Tables' : vm'.table[d] \notin vm'.free \cup {vm'.dir}
      BY <1>3, <2>1, <2>3, <3>4 DEF Whole, Conserved
    <3>6. \A p \in Mapped' : vm'.entry[p] \notin vm'.free \cup {vm'.dir}
      <4>1. \A p \in Mapped' : p # page /\ (vm.entry[p] = g => FALSE)
        BY <2>2, <2>4 DEF Whole, Conserved, Mapped
      <4> QED BY <1>3, <2>1, <2>2, <4>1 DEF Whole, Conserved
    <3>7. \A d, e \in Tables' : vm'.table[d] = vm'.table[e] => d = e
      BY <1>3, <2>3 DEF Whole, Conserved
    <3> QED BY <2>9, <3>1, <3>2, <3>3, <3>5, <3>6, <3>7 DEF Conserved
  <2>11. \A d \in Dirs : vm'.table[d] < PageEntries
    BY <1>3 DEF Whole
  <2> QED BY <1>4, <1>6, <2>5, <2>6, <2>10, <2>11 DEF Early, Whole, FramesConserved, Conserved
<1> QED BY <1>5, <1>6, <1>7, <1>8 DEF FreeOutcome

\* Once next_virt has wrapped it walks through low memory up to the page of
\* the directory, and the call that follows faults.
LEMMA LateAlloc ==
  ASSUME Types, Types', Wrapped, ~vm.faulted, Late, vmm_alloc_page
  PROVE  Wrapped' /\ Late'
<1> DEFINE r == AllocPage(vm)
           f == Frame(vm)
           rest == vm.free \ {f}
           n == vm.next
           d == vm.next \div PageEntries
<1>1. /\ vm' = r.vm /\ vm \in VM /\ n \in Pages /\ vm.dir \in Nat
      /\ vm.table[0] # 0 /\ vm.dir + 2 <= PageEntries
  BY DEF vmm_alloc_page, Types, VM
<1>2. /\ n \in Nat /\ n <= vm.dir + 1 /\ vm.free \subseteq Nat /\ vm.dir \notin vm.free
      /\ \A p \in Pages : FirstPage <= p => vm.entry[p] # vm.dir
      /\ vm.entry[vm.dir] = vm.dir <=> n <= vm.dir
  BY <1>1 DEF Late, Pages, VM
<1>3. n < PageEntries /\ d = 0
  <2>1. n < PageEntries
    BY <1>1, <1>2, SizeFacts
  <2> QED BY <1>1, <2>1, TableOf
<1>4. Advance(n) = n + 1 /\ n + 1 \in Pages /\ n + 1 < FirstPage
  <2>1. n + 1 < FirstPage /\ n + 1 # PageEntries * DirEntries
    BY <1>1, <1>2, SizeFacts
  <2> QED BY <1>1, <2>1, AdvanceType
<1>5. AllocOutcome(vm, r)
  BY <1>1, AllocCases
<1> HIDE DEF r
<1>6. CASE r = [page |-> 0, vm |-> [vm EXCEPT !.free = @ \ {0}]]
  <2>1. vm'.next = n /\ vm'.dir = vm.dir /\ vm'.free = vm.free \ {0} /\ vm'.entry = vm.entry
    BY <1>1, <1>6 DEF VM
  <2> QED BY <1>2, <2>1 DEF Wrapped, Late
<1>7. CASE r.vm \in {Fault(Started(vm)), Fault(TakeFrame(Started(vm)))}
  <2>1. Started(vm) \in VM /\ Started(vm).next = n + 1
    BY <1>1, <1>4 DEF VM, Started
  <2>2. \A w \in VM : Fault(w).next = w.next /\ Fault(w).faulted
    BY DEF VM, Fault
  <2>3. \A w \in VM : TakeFrame(w) \in VM /\ TakeFrame(w).next = w.next
    BY TakeFrameType DEF VM
  <2>4. vm'.faulted /\ vm'.next = n + 1
    BY <1>1, <1>7, <2>1, <2>2, <2>3
  <2> QED BY <1>4, <2>4 DEF Wrapped, Late
<1>8. CASE /\ vm.table[d] # 0 /\ Reachable(vm, vm.dir) /\ f \in vm.free
           /\ r = [page |-> n, vm |-> [vm EXCEPT !.free = rest, !.next = Advance(@), !.entry[n] = f]]
  <2>1. /\ vm'.next = n + 1 /\ vm'.dir = vm.dir /\ vm'.free = rest
        /\ vm'.entry = [vm.entry EXCEPT ![n] = f] /\ vm.entry \in [Pages -> Nat]
    BY <1>1, <1>4, <1>8 DEF VM
  <2>2. n <= vm.dir /\ vm.entry[vm.dir] = vm.dir
    BY <1>2, <1>8 DEF Reachable
  <2>3. vm.dir \in Pages
    BY <1>1, LowPages, SizeFacts
  <2>4. f # vm.dir
    BY <1>2, <1>8
  <2> HIDE DEF f, d
  <2>5. vm'.entry[vm.dir] = vm.dir <=> n + 1 <= vm.dir
    BY <1>1, <1>2, <2>1, <2>2, <2>3, <2>4
  <2>6. \A p \in Pages : FirstPage <= p => vm'.entry[p] # vm'.dir
    BY <1>2, <1>4, <2>1, SizeFacts
  <2>7. n + 1 <= vm.dir + 1
    BY <1>1, <1>2, <2>2
  <2> QED BY <1>2, <1>4, <2>1, <2>5, <2>6, <2>7 DEF Wrapped, Late
<1> QED BY <1>1, <1>3, <1>5, <1>6, <1>7, <1>8 DEF AllocOutcome

LEMMA LateFree ==
  ASSUME Types, Wrapped, ~vm.faulted, Late, NEW page \in Issued, vmm_free_page(page)
  PROVE  Wrapped' /\ Late'
<1>1. vm' = FreePage(vm, page) /\ vm \in VM /\ page \in Pages /\ FirstPage <= page
  BY DEF vmm_free_page, Types, Issued
<1>2. vm' \in VM /\ vm'.dir = vm.dir /\ vm'.next = vm.next
  BY <1>1, FreeTypes
<1>3. Wrapped'
  BY <1>2 DEF Wrapped
<1>4. FreeOutcome(vm, page, vm')
  BY <1>1, FreeCases
<1>5. CASE vm' = vm
  BY <1>3, <1>5 DEF Late
<1>6. CASE vm' = Fault(vm)
  BY <1>1, <1>3, <1>6 DEF Late, Fault, VM
<1>7. CASE vm' = [vm EXCEPT !.free = @ \cup {vm.entry[page]}, !.entry[page] = 0]
  <2>1. vm'.free = vm.free \cup {vm.entry[page]} /\ vm'.entry = [vm.entry EXCEPT ![page] = 0]
        /\ vm.entry \in [Pages -> Nat]
    BY <1>1, <1>7 DEF VM
  <2>2. vm.dir \in Pages /\ vm.dir < FirstPage /\ vm.dir \in Nat /\ page \in Nat /\ FirstPage \in Nat
    BY <1>1, LowPages, SizeFacts DEF Types, VM, Pages
  <2>3. vm.entry[page] # vm.dir /\ vm'.entry[vm.dir] = vm.entry[vm.dir] /\ vm.dir # 0
    BY <1>1, <2>1, <2>2 DEF Late, Types
  <2> QED BY <1>1, <1>2, <1>3, <2>1, <2>2, <2>3 DEF Late
<1> QED BY <1>4, <1>5, <1>6, <1>7 DEF FreeOutcome

LEMMA StepInv == VmmInv /\ [Next]_vars => VmmInv'
<1> SUFFICES ASSUME VmmInv, [Next]_vars PROVE VmmInv'
  OBVIOUS
<1>1. Types
  BY DEF VmmInv
<1>2. CASE vmm_alloc_page
  <2>1. Types'
    <3>1. /\ vm \in VM /\ ~vm.faulted /\ vm.table[0] # 0 /\ vm' = AllocPage(vm).vm
          /\ frames' = frames
          /\ given' = given \/ given' = given \cup ({AllocPage(vm).page} \ {0})
      BY <1>1, <1>2 DEF Types, vmm_alloc_page
    <3>2. vm' \in VM /\ AllocPage(vm).page \in Pages /\ vm'.dir = vm.dir /\ vm'.table[0] # 0
      BY <3>1, AllocTypes
    <3> QED BY <1>1, <3>1, <3>2 DEF Types
  <2>2. ~vm.faulted
    BY <1>2 DEF vmm_alloc_page
  <2>3. CASE ~Wrapped
    BY <1>1, <1>2, <2>1, <2>2, <2>3, EarlyWhole, EarlyAlloc DEF VmmInv
  <2>4. CASE Wrapped
    BY <1>1, <1>2, <2>1, <2>2, <2>4, LateAlloc DEF VmmInv
  <2> QED BY <2>3, <2>4
<1>3. ASSUME NEW page \in Issued, vmm_free_page(page) PROVE VmmInv'
  <2>1. Types'
    <3>1. vm \in VM /\ vm' = FreePage(vm, page) /\ frames' = frames /\ given' = given \ {page} /\ page \in Pages
      BY <1>1, <1>3 DEF Types, vmm_free_page, Issued
    <3>2. vm' \in VM /\ vm'.dir = vm.dir /\ vm'.table = vm.table
      BY <3>1, FreeTypes
    <3> QED BY <1>1, <3>1, <3>2 DEF Types
  <2>2. ~vm.faulted
    BY <1>3 DEF vmm_free_page
  <2>3. CASE ~Wrapped
    BY <1>1, <1>3, <2>1, <2>2, <2>3, EarlyWhole, EarlyFree DEF VmmInv
  <2>4. CASE Wrapped
    BY <1>1, <1>3, <2>1, <2>2, <2>4, LateFree DEF VmmInv
  <2> QED BY <2>3, <2>4
<1>4. CASE UNCHANGED vars
  BY <1>4 DEF vars, VmmInv, Types, Early, Late, Wrapped, Identity, Unmapped, FramesConserved, Mapped, Tables
<1> QED BY <1>2, <1>3, <1>4 DEF Next

LEMMA InvAlways == Spec => []VmmInv
<1> QED BY InitInv, StepInv, PTL DEF Spec

-----------------------------------------------------------------------------
(* What follows for callers. *)

\* vmm.c and pmm.c: until next_virt wraps every frame is free, the directory,
\* one page table or behind one page, and callers hold the pages with a frame.
THEOREM FramesAreConserved == Spec => []FramesConserved
<1>1. VmmInv => FramesConserved
  BY DEF VmmInv, Early, FramesConserved
<1> QED BY <1>1, InvAlways, PTL

\* vmm_init's identity map of low memory, through which the kernel reaches
\* its page tables, stays until next_virt wraps, whatever is mapped and freed.
THEOREM IdentityIsKept == Spec => []IdentityKept
<1>1. VmmInv => IdentityKept
  BY DEF VmmInv, Early, Identity, IdentityKept
<1> QED BY <1>1, InvAlways, PTL

LEMMA Alone ==
  ASSUME NEW S, NEW f, S \subseteq {f}
  PROVE  Cardinality(S) <= 1
<1>1. CASE S = {}
  BY <1>1, FS_EmptySet
<1>2. CASE S = {f}
  <2>1. Cardinality({f}) = 1
    BY FS_Singleton
  <2> QED BY <1>2, <2>1
<1> QED BY <1>1, <1>2

\* An allocation ends in a fault or in one of the records it builds from v.
Built(v, u) ==
  LET d == v.next \div PageEntries
  IN  \/ u = [v EXCEPT !.free = @ \ {0}]
      \/ u = [v EXCEPT !.next = Advance(@)]
      \/ \E F, t, e : \/ u = [v EXCEPT !.free = F, !.next = Advance(@), !.entry[v.next] = e]
                      \/ u = [v EXCEPT !.free = F, !.next = Advance(@), !.table[d] = t, !.entry[v.next] = e]

LEMMA FaultsOrNot ==
  ASSUME NEW v \in VM, ~v.faulted
  PROVE  /\ \A u : Built(v, u) => ~u.faulted
         /\ \A u \in {Fault(Started(v)), Fault(TakeFrame(Started(v)))} : 
               u.faulted /\ u.next = Advance(v.next)
<1>1. ASSUME NEW u, Built(v, u) PROVE ~u.faulted
  BY <1>1 DEF Built, VM
<1>2. Started(v) \in VM /\ Started(v).next = Advance(v.next)
  BY AdvanceType DEF VM, Started
<1>3. \A w \in VM : Fault(w).next = w.next /\ Fault(w).faulted
  BY DEF VM, Fault
<1>4. \A w \in VM : TakeFrame(w) \in VM /\ TakeFrame(w).next = w.next
  BY TakeFrameType DEF VM
<1> QED BY <1>1, <1>2, <1>3, <1>4

\* vmm_alloc_page: a failure keeps no frame and changes no mapping, at
\* whichever of its two frames pmm.c has none left.
THEOREM FailuresAreClean == Spec => CleanFailure
<1>1. VmmInv /\ [Next]_vars =>
        [vmm_alloc_page /\ result' = 0 /\ ~vm'.faulted /\ ~Wrapped
           => /\ vm'.free \ {0} = vm.free \ {0}
              /\ vm'.table = vm.table /\ vm'.entry = vm.entry]_vars
  <2> SUFFICES ASSUME VmmInv, vmm_alloc_page, result' = 0, ~vm'.faulted, ~Wrapped
               PROVE  /\ vm'.free \ {0} = vm.free \ {0}
                      /\ vm'.table = vm.table /\ vm'.entry = vm.entry
    OBVIOUS
  <2> DEFINE r == AllocPage(vm)
  <2>1. vm \in VM /\ ~vm.faulted /\ vm' = r.vm /\ r.page = 0 /\ vm.next # 0
    BY SizeFacts DEF VmmInv, Types, vmm_alloc_page, Wrapped
  <2>2. AllocOutcome(vm, r)
    BY <2>1, AllocCases
  <2> HIDE DEF r
  <2>3. CASE r.vm \in {Fault(Started(vm)), Fault(TakeFrame(Started(vm)))}
    BY <2>1, <2>3, FaultsOrNot
  <2>4. CASE r.vm = [vm EXCEPT !.free = @ \ {0}] \/ r.vm = [vm EXCEPT !.next = Advance(@)]
    BY <2>1, <2>4 DEF VM
  <2>5. CASE r.page = vm.next
    BY <2>1, <2>5
  <2> QED BY <2>2, <2>3, <2>4, <2>5 DEF AllocOutcome
<1> QED BY <1>1, InvAlways, PTL DEF Spec, CleanFailure

\* vmm_map_page and vmm_free_page reach every page table they walk, except
\* that a new table faults when low memory has no frame left to hold it.
THEOREM FaultsAreOutOfLowMemory == Spec => FaultOnlyBeyondLowMemory
<1>1. VmmInv /\ [Next]_vars =>
        [~vm.faulted /\ vm'.faulted /\ ~Wrapped
           => /\ vm.table[vm.next \div PageEntries] = 0 /\ vm'.next # vm.next
              /\ Cardinality({f \in vm.free : f < PageEntries}) <= 1]_vars
  <2> SUFFICES ASSUME VmmInv, Next, ~vm.faulted, vm'.faulted, ~Wrapped
               PROVE  /\ vm.table[vm.next \div PageEntries] = 0 /\ vm'.next # vm.next
                      /\ Cardinality({f \in vm.free : f < PageEntries}) <= 1
    OBVIOUS
  <2>1. Types /\ Whole
    BY EarlyWhole DEF VmmInv
  <2>2. ASSUME NEW page \in Issued, vmm_free_page(page) PROVE FALSE
    BY <2>1, <2>2, EarlyFree
  <2>3. vmm_alloc_page
    BY <2>2 DEF Next
  <2> DEFINE r == AllocPage(vm)
             w == Started(vm)
             f == Frame(vm)
             n == vm.next
             d == n \div PageEntries
             rest == vm.free \ {f}
  <2>4. /\ vm \in VM /\ vm' = r.vm /\ n \in Pages /\ vm.free \subseteq Nat
        /\ vm.faulted = FALSE
    BY <2>1, <2>3 DEF vmm_alloc_page, Types, VM
  <2>5. d \in Dirs /\ Advance(n) \in Pages /\ Advance(n) # n
    BY <2>4, TableOf, AdvanceType
  <2>6. AllocOutcome(vm, r)
    BY <2>4, AllocCases
  <2> HIDE DEF r
  <2>7. Unreachable(w, n) /\ r.vm \in {Fault(w), Fault(TakeFrame(w))}
    <3>1. ~Built(vm, r.vm)
      BY <2>4, FaultsOrNot
    <3> DEFINE e == n \div PageEntries
    <3>2. /\ r.vm # [vm EXCEPT !.free = @ \ {0}] /\ r.vm # [vm EXCEPT !.next = Advance(@)]
          /\ r.vm # [vm EXCEPT !.free = rest, !.next = Advance(@), !.entry[n] = f]
          /\ r.vm # [vm EXCEPT !.free = rest \ {Lowest(rest)}, !.next = Advance(@),
                               !.table[e] = Lowest(rest), !.entry[n] = f]
      BY <3>1, Zenon DEF Built
    <3>3. \/ Unreachable(w, n) /\ r.vm \in {Fault(w), Fault(TakeFrame(w))}
          \/ r.vm = [vm EXCEPT !.free = @ \ {0}] \/ r.vm = [vm EXCEPT !.next = Advance(@)]
          \/ r.vm = [vm EXCEPT !.free = rest, !.next = Advance(@), !.entry[n] = f]
          \/ r.vm = [vm EXCEPT !.free = rest \ {Lowest(rest)}, !.next = Advance(@),
                               !.table[e] = Lowest(rest), !.entry[n] = f]
      BY <2>6 DEF AllocOutcome
    <3> QED BY <3>2, <3>3
  <2>8. w \in VM /\ w.next = Advance(n) /\ w.free = rest /\ w.table = vm.table
        /\ w.entry = vm.entry /\ w.dir = vm.dir
    BY <2>4, <2>5 DEF Started, VM
  <2> HIDE DEF w
  <2>9. vm'.next # vm.next
    BY <2>4, <2>5, <2>7, FaultsOrNot DEF w
  <2>10. vm.table[d] = 0 /\ ~NoFrame(w) /\ ~Reachable(vm, Lowest(rest))
    <3>1. Reachable(vm, vm.dir) /\ Reachable(vm, vm.table[d])
      BY <2>1, <2>5, NothingUnreachable
    <3> HIDE DEF d
    <3> QED BY <2>7, <2>8, <3>1 DEF Unreachable, Reachable, Frame, d
  <2>11. \A g \in rest : ~(g < PageEntries)
    <3>1. rest # {} /\ rest \in SUBSET Nat
      BY <2>4, <2>8, <2>10 DEF NoFrame
    <3> HIDE DEF rest
    <3>2. Lowest(rest) \in Nat /\ \A g \in rest : Lowest(rest) <= g /\ g \in Nat
      BY <3>1, LowestIn
    <3>3. ~(Lowest(rest) < PageEntries)
      BY <2>1, <2>10, <3>2, SizeFacts DEF Reachable, Whole, Identity
    <3> QED BY <3>2, <3>3, SizeFacts
  <2>12. {g \in vm.free : g < PageEntries} \subseteq {f}
    BY <2>11
  <2>13. Cardinality({g \in vm.free : g < PageEntries}) <= 1
    BY <2>12, Alone
  <2> QED BY <2>9, <2>10, <2>13
<1> QED BY <1>1, InvAlways, PTL DEF Spec, FaultOnlyBeyondLowMemory
=============================================================================
