------------------------------ MODULE BootProofs ------------------------------
(* Proofs about module Pmm and module Boot, which extends it, for every      *)
(* memory map and every frame size.                                          *)
EXTENDS Boot, NatFacts, SequenceTheorems, FiniteSetTheorems

LEMMA SmallestIn ==
  ASSUME NEW S \in SUBSET Nat, S # {}
  PROVE  Smallest(S) \in S
BY NatMin DEF Smallest

-----------------------------------------------------------------------------
(* What pmm_init computes. *)

LEMMA MapEntry ==
  ASSUME NEW m \in MemoryMaps, NEW i \in DOMAIN m
  PROVE  i \in Nat /\ m[i].addr \in Nat /\ m[i].len \in Nat
<1>1. m \in Seq(Region)
  BY PmmAssumption
<1>2. m[i] \in Region /\ i \in Nat
  BY <1>1
<1> QED BY <1>2 DEF Region

LEMMA uint32Type ==
  ASSUME NEW n \in Nat
  PROVE  uint32(n) \in 0 .. AddressSpace - 1
BY PmmAssumption DEF uint32

LEMMA MaxMemType ==
  ASSUME NEW m \in MemoryMaps
  PROVE  max_mem(m) \in Nat
<1> DEFINE S == {0} \cup {uint32(m[i].addr + m[i].len) : i \in Available(m)}
<1>1. \A i \in Available(m) : uint32(m[i].addr + m[i].len) \in 0 .. AddressSpace - 1
  BY MapEntry, uint32Type DEF Available
<1>2. S \in SUBSET Nat /\ S # {} /\ \A x \in S : x <= AddressSpace
  BY <1>1, PmmAssumption
<1>3. \E x \in S : \A y \in S : y <= x
  <2> HIDE DEF S
  <2> QED BY <1>2, NatMax, PmmAssumption
<1>4. Largest(S) \in S
  <2> HIDE DEF S
  <2> QED BY <1>3 DEF Largest
<1> QED BY <1>2, <1>4 DEF max_mem

LEMMA SizeTypes ==
  ASSUME NEW m \in MemoryMaps
  PROVE  /\ pmm_max_blocks(m) \in Nat
         /\ pmm_bitmap_size(m) \in Nat
         /\ pmm_max_blocks(m) <= pmm_bitmap_size(m) * PMM_BITS_PER_ENTRY
<1>1. pmm_max_blocks(m) \in Nat
  BY MaxMemType, DivType, PmmAssumption DEF pmm_max_blocks
<1> DEFINE n == pmm_max_blocks(m)
           k == PMM_BITS_PER_ENTRY
<1> HIDE DEF n, k
<1>2. n \in Nat /\ k \in Nat \ {0}
  BY <1>1, PmmAssumption DEF n, k
<1>3. (n + k - 1) \in Nat
  BY <1>2
<1>4. (n + k - 1) \div k \in Nat /\ n + k - 1 < k * ((n + k - 1) \div k) + k
  BY <1>2, <1>3, DivType
<1>5. n <= k * ((n + k - 1) \div k)
  <2> DEFINE p == k * ((n + k - 1) \div k)
  <2>1. p \in Nat /\ n + k - 1 < p + k
    BY <1>2, <1>4
  <2> HIDE DEF p
  <2>2. n <= p
    BY <1>2, <2>1
  <2> QED BY <2>2 DEF p
<1> QED
  BY <1>1, <1>2, <1>4, <1>5 DEF pmm_bitmap_size, n, k

\* Every frame pmm_max_blocks counts has its bit in the bitmap.
LEMMA BlocksHaveBits ==
  ASSUME NEW m \in MemoryMaps
  PROVE  Blocks(m) \subseteq Bits(m)
BY SizeTypes, PmmAssumption DEF Blocks, Bits

LEMMA BitmapAddrType ==
  ASSUME NEW m \in MemoryMaps
  PROVE  BitmapAddr(m) \in Nat /\ BitmapBytes(m) \in Nat
<1>1. BitmapAddr(m) \in Nat
  <2> DEFINE fits == {i \in Available(m) : m[i].len >= BitmapBytes(m)}
  <2>1. fits \in SUBSET Nat
    BY MapEntry DEF Available
  <2>2. CASE fits = {}
    BY <2>2 DEF BitmapAddr
  <2>3. CASE fits # {}
    <3>1. Smallest(fits) \in fits
      <4> HIDE DEF fits
      <4> QED BY <2>1, <2>3, SmallestIn
    <3>2. ASSUME NEW i \in fits PROVE uint32(m[i].addr) \in Nat
      <4>1. m[i].addr \in Nat
        BY MapEntry DEF Available
      <4>2. uint32(m[i].addr) \in 0 .. AddressSpace - 1
        BY <4>1, uint32Type
      <4> QED BY <4>2, PmmAssumption
    <3> QED BY <2>3, <3>1, <3>2 DEF BitmapAddr
  <2> QED BY <2>2, <2>3
<1> QED BY <1>1, SizeTypes, PmmAssumption DEF BitmapBytes

LEMMA BitmapBlocksFinite ==
  ASSUME NEW m \in MemoryMaps
  PROVE  /\ IsFiniteSet(BitmapBlocks(m))
         /\ Cardinality(BitmapBlocks(m)) \in Nat \ {0}
<1>1. BitmapAddr(m) \in Nat
  BY BitmapAddrType
<1> DEFINE start == BitmapAddr(m) \div PMM_BLOCK_SIZE
           k == BitmapBytes(m) \div PMM_BLOCK_SIZE
<1>2. start \in Nat
  BY <1>1, DivType, PmmAssumption
<1>3. k \in Nat
  BY SizeTypes, DivType, PmmAssumption DEF BitmapBytes
<1> HIDE DEF start, k
<1>4. IsFiniteSet(start .. start + k) /\ Cardinality(start .. start + k) = k + 1
  BY <1>2, <1>3, FS_Interval
<1> QED
  BY <1>3, <1>4 DEF BitmapBlocks, start, k

-----------------------------------------------------------------------------
(* The books.  pmm_used_blocks counts the frames set for the bitmap and the *)
(* frames callers hold; frame 0 is counted when it is taken and uncounted   *)
(* when it is released, although nobody ever owns it.                       *)

Bit0(S) == IF 0 \in S THEN 1 ELSE 0

BookKept ==
  pmm_used_blocks + Bit0(BootBits(mmap))
    = Cardinality(BitmapBlocks(mmap)) + Cardinality(owned) + Bit0(pmm_bitmap)

\* Ownership needs the types, and that pmm_used_blocks never goes below zero
\* needs the books.
PmmInv == TypeOK /\ Ownership /\ BookKept

LEMMA OwnedFinite ==
  ASSUME TypeOK
  PROVE  IsFiniteSet(owned) /\ Cardinality(owned) \in Nat
<1>1. IsFiniteSet(Blocks(mmap))
  BY SizeTypes, FS_Interval DEF TypeOK, Blocks
<1> QED BY <1>1, FS_Subset, FS_CardinalityType DEF TypeOK

LEMMA InitInv == Init => PmmInv
<1> SUFFICES ASSUME Init PROVE PmmInv
  OBVIOUS
<1>1. TypeOK
  BY BitmapBlocksFinite DEF Init, TypeOK, BootBits
<1>2. Ownership
  BY DEF Init, Ownership
<1>3. BookKept
  BY BitmapBlocksFinite, FS_EmptySet DEF Init, BookKept, Bit0
<1> QED BY <1>1, <1>2, <1>3 DEF PmmInv

\* The books give the type of the counter.
LEMMA CounterType ==
  ASSUME NEW m \in MemoryMaps, NEW own \in SUBSET Blocks(m), NEW used \in Int, NEW bits,
         used + Bit0(BootBits(m)) = Cardinality(BitmapBlocks(m)) + Cardinality(own) + Bit0(bits)
  PROVE  used \in Nat
<1>1. IsFiniteSet(Blocks(m))
  BY SizeTypes, FS_Interval DEF Blocks
<1>2. Cardinality(own) \in Nat
  BY <1>1, FS_Subset, FS_CardinalityType
<1> QED BY <1>2, BitmapBlocksFinite DEF Bit0

LEMMA TakeKeeps ==
  ASSUME PmmInv, NEW b \in FreeBlocks, Take(b)
  PROVE  PmmInv'
<1> USE DEF PmmInv
<1>1. b \in Blocks(mmap) /\ b \notin pmm_bitmap /\ b \in Nat
  BY SizeTypes DEF FreeBlocks, pmm_test_bit, TypeOK, Blocks
<1>2. b \notin owned
  BY <1>1 DEF Ownership
<1>3. Ownership'
  BY <1>1 DEF Take, Ownership
<1>4. BookKept'
  <2>1. CASE b = 0
    <3>1. owned' = owned /\ Bit0(pmm_bitmap) = 0 /\ Bit0(pmm_bitmap') = 1
      BY <1>1, <2>1 DEF Take, Bit0
    <3>2. pmm_used_blocks' = pmm_used_blocks + 1 /\ mmap' = mmap
      BY DEF Take
    <3> QED
      BY <3>1, <3>2, OwnedFinite, BitmapBlocksFinite DEF BookKept, TypeOK, Bit0
  <2>2. CASE b # 0
    <3>1. owned' = owned \cup {b} /\ Bit0(pmm_bitmap') = Bit0(pmm_bitmap)
      BY <2>2 DEF Take, Bit0
    <3>2. Cardinality(owned') = Cardinality(owned) + 1
      BY <3>1, <1>2, OwnedFinite, FS_AddElement
    <3> QED
      BY <3>1, <3>2, OwnedFinite, BitmapBlocksFinite DEF Take, BookKept, TypeOK, Bit0
  <2> QED BY <2>1, <2>2
<1>5. TypeOK'
  <2>1. b * PMM_BLOCK_SIZE \in Nat
    BY <1>1, PmmAssumption
  <2>2. pmm_bitmap' \subseteq Bits(mmap)
    BY <1>1, BlocksHaveBits DEF Take, TypeOK
  <2> QED
    BY <1>1, <2>1, <2>2 DEF Take, TypeOK
<1> QED BY <1>3, <1>4, <1>5

LEMMA AllocKeeps ==
  ASSUME PmmInv, NEW aligned_only, pmm_alloc_page_internal(aligned_only)
  PROVE  PmmInv'
<1>1. CASE Candidates(aligned_only) = {}
  BY <1>1 DEF pmm_alloc_page_internal, PmmInv, TypeOK, Ownership, BookKept
<1>2. CASE Candidates(aligned_only) # {}
  <2>1. Candidates(aligned_only) \in SUBSET Nat
    BY SizeTypes DEF PmmInv, TypeOK, Candidates, FreeBlocks, Blocks
  <2>2. Smallest(Candidates(aligned_only)) \in FreeBlocks
    BY <1>2, <2>1, SmallestIn DEF Candidates
  <2> QED
    BY <1>2, <2>2, TakeKeeps DEF pmm_alloc_page_internal
<1> QED BY <1>1, <1>2

LEMMA FreeKeeps ==
  ASSUME PmmInv, NEW page \in {b * PMM_BLOCK_SIZE : b \in owned} \cup {0}, pmm_free_page(page)
  PROVE  PmmInv'
<1> USE DEF PmmInv
<1> DEFINE b == page \div PMM_BLOCK_SIZE
<1>1. b \in owned \cup {0} /\ b \in Nat
  <2>1. CASE page = 0
    <3>1. 0 \div PMM_BLOCK_SIZE = 0
      BY PmmAssumption
    <3> QED BY <2>1, <3>1
  <2>2. ASSUME NEW o \in owned, page = o * PMM_BLOCK_SIZE PROVE b = o /\ o \in Nat
    <3>1. o \in Nat
      BY SizeTypes DEF TypeOK, Blocks
    <3> QED BY <2>2, <3>1, MulDiv, PmmAssumption
  <2> QED BY <2>1, <2>2
<1>2. pmm_free_page(page) <=>
        /\ IF b < max_blocks /\ b \in pmm_bitmap
             THEN pmm_bitmap' = pmm_bitmap \ {b} /\ pmm_used_blocks' = pmm_used_blocks - 1
             ELSE UNCHANGED <<pmm_bitmap, pmm_used_blocks>>
        /\ owned' = owned \ {b}
        /\ UNCHANGED <<mmap, result>>
  BY DEF pmm_free_page, pmm_test_bit
<1> HIDE DEF b
<1>3. b \in owned => b # 0 /\ b < max_blocks /\ b \in pmm_bitmap
  BY <1>1, SizeTypes DEF Ownership, TypeOK, Blocks, max_blocks
<1>4. Ownership'
  BY <1>1, <1>2, <1>3 DEF Ownership
<1>5. BookKept'
  <2>1. CASE b \in owned
    <3>1. Cardinality(owned') = Cardinality(owned) - 1 /\ Bit0(pmm_bitmap') = Bit0(pmm_bitmap)
      BY <1>2, <1>3, <2>1, OwnedFinite, FS_RemoveElement DEF Bit0
    <3>2. pmm_used_blocks' = pmm_used_blocks - 1 /\ mmap' = mmap
      BY <1>2, <1>3, <2>1
    <3> QED
      BY <3>1, <3>2, OwnedFinite, BitmapBlocksFinite DEF BookKept, TypeOK, Bit0
  <2>2. CASE b \notin owned
    <3>1. b = 0 /\ owned' = owned /\ mmap' = mmap
      BY <1>1, <1>2, <2>2
    <3>2. pmm_used_blocks' - pmm_used_blocks = Bit0(pmm_bitmap') - Bit0(pmm_bitmap)
      BY <1>2, <3>1 DEF Bit0, TypeOK
    <3> QED
      BY <1>2, <3>1, <3>2, OwnedFinite, BitmapBlocksFinite DEF BookKept, TypeOK, Bit0
  <2> QED BY <2>1, <2>2
<1>6. TypeOK'
  <2>1. mmap' = mmap /\ pmm_used_blocks' \in Int /\ owned' \subseteq Blocks(mmap)'
    BY <1>2 DEF TypeOK
  <2>2. pmm_used_blocks' \in Nat
    <3>1. pmm_used_blocks' + Bit0(BootBits(mmap))
            = Cardinality(BitmapBlocks(mmap)) + Cardinality(owned') + Bit0(pmm_bitmap')
      BY <1>5, <2>1 DEF BookKept
    <3>2. mmap \in MemoryMaps /\ owned' \in SUBSET Blocks(mmap)
      BY <2>1 DEF TypeOK
    <3> QED BY <2>1, <3>1, <3>2, CounterType
  <2> QED
    BY <1>2, <2>1, <2>2 DEF TypeOK
<1> QED BY <1>4, <1>5, <1>6

LEMMA StepInv == PmmInv /\ [Next]_vars => PmmInv'
<1> SUFFICES ASSUME PmmInv, [Next]_vars PROVE PmmInv'
  OBVIOUS
<1>1. CASE pmm_alloc_page
  BY <1>1, AllocKeeps DEF pmm_alloc_page
<1>2. CASE pmm_alloc_page_aligned
  BY <1>2, AllocKeeps DEF pmm_alloc_page_aligned
<1>3. CASE Free
  BY <1>3, FreeKeeps DEF Free
<1>4. CASE UNCHANGED vars
  BY <1>4 DEF vars, PmmInv, TypeOK, Ownership, BookKept
<1> QED BY <1>1, <1>2, <1>3, <1>4 DEF Next

LEMMA InvAlways == Spec => []PmmInv
BY InitInv, StepInv, PTL DEF Spec

\* pmm.c: the bits set always lie in the bitmap, frames held are frames the
\* manager counts, and pmm_used_blocks never wraps below zero, although frame 0
\* may be released without having been allocated.
THEOREM TypeCorrect == Spec => []TypeOK
<1>1. PmmInv => TypeOK
  BY DEF PmmInv
<1> QED BY <1>1, InvAlways, PTL

\* pmm.c: whatever the memory map, no frame is ever in two hands, reserved
\* frames and those of the bitmap are never handed out (frame 0 excepted, which
\* counts as a failure), and a frame given back is free again.
THEOREM OwnershipHolds == Spec => []Ownership
<1>1. PmmInv => Ownership
  BY DEF PmmInv
<1> QED BY <1>1, InvAlways, PTL

-----------------------------------------------------------------------------
(* The free count. *)

\* Removing 0 from a set removes what Bit0 counts.
LEMMA WithoutZero ==
  ASSUME NEW S, IsFiniteSet(S)
  PROVE  /\ IsFiniteSet(S \ {0})
         /\ Cardinality(S \ {0}) \in Nat
         /\ Cardinality(S) = Cardinality(S \ {0}) + Bit0(S)
<1>1. /\ IsFiniteSet(S \ {0})
      /\ Cardinality(S \ {0}) = IF 0 \in S THEN Cardinality(S) - 1 ELSE Cardinality(S)
  BY FS_RemoveElement
<1>2. Cardinality(S \ {0}) \in Nat /\ Cardinality(S) \in Nat
  BY <1>1, FS_CardinalityType
<1> QED BY <1>1, <1>2 DEF Bit0

LEMMA SetsBalance ==
  ASSUME NEW B, IsFiniteSet(B), NEW bits, NEW boot, NEW own \in SUBSET B,
         own \cap boot = {}, 0 \notin own, bits \ {0} = (boot \cup own) \ {0},
         0 \in B \/ 0 \notin bits \cup boot
  PROVE  Cardinality(B \cap bits) + Bit0(boot) = Cardinality(B \cap boot) + Cardinality(own) + Bit0(bits)
<1>1. IsFiniteSet(B \cap bits) /\ IsFiniteSet(B \cap boot) /\ IsFiniteSet(own)
  BY FS_Intersection, FS_Subset
<1>2. Bit0(B \cap bits) = Bit0(bits) /\ Bit0(B \cap boot) = Bit0(boot)
  BY DEF Bit0
<1>3. (B \cap bits) \ {0} = ((B \cap boot) \ {0}) \cup own
  OBVIOUS
<1>4. ((B \cap boot) \ {0}) \cap own = {}
  OBVIOUS
<1>5. Cardinality(((B \cap boot) \ {0}) \cup own) = Cardinality((B \cap boot) \ {0}) + Cardinality(own)
  <2>1. Cardinality(((B \cap boot) \ {0}) \cup own)
          = Cardinality((B \cap boot) \ {0}) + Cardinality(own) - Cardinality(((B \cap boot) \ {0}) \cap own)
    BY <1>1, WithoutZero, FS_Union
  <2>2. Cardinality(((B \cap boot) \ {0}) \cap own) = 0
    BY <1>4, FS_EmptySet
  <2> QED BY <1>1, <2>1, <2>2, WithoutZero, FS_CardinalityType
<1>6. /\ Cardinality(B \cap bits) = Cardinality((B \cap bits) \ {0}) + Bit0(bits)
      /\ Cardinality(B \cap boot) = Cardinality((B \cap boot) \ {0}) + Bit0(boot)
      /\ Cardinality((B \cap boot) \ {0}) \in Nat
      /\ Cardinality(own) \in Nat
  BY <1>1, <1>2, WithoutZero, FS_CardinalityType
<1> QED BY <1>3, <1>5, <1>6 DEF Bit0

\* pmm.c: what pmm_get_free_page_count returns is off by a constant of the
\* memory map, at all times.
THEOREM FreeCountHolds == Spec => []FreeCountSkew
<1>1. ASSUME PmmInv PROVE FreeCountSkew
  <2> DEFINE B == Blocks(mmap)
             K == BitmapBlocks(mmap)
             T == BootBits(mmap)
             n == max_blocks
  <2>1. n \in Nat /\ IsFiniteSet(B) /\ Cardinality(B) = n
    <3>1. n \in Nat
      BY <1>1, SizeTypes DEF PmmInv, TypeOK, max_blocks
    <3>2. B = 0 .. n - 1
      BY DEF Blocks, max_blocks
    <3> HIDE DEF n, B
    <3>3. IsFiniteSet(0 .. n - 1) /\ Cardinality(0 .. n - 1) = IF 0 > n - 1 THEN 0 ELSE n - 1 - 0 + 1
      BY <3>1, FS_Interval
    <3> QED BY <3>1, <3>2, <3>3
  <2>2. IsFiniteSet(K) /\ Cardinality(K) \in Nat
    BY <1>1, BitmapBlocksFinite DEF PmmInv, TypeOK
  <2>3. B \subseteq Bits(mmap) /\ B \cap K \subseteq T
    BY <1>1, BlocksHaveBits DEF PmmInv, TypeOK, BootBits
  <2>4. 0 \in B \/ 0 \notin pmm_bitmap \cup T
    <3>1. CASE n = 0
      <4>1. (0 + PMM_BITS_PER_ENTRY - 1) \div PMM_BITS_PER_ENTRY = 0
        BY PmmAssumption
      <4>2. pmm_bitmap_size(mmap) = 0
        BY <3>1, <4>1 DEF pmm_bitmap_size, max_blocks
      <4>3. Bits(mmap) = {}
        BY <4>2, PmmAssumption DEF Bits
      <4> QED BY <1>1, <4>3 DEF PmmInv, TypeOK, BootBits
    <3>2. CASE n # 0
      BY <2>1, <3>2 DEF Blocks, max_blocks
    <3> QED BY <3>1, <3>2
  <2>5. Cardinality(B \cap pmm_bitmap) + Bit0(T) = Cardinality(B \cap T) + Cardinality(owned) + Bit0(pmm_bitmap)
    <3>1. owned \in SUBSET B /\ owned \cap T = {} /\ 0 \notin owned
      BY <1>1 DEF PmmInv, TypeOK, Ownership
    <3>2. pmm_bitmap \ {0} = (T \cup owned) \ {0}
      BY <1>1 DEF PmmInv, Ownership
    <3> HIDE DEF B, T
    <3> QED BY <2>1, <2>4, <3>1, <3>2, SetsBalance
  <2>6. Cardinality(FreeBlocks) = n - Cardinality(B \cap pmm_bitmap)
    <3>1. FreeBlocks = B \ pmm_bitmap
      BY DEF FreeBlocks, pmm_test_bit
    <3> HIDE DEF B
    <3> QED BY <2>1, <3>1, FS_Difference
  <2>7. Cardinality(K \ B) = Cardinality(K) - Cardinality(K \cap B)
    <3> HIDE DEF B, K
    <3> QED BY <2>2, FS_Difference
  <2>8. Cardinality((B \cap T) \ K) = Cardinality(B \cap T) - Cardinality(K \cap B)
    <3>1. (B \cap T) \cap K = K \cap B
      BY <2>3
    <3>2. IsFiniteSet(B \cap T)
      BY <2>1, FS_Intersection
    <3> HIDE DEF B, T, K
    <3>3. Cardinality((B \cap T) \ K) = Cardinality(B \cap T) - Cardinality((B \cap T) \cap K)
      BY <3>2, FS_Difference
    <3> QED BY <3>1, <3>3
  <2>9. /\ Cardinality(B \cap pmm_bitmap) \in Nat
        /\ Cardinality(B \cap T) \in Nat
        /\ Cardinality(K \cap B) \in Nat
        /\ Cardinality(owned) \in Nat
    BY <1>1, <2>1, <2>2, FS_Intersection, FS_CardinalityType, OwnedFinite DEF PmmInv
  <2>10. pmm_used_blocks + Bit0(T) = Cardinality(K) + Cardinality(owned) + Bit0(pmm_bitmap)
    BY <1>1 DEF PmmInv, BookKept
  <2>11. pmm_used_blocks \in Nat /\ Bit0(T) \in Nat /\ Bit0(pmm_bitmap) \in Nat
    BY <1>1 DEF PmmInv, TypeOK, Bit0
  <2>12. n - pmm_used_blocks + Cardinality(K \ B) = Cardinality(FreeBlocks) + Cardinality((B \cap T) \ K)
    <3> DEFINE cK == Cardinality(K)
               cKB == Cardinality(K \cap B)
               cBp == Cardinality(B \cap pmm_bitmap)
               cBT == Cardinality(B \cap T)
               cO == Cardinality(owned)
    <3>1. /\ n \in Nat /\ pmm_used_blocks \in Nat /\ Bit0(T) \in Nat /\ Bit0(pmm_bitmap) \in Nat
          /\ cK \in Nat /\ cKB \in Nat /\ cBp \in Nat /\ cBT \in Nat /\ cO \in Nat
          /\ cBp + Bit0(T) = cBT + cO + Bit0(pmm_bitmap)
          /\ pmm_used_blocks + Bit0(T) = cK + cO + Bit0(pmm_bitmap)
      BY <2>1, <2>2, <2>5, <2>9, <2>10, <2>11
    <3>2. /\ Cardinality(K \ B) = cK - cKB
          /\ Cardinality(FreeBlocks) = n - cBp
          /\ Cardinality((B \cap T) \ K) = cBT - cKB
      BY <2>6, <2>7, <2>8
    <3>3. n - pmm_used_blocks + (cK - cKB) = (n - cBp) + (cBT - cKB)
      <4> HIDE DEF cK, cKB, cBp, cBT, cO, n, T
      <4> QED BY ONLY <3>1, SMT
    <3> QED BY ONLY <3>2, <3>3
  <2> QED BY <2>12 DEF FreeCountSkew, pmm_get_free_page_count
<1> QED BY <1>1, InvAlways, PTL

-----------------------------------------------------------------------------
(* What callers are given. *)

\* A number whose quotient is q lies between q * d and the next multiple.
LEMMA DivIs ==
  ASSUME NEW d \in Nat \ {0}, NEW q \in Nat, NEW a \in Nat, q * d <= a, a < (q + 1) * d
  PROVE  a \div d = q
BY SMT

LEMMA DivMono ==
  ASSUME NEW d \in Nat \ {0}, NEW a \in Nat, NEW b \in Nat, a <= b
  PROVE  a \div d <= b \div d
BY SMT

\* The quotient of a sum is at least the sum of the quotients.
LEMMA DivSum ==
  ASSUME NEW d \in Nat \ {0}, NEW a \in Nat, NEW b \in Nat
  PROVE  a \div d + b \div d <= (a + b) \div d
BY SMT

\* A product of natural numbers with a natural number between its bounds: the
\* quotient's multiple is compared by the quotient.
LEMMA MulMono ==
  ASSUME NEW d \in Nat \ {0}, NEW a \in Nat, NEW b \in Nat
  PROVE  a * d \in Nat /\ (a <= b => a * d <= b * d)
BY SMT

LEMMA uint32Below ==
  ASSUME NEW n \in Nat, n < AddressSpace
  PROVE  uint32(n) = n
BY PmmAssumption DEF uint32

\* Below 4 GiB the frames of a region are those its bounds, rounded down, name,
\* and pmm_max_blocks counts them all.
LEMMA RegionBlocks ==
  ASSUME NEW m \in MemoryMaps, Fits(m), NEW i \in Available(m)
  PROVE  /\ StartBlock(m[i]) = m[i].addr \div PMM_BLOCK_SIZE
         /\ EndBlock(m[i]) = (m[i].addr + m[i].len) \div PMM_BLOCK_SIZE
         /\ StartBlock(m[i]) \in Nat /\ EndBlock(m[i]) \in Nat
         /\ EndBlock(m[i]) <= pmm_max_blocks(m)
<1> DEFINE a == m[i].addr
           e == m[i].addr + m[i].len
<1>1. a \in Nat /\ e \in Nat /\ a <= e /\ e < AddressSpace
  BY MapEntry DEF Available, Fits
<1> HIDE DEF a, e
<1>2. /\ a \div PMM_BLOCK_SIZE \in Nat /\ a \div PMM_BLOCK_SIZE <= a
      /\ e \div PMM_BLOCK_SIZE \in Nat /\ e \div PMM_BLOCK_SIZE <= e
  <2>1. ASSUME NEW n \in Nat PROVE n \div PMM_BLOCK_SIZE \in Nat /\ n \div PMM_BLOCK_SIZE <= n
    BY PmmAssumption, SMT
  <2> QED BY <1>1, <2>1
<1>3. /\ uint32(a \div PMM_BLOCK_SIZE) = a \div PMM_BLOCK_SIZE
      /\ uint32(e \div PMM_BLOCK_SIZE) = e \div PMM_BLOCK_SIZE
      /\ uint32(e) = e
  <2>1. AddressSpace \in Nat
    BY PmmAssumption
  <2>2. a \div PMM_BLOCK_SIZE < AddressSpace /\ e \div PMM_BLOCK_SIZE < AddressSpace
    BY <1>1, <1>2, <2>1
  <2> QED BY <1>1, <1>2, <2>2, uint32Below
<1>4. e <= max_mem(m)
  <2> DEFINE S == {0} \cup {uint32(m[j].addr + m[j].len) : j \in Available(m)}
  <2>1. \A j \in Available(m) : uint32(m[j].addr + m[j].len) \in 0 .. AddressSpace - 1
    BY MapEntry, uint32Type DEF Available
  <2>2. S \in SUBSET Nat /\ S # {} /\ \A x \in S : x <= AddressSpace
    BY <2>1, PmmAssumption
  <2>3. \E x \in S : \A y \in S : y <= x
    <3> HIDE DEF S
    <3> QED BY <2>2, NatMax, PmmAssumption
  <2>4. uint32(e) \in S
    BY DEF e
  <2>5. e \in S
    BY <1>3, <2>4
  <2>6. \A y \in S : y <= Largest(S)
    <3> HIDE DEF S
    <3> QED BY <2>3 DEF Largest
  <2> QED BY <2>5, <2>6 DEF max_mem
<1>5. e \div PMM_BLOCK_SIZE <= max_mem(m) \div PMM_BLOCK_SIZE
  BY <1>1, <1>4, MaxMemType, DivMono, PmmAssumption
<1> QED BY <1>2, <1>3, <1>5 DEF StartBlock, EndBlock, pmm_max_blocks, a, e

\* pmm.c: pmm_init writes outside the bitmap only for a region that reaches
\* 4 GiB or a bitmap that reaches beyond the last whole frame of memory,
\* whatever the memory map.
THEOREM InitStays == Spec => []InitStaysInBitmap
<1>1. ASSUME TypeOK, Fits(mmap),
             ~((BitmapAddr(mmap) + BitmapBytes(mmap)) \div PMM_BLOCK_SIZE >= max_blocks)
      PROVE  Stray(mmap) = {}
  <2> DEFINE start == BitmapAddr(mmap) \div PMM_BLOCK_SIZE
             more == BitmapBytes(mmap) \div PMM_BLOCK_SIZE
             top == (BitmapAddr(mmap) + BitmapBytes(mmap)) \div PMM_BLOCK_SIZE
  <2>1. mmap \in MemoryMaps /\ max_blocks \in Nat
    BY <1>1, SizeTypes DEF TypeOK, max_blocks
  <2>2. Freed(mmap) \subseteq Blocks(mmap)
    <3> SUFFICES ASSUME NEW i \in Available(mmap), NEW b \in StartBlock(mmap[i]) .. EndBlock(mmap[i]) - 1
                 PROVE  b \in Blocks(mmap)
      BY DEF Freed
    <3> QED BY <1>1, <2>1, RegionBlocks, SizeTypes DEF Blocks
  <2>3. BitmapBlocks(mmap) \subseteq Blocks(mmap)
    <3>1. BitmapAddr(mmap) \in Nat /\ BitmapBytes(mmap) \in Nat /\ BitmapAddr(mmap) + BitmapBytes(mmap) \in Nat
      BY <2>1, BitmapAddrType
    <3>2. start \in Nat /\ more \in Nat /\ top \in Nat
      BY <3>1, DivType, PmmAssumption
    <3>3. start + more <= top
      BY <3>1, DivSum, PmmAssumption
    <3>4. BitmapBlocks(mmap) = start .. start + more /\ top < max_blocks
      <4>1. ~(top >= max_blocks) /\ top \in Int
        BY <1>1, <3>2, <3>3
      <4> QED BY <2>1, <4>1 DEF BitmapBlocks
    <3> HIDE DEF start, more, top
    <3> QED BY <2>1, <3>2, <3>3, <3>4 DEF Blocks, max_blocks
  <2> QED BY <2>1, <2>2, <2>3, BlocksHaveBits DEF Stray
<1>2. PmmInv => InitStaysInBitmap
  BY <1>1 DEF PmmInv, InitStaysInBitmap
<1> QED BY <1>2, InvAlways, PTL

-----------------------------------------------------------------------------
\* The byte of a frame, by the frame's number.
LEMMA ByteOf ==
  ASSUME NEW b \in Nat, NEW a \in Bytes(b)
  PROVE  a \in Nat /\ b * PMM_BLOCK_SIZE <= a /\ a < (b + 1) * PMM_BLOCK_SIZE /\ a \div PMM_BLOCK_SIZE = b
<1>1. b * PMM_BLOCK_SIZE \in Nat /\ (b + 1) * PMM_BLOCK_SIZE \in Nat
  BY MulMono, PmmAssumption
<1>2. a \in Nat /\ b * PMM_BLOCK_SIZE <= a /\ a < (b + 1) * PMM_BLOCK_SIZE
  BY <1>1 DEF Bytes
<1> QED BY <1>2, DivIs, PmmAssumption

\* A frame outside the bitmap's frames shares no byte with it.
LEMMA BitmapApart ==
  ASSUME NEW m \in MemoryMaps, is_page_aligned(BitmapAddr(m)), NEW b \in Nat, b \notin BitmapBlocks(m)
  PROVE  Bytes(b) \cap (BitmapAddr(m) .. BitmapAddr(m) + BitmapBytes(m) - 1) = {}
<1> DEFINE d == PMM_BLOCK_SIZE
           s == BitmapAddr(m)
           n == BitmapBytes(m)
<1> HIDE DEF d, s, n
<1>1. s \in Nat /\ n \in Nat /\ d \in Nat \ {0} /\ s % d = 0
  BY BitmapAddrType, PmmAssumption DEF is_page_aligned, d, s, n
<1> SUFFICES ASSUME NEW a \in Bytes(b), s <= a, a <= s + n - 1
             PROVE  b \in s \div d .. s \div d + n \div d
  BY DEF BitmapBlocks, Bytes, d, s, n
<1>2. a \in Nat /\ a \div d = b
  BY ByteOf DEF d
<1>3. s \div d <= b
  BY <1>1, <1>2, DivMono
<1>4. b <= s \div d + n \div d
  <2>1. (s + n) \div d = s \div d + n \div d
    BY <1>1, SMT
  <2>2. a \div d <= (s + n) \div d
    BY <1>1, <1>2, DivMono
  <2> QED BY <1>2, <2>1, <2>2
<1> QED BY <1>1, <1>2, <1>3, <1>4, DivType

\* Every byte of a frame marked free is available memory, but for the part
\* below the start of a region that is not frame-aligned.
LEMMA FreedIsAvailable ==
  ASSUME NEW m \in MemoryMaps, Fits(m), NEW b \in Nat, b \in Freed(m), NEW a \in Bytes(b)
  PROVE  \E i \in Available(m) :
           InRegion(m[i], a) \/ (~is_page_aligned(m[i].addr) /\ StartBlock(m[i]) = b)
<1>1. PICK i \in Available(m) : b \in StartBlock(m[i]) .. EndBlock(m[i]) - 1
  BY DEF Freed
<1> DEFINE d == PMM_BLOCK_SIZE
           r == m[i].addr
           e == m[i].addr + m[i].len
           sb == StartBlock(m[i])
           eb == EndBlock(m[i])
<1>2. /\ r \in Nat /\ e \in Nat /\ d \in Nat \ {0}
      /\ sb = r \div d /\ eb = e \div d /\ sb \in Nat /\ eb \in Nat
  BY RegionBlocks, MapEntry, PmmAssumption DEF Available
<1>3. a \in Nat /\ b * d <= a /\ a < (b + 1) * d
  BY ByteOf
<1>4. sb <= b /\ b + 1 <= eb
  BY <1>1, <1>2
<1> SUFFICES (r <= a /\ a < e) \/ (~(r % d = 0) /\ sb = b)
  BY DEF InRegion, is_page_aligned
<1> HIDE DEF d, r, e, sb, eb
<1>5. a < e
  <2>1. (b + 1) * d <= eb * d
    BY <1>2, <1>4, MulMono
  <2>2. eb * d <= e
    BY <1>2, SMT
  <2> QED BY <1>2, <1>3, <2>1, <2>2, MulMono
<1>6. CASE sb = b
  <2>1. r % d = 0 => r = sb * d
    BY <1>2, SMT
  <2> QED BY <1>3, <1>5, <1>6, <2>1
<1>7. CASE sb # b
  <2>1. (sb + 1) * d <= b * d
    BY <1>2, <1>4, <1>7, MulMono
  <2>2. r < (sb + 1) * d
    BY <1>2, SMT
  <2> QED BY <1>2, <1>3, <1>5, <2>1, <2>2, MulMono
<1> QED BY <1>6, <1>7

\* pmm.c: whatever the memory map, a frame a caller holds is not reported free,
\* is apart from the bitmap and is available memory, with the one exception
\* OwnedIsUsable names: the region that starts inside the frame.
THEOREM OwnedUsable == Spec => []OwnedIsUsable
<1>1. ASSUME PmmInv, NEW b \in owned
      PROVE  /\ b \in Nat /\ b \in pmm_bitmap
             /\ b \in Freed(mmap) /\ b \notin BitmapBlocks(mmap)
  <2>1. b \in Bits(mmap) /\ b \in Nat
    BY <1>1, BlocksHaveBits, SizeTypes DEF PmmInv, TypeOK, Blocks
  <2>2. b \notin BootBits(mmap) /\ b # 0 /\ b \in pmm_bitmap
    BY <1>1 DEF PmmInv, Ownership
  <2> QED BY <2>1, <2>2 DEF BootBits
<1>2. ASSUME PmmInv PROVE OwnedIsUsable
  <2>1. mmap \in MemoryMaps
    BY <1>2 DEF PmmInv, TypeOK
  <2> SUFFICES ASSUME NEW b \in owned
               PROVE  /\ ~pmm_is_page_free(b * PMM_BLOCK_SIZE)
                      /\ is_page_aligned(BitmapAddr(mmap)) =>
                           Bytes(b) \cap (BitmapAddr(mmap) .. BitmapAddr(mmap) + BitmapBytes(mmap) - 1) = {}
                      /\ Fits(mmap) =>
                           \A a \in Bytes(b) : \E i \in Available(mmap) :
                             InRegion(mmap[i], a) \/ (~is_page_aligned(mmap[i].addr) /\ StartBlock(mmap[i]) = b)
    BY DEF OwnedIsUsable
  <2>2. ~pmm_is_page_free(b * PMM_BLOCK_SIZE)
    <3>1. (b * PMM_BLOCK_SIZE) \div PMM_BLOCK_SIZE = b
      BY <1>1, <1>2, MulDiv, PmmAssumption
    <3> QED BY <1>1, <1>2, <3>1 DEF pmm_is_page_free, pmm_test_bit
  <2> QED BY <1>1, <1>2, <2>1, <2>2, BitmapApart, FreedIsAvailable
<1> QED BY <1>2, InvAlways, PTL

-----------------------------------------------------------------------------
\* pmm.c: an allocation that returns 0 while frames are left has handed out
\* frame 0 and left it in use: the next one finds another frame.
THEOREM NullMeansFullHolds == Spec => NullMeansFull
<1>1. ASSUME TypeOK, NEW aligned_only, pmm_alloc_page_internal(aligned_only), result' = 0
      PROVE  FreeBlocks = {} \/ (0 \in FreeBlocks /\ 0 \notin FreeBlocks')
  <2>1. FreeBlocks \in SUBSET Nat
    BY <1>1, SizeTypes DEF TypeOK, FreeBlocks, Blocks
  <2>2. Candidates(aligned_only) = FreeBlocks
    <3>1. \A b \in FreeBlocks : is_page_aligned(b * PMM_BLOCK_SIZE)
      <4>1. ASSUME NEW b \in Nat PROVE (b * PMM_BLOCK_SIZE) % PMM_BLOCK_SIZE = 0
        BY PmmAssumption, SMT
      <4> QED BY <2>1, <4>1 DEF is_page_aligned
    <3> QED BY <3>1 DEF Candidates
  <2>3. CASE FreeBlocks # {}
    <3> DEFINE b == Smallest(FreeBlocks)
    <3>1. b \in FreeBlocks /\ b \in Nat
      BY <2>1, <2>3, SmallestIn
    <3>2. Take(b)
      BY <1>1, <2>2, <2>3 DEF pmm_alloc_page_internal
    <3> HIDE DEF b
    <3>3. b * PMM_BLOCK_SIZE = 0
      BY <1>1, <3>2 DEF Take
    <3>4. b = 0
      <4>1. (b * PMM_BLOCK_SIZE) \div PMM_BLOCK_SIZE = b /\ 0 \div PMM_BLOCK_SIZE = 0
        BY <3>1, MulDiv, PmmAssumption
      <4> QED BY <3>3, <4>1
    <3>5. 0 \in pmm_bitmap'
      BY <3>2, <3>4 DEF Take
    <3> QED BY <3>1, <3>4, <3>5 DEF FreeBlocks, pmm_test_bit
  <2> QED BY <2>3
<1>2. ASSUME TypeOK, pmm_alloc_page \/ pmm_alloc_page_aligned, result' = 0
      PROVE  FreeBlocks = {} \/ (0 \in FreeBlocks /\ 0 \notin FreeBlocks')
  BY <1>1, <1>2 DEF pmm_alloc_page, pmm_alloc_page_aligned
<1> QED BY <1>2, TypeCorrect, PTL DEF NullMeansFull

-----------------------------------------------------------------------------
(* The boot.  Its steps, by number: Program is spelled out, so that what a  *)
(* step is and which steps lie before another are facts about numbers.       *)

Names == {"frame", "AD", "A7", "drain", "AE", "A8", "compare", "status", "AA", "read",
          "register", "video", "tty", "sti"}

\* A list of n names, as the function it is.
LEMMA ListIs ==
  ASSUME NEW n \in Nat, NEW s \in [1 .. n -> Names]
  PROVE  s \in Seq(Names) /\ Len(s) = n
OBVIOUS

LEMMA ConcatIs ==
  ASSUME NEW n \in Nat, NEW m \in Nat, NEW s \in [1 .. n -> Names], NEW t \in [1 .. m -> Names]
  PROVE  \E f \in [1 .. n + m -> Names] :
           /\ s \o t = f
           /\ \A j \in 1 .. n + m : f[j] = IF j <= n THEN s[j] ELSE t[j - n]
<1>1. s \in Seq(Names) /\ t \in Seq(Names) /\ Len(s) = n /\ Len(t) = m
  BY ListIs
<1>2. s \o t \in Seq(Names) /\ Len(s \o t) = n + m
  BY <1>1
<1>3. s \o t \in [1 .. Len(s \o t) -> Names]
  BY <1>2, LenProperties, Zenon
<1>4. s \o t \in [1 .. n + m -> Names]
  BY ONLY <1>2, <1>3, Zenon
<1>5. \A j \in 1 .. n + m : (s \o t)[j] = IF j <= n THEN s[j] ELSE t[j - n]
  BY <1>1
<1> QED BY <1>5, <1>4

\* The calls of kmain in order, and the places the properties speak of.
LEMMA ProgramIs ==
  /\ Program = <<"frame", "frame", "frame", "frame", "AD", "A7", "drain", "AE", "A8",
                 "compare", "status", "AD", "A7", "AA", "read", "AE", "A8", "register",
                 "video", "tty", "sti">>
  /\ Ready = 22 /\ Where("drain") = 7 /\ Where("AA") = 14 /\ Where("video") = 19
<1> DEFINE a == <<"frame", "frame", "frame", "frame">>
           r == <<"register">>
           b == <<"video", "tty", "sti">>
<1>1. a \in [1 .. 4 -> Names]
  BY DEF Names
<1>2. Constructors \in [1 .. 5 -> Names]
  BY DEF Constructors, Names
<1>3. Probe \in [1 .. 8 -> Names]
  BY DEF Probe, Names
<1>4. r \in [1 .. 1 -> Names]
  BY DEF Names
<1>5. b \in [1 .. 3 -> Names]
  BY DEF Names
<1>6. Program = (((a \o Constructors) \o Probe) \o r) \o b
  BY DEF Program
<1> HIDE DEF a, r, b
<1>7. PICK c \in [1 .. 4 + 5 -> Names] :
        /\ a \o Constructors = c
        /\ \A j \in 1 .. 4 + 5 : c[j] = IF j <= 4 THEN a[j] ELSE Constructors[j - 4]
  BY ONLY <1>1, <1>2, ConcatIs, 4 \in Nat, 5 \in Nat, Zenon
<1>8. PICK d \in [1 .. 9 + 8 -> Names] :
        /\ c \o Probe = d
        /\ \A j \in 1 .. 9 + 8 : d[j] = IF j <= 9 THEN c[j] ELSE Probe[j - 9]
  <2>1. c \in [1 .. 9 -> Names] /\ 8 \in Nat /\ 9 \in Nat
    BY <1>7
  <2> QED BY ONLY <2>1, <1>3, ConcatIs, Zenon
<1>9. PICK e \in [1 .. 17 + 1 -> Names] :
        /\ d \o r = e
        /\ \A j \in 1 .. 17 + 1 : e[j] = IF j <= 17 THEN d[j] ELSE r[j - 17]
  <2>1. d \in [1 .. 17 -> Names] /\ 17 \in Nat /\ 1 \in Nat
    BY <1>8
  <2> QED BY ONLY <2>1, <1>4, ConcatIs, Zenon
<1>10. PICK f \in [1 .. 18 + 3 -> Names] :
        /\ e \o b = f
        /\ \A j \in 1 .. 18 + 3 : f[j] = IF j <= 18 THEN e[j] ELSE b[j - 18]
  <2>1. e \in [1 .. 18 -> Names] /\ 18 \in Nat /\ 3 \in Nat
    BY <1>9
  <2> QED BY ONLY <2>1, <1>5, ConcatIs, Zenon
<1>11. Program = f
  BY ONLY <1>6, <1>7, <1>8, <1>9, <1>10, Zenon
<1>12. f[1] = "frame" /\ f[2] = "frame" /\ f[3] = "frame" /\ f[4] = "frame"
       /\ f[5] = "AD" /\ f[6] = "A7" /\ f[7] = "drain" /\ f[8] = "AE" /\ f[9] = "A8"
  BY <1>7, <1>8, <1>9, <1>10 DEF a, Constructors
<1>13. f[10] = "compare" /\ f[11] = "status" /\ f[12] = "AD" /\ f[13] = "A7" /\ f[14] = "AA"
       /\ f[15] = "read" /\ f[16] = "AE" /\ f[17] = "A8"
  BY <1>8, <1>9, <1>10 DEF Probe
<1>14. f[18] = "register" /\ f[19] = "video" /\ f[20] = "tty" /\ f[21] = "sti"
  BY <1>9, <1>10 DEF r, b
<1>15. f \in [1 .. 21 -> Names] /\ f \in Seq(Names) /\ Len(f) = 21
  <2>1. f \in [1 .. 21 -> Names]
    BY <1>10
  <2>2. f \in Seq(Names) /\ Len(f) = 21
    BY ONLY <2>1, ListIs, 21 \in Nat, Zenon
  <2> QED BY <2>1, <2>2
<1>16. f = <<"frame", "frame", "frame", "frame", "AD", "A7", "drain", "AE", "A8",
             "compare", "status", "AD", "A7", "AA", "read", "AE", "A8", "register",
             "video", "tty", "sti">>
  BY <1>12, <1>13, <1>14, <1>15
<1>17. Ready = 22
  BY <1>11, <1>15 DEF Ready
<1>18. Where("drain") = 7
  BY <1>11, <1>12, <1>13, <1>14, <1>15 DEF Where
<1>19. Where("AA") = 14
  BY <1>11, <1>12, <1>13, <1>14, <1>15 DEF Where
<1>20. Where("video") = 19
  BY <1>11, <1>12, <1>13, <1>14, <1>15 DEF Where
<1> QED BY <1>11, <1>16, <1>17, <1>18, <1>19, <1>20

LEMMA PlaceIs ==
  Ready = 22 /\ Where("drain") = 7 /\ Where("AA") = 14 /\ Where("video") = 19
BY ProgramIs

LEMMA AtIs ==
  ASSUME pc \in 1 .. 22
  PROVE  /\ At("frame") <=> pc \in 1 .. 4
         /\ At("drain") <=> pc = 7
         /\ At("compare") <=> pc = 10
         /\ At("status") <=> pc = 11
         /\ At("read") <=> pc = 15
         /\ At("register") <=> pc = 18
         /\ At("video") <=> pc = 19
         /\ At("tty") <=> pc = 20
         /\ At("sti") <=> pc = 21
         /\ At("AD") <=> pc \in {5, 12}
         /\ At("A7") <=> pc \in {6, 13}
         /\ At("AE") <=> pc \in {8, 16}
         /\ At("A8") <=> pc \in {9, 17}
         /\ At("AA") <=> pc = 14
BY ProgramIs DEF At

-----------------------------------------------------------------------------
(* The null pointer's priority. *)

\* An entry whose only bits are among its three lowest is at most 7.
LEMMA WordSmall ==
  ASSUME NEW t \in 0 .. 3, pmm_bitmap \cap Entry(1) \subseteq PMM_BITS_PER_ENTRY .. PMM_BITS_PER_ENTRY + t - 1
  PROVE  Word(1) \in Int /\ Word(1) <= 7
<1> DEFINE n == PMM_BITS_PER_ENTRY
           bit(k) == IF (1 + 1) * n - k \in pmm_bitmap THEN 1 ELSE 0
           P(f) == f = [k \in 0 .. n |-> IF k = 0 THEN 0 ELSE IF k = 1 THEN -bit(k) ELSE 2 * f[k - 1] + bit(k)]
           g == CHOOSE f : P(f)
           step == [x \in (1 .. n) \X Int |-> IF x[1] = 1 THEN -bit(x[1]) ELSE 2 * x[2] + bit(x[1])]
           D == {k \in Nat : k <= n => /\ g[k] \in Int
                                       /\ k + 3 <= n => g[k] <= 0
                                       /\ k + 2 = n => g[k] <= 1
                                       /\ k + 1 = n => g[k] <= 3
                                       /\ k = n => g[k] <= 7}
<1>1. n \in Nat \ {0}
  BY PmmAssumption
<1>2. ASSUME NEW k \in 1 .. n
      PROVE  bit(k) \in {0, 1} /\ (k + 3 <= n => bit(k) = 0)
  <2>1. ASSUME k + 3 <= n PROVE 2 * n - k \notin pmm_bitmap
    <3>1. 2 * n - k \in Entry(1) /\ 2 * n - k \notin n .. n + t - 1
      BY <1>1, <2>1 DEF Entry
    <3> QED BY <3>1
  <2> QED BY <2>1
<1> HIDE DEF bit
<1>3. step \in [(1 .. n) \X Int -> Int]
  BY <1>2
<1>4. \E f : P(f)
  <2>1. PICK f \in [0 .. n -> Int] : Recursion(f, n, 0, step)
    <3>1. n \in Nat /\ 0 \in Int
      BY <1>1
    <3> HIDE DEF step, n, g, D, P
    <3> QED BY <1>3, <3>1, RecExists
  <2>2. ASSUME NEW k \in 0 .. n
        PROVE  f[k] = IF k = 0 THEN 0 ELSE IF k = 1 THEN -bit(k) ELSE 2 * f[k - 1] + bit(k)
    <3>1. CASE k = 0
      BY <2>1, <3>1 DEF Recursion
    <3>2. CASE k # 0
      <4>1. k \in 1 .. n /\ k - 1 \in 0 .. n
        BY <1>1, <3>2
      <4>2. <<k, f[k - 1]>> \in (1 .. n) \X Int
        BY <2>1, <4>1
      <4> QED BY <2>1, <3>2, <4>2 DEF Recursion
    <3> QED BY <3>1, <3>2
  <2>3. P(f)
    <3> HIDE DEF step, n
    <3> QED BY <2>1, <2>2
  <2> QED BY <2>3
<1>5. P(g)
  <2> HIDE DEF P
  <2> QED BY <1>4
<1>6. Word(1) = g[n]
  BY DEF Word, bit
<1> HIDE DEF g, n, step
<1>7. 0 \in D
  BY <1>1, <1>5
<1>8. ASSUME NEW k \in Nat, k \in D PROVE k + 1 \in D
  <2> SUFFICES ASSUME k + 1 <= n
               PROVE  /\ g[k + 1] \in Int
                      /\ k + 1 + 3 <= n => g[k + 1] <= 0
                      /\ k + 1 + 2 = n => g[k + 1] <= 1
                      /\ k + 1 + 1 = n => g[k + 1] <= 3
                      /\ k + 1 = n => g[k + 1] <= 7
    OBVIOUS
  <2>1. k + 1 \in 1 .. n /\ k + 1 \in 0 .. n /\ k \in 0 .. n
    BY <1>1
  <2>2. /\ g[k] \in Int
        /\ k + 3 <= n => g[k] <= 0
        /\ k + 2 = n => g[k] <= 1
        /\ k + 1 = n => g[k] <= 3
    BY <1>8, <2>1
  <2>3. g[k + 1] = IF k + 1 = 1 THEN -bit(k + 1) ELSE 2 * g[k] + bit(k + 1)
    BY <1>5, <2>1
  <2>4. bit(k + 1) \in {0, 1} /\ (k + 1 + 3 <= n => bit(k + 1) = 0)
    BY <1>2, <2>1
  <2> HIDE DEF P, D
  <2> QED BY <1>1, <2>1, <2>2, <2>3, <2>4
<1>9. n \in D
  <2> HIDE DEF D, P
  <2>1. \A k \in Nat : k \in D
    BY <1>7, <1>8, NatInd
  <2> QED BY <1>1, <2>1
<1> QED BY <1>1, <1>6, <1>9

LEMMA SkippedStays ==
  ASSUME UNCHANGED <<mmap, pmm_bitmap, lowWord>>
  PROVE  Skipped' = Skipped
BY DEF Skipped, NullPriority, Word

LEMMA BetweenStays ==
  ASSUME UNCHANGED came
  PROVE  Between' = Between
BY DEF Between

-----------------------------------------------------------------------------
(* The invariant. *)

\* There is a controller.
Real == kind \in {"good", "faulty", "mute"}
\* What KeyboardFound says decides whether the keyboard is found.
Found == kind = "good" /\ ~Between /\ ~Skipped
\* A key came before the drain was done.
KeyEarly == \E x \in came : x[1] = "key" /\ x[2] <= Where("drain")

BootTypes ==
  /\ pc \in 1 .. Ready /\ lowWord \in Int
  /\ kind \in {"good", "faulty", "mute", "ones", "zeros"}
  /\ latches \in BOOLEAN /\ display \in BOOLEAN
  /\ ibf \in Commands \cup {"none"} /\ ports \subseteq {"key", "aux"}
  /\ obf \in {"none", "key", "aux", kind} /\ reply \in {"none", kind}
  /\ irr \in BOOLEAN /\ input \in BOOLEAN /\ screen \in BOOLEAN
  /\ tty \in {"unset", "driver", "null"}

\* The ports that are enabled once the commands written so far are executed.
Due == IF pc \in {7, 8, 14, 15, 16} THEN {}
       ELSE IF pc \in {9, 17} THEN {"key"} ELSE IF pc = 13 THEN {"aux"} ELSE {"key", "aux"}

\* A working or broken controller has yet to execute the last command at most,
\* and then the ports are as Due says; its self-test answers once, after AA.
Controller ==
  /\ pc \in 12 .. 15 => Real
  /\ pc \in 16 .. 18 \/ input => Found
  /\ Real => /\ pc <= 5 => ibf = "none"
             /\ pc <= 14 => ibf # "AA" /\ obf # kind /\ reply = "none"
             /\ pc = 6 => "key" \notin Executed(ibf)
             /\ (pc \in 7 .. 18 \/ input) => Executed(ibf) = Due
  /\ pc = 15 => ibf \in {"AA", "none"}
  /\ pc \in 16 .. 18 \/ input => ibf # "AA" /\ obf # "good" /\ reply = "none"
  /\ kind \in {"ones", "zeros"} => ibf = "none" /\ obf = "none" /\ reply = "none"
  /\ kind = "mute" => reply = "none" /\ obf # "mute"

\* What waits in the output buffer or at the PIC, by when it came: after the
\* drain a byte waits until the self-test's read iff one came in between.
Arrivals ==
  /\ \A x \in came : x[2] \in 1 .. pc
  /\ pc \in 8 .. 14 => (obf # "none" <=> Between)
  /\ pc = 15 => IF Between THEN obf \in {"key", "aux"}
                ELSE obf \in {"none", kind} /\ (obf # "none" => reply = "none" /\ ibf = "none")
                     /\ (reply # "none" => ibf = "none")
  /\ pc >= 8 /\ obf = "key" => irr
  /\ irr => \E x \in came : x[1] = "key"
  /\ irr => obf = "key" \/ Between \/ (latches /\ KeyEarly)
  /\ pc >= 8 /\ obf = "aux" => \E x \in came : x[1] = "aux"

\* Which drivers are chosen, once their turn has come.
Drivers ==
  /\ pc \in 11 .. 15 => ~Skipped
  /\ pc <= 18 => ~input
  /\ pc >= 19 => (input <=> Found)
  /\ pc >= 20 => (screen <=> display /\ ~Skipped)
  /\ pc <= 20 => tty = "unset"
  /\ pc >= 21 => (tty = "null" <=> ~screen)

\* The frames below the kernel's image.  If four were free at first, enough are
\* left for the allocations to come, and the lowest is the one taken.
Below == 0 .. Smallest(Image) - 1
Frames ==
  Image # {} /\ Cardinality((Blocks(mmap) \ BootBits(mmap)) \cap Below) >= 4 =>
    /\ pc <= 4 => Cardinality(FreeBlocks \cap Below) >= 5 - pc
    /\ owned \subseteq Below

\* Where the bitmap's second entry is read for a priority, its frames are
\* memory and a frame before them is free, the boot takes that one first and
\* then at most three of the second entry's, the lowest.
Low ==
  BitmapAddr(mmap) = 0 /\ pmm_bitmap_size(mmap) > 1 /\ Entry(1) \subseteq Freed(mmap)
      /\ ~(Entry(0) \subseteq BootBits(mmap)) =>
    /\ pc = 1 => pmm_bitmap = BootBits(mmap)
    /\ \E t \in 0 .. 3 :
         /\ pmm_bitmap \cap Entry(1) = PMM_BITS_PER_ENTRY .. PMM_BITS_PER_ENTRY + t - 1
         /\ pc <= 4 => t = 0 \/ t + 2 <= pc

BInv == BootTypes /\ Controller /\ Arrivals /\ Drivers /\ Frames /\ Low

\* The bitmap lies before the frame that is free, so before the second entry's.
LEMMA LowAtFirst ==
  ASSUME mmap \in MemoryMaps, pmm_bitmap = BootBits(mmap)
  PROVE  Low
<1> DEFINE n == PMM_BITS_PER_ENTRY
<1> SUFFICES ASSUME BitmapAddr(mmap) = 0, pmm_bitmap_size(mmap) > 1, Entry(1) \subseteq Freed(mmap),
                    NEW f \in Entry(0), f \notin BootBits(mmap)
             PROVE  pmm_bitmap \cap Entry(1) = n .. n + 0 - 1
  BY DEF Low
<1>1. n \in Nat \ {0} /\ f \in 0 .. n - 1
  BY PmmAssumption DEF Entry
<1>2. f \in Bits(mmap)
  BY <1>1, SizeTypes DEF Bits
<1>3. f \notin BitmapBlocks(mmap)
  BY <1>2 DEF BootBits
<1>4. PICK k \in Nat : BitmapBlocks(mmap) = 0 .. k
  <2>1. 0 \div PMM_BLOCK_SIZE = 0
    BY PmmAssumption
  <2>2. BitmapBytes(mmap) \div PMM_BLOCK_SIZE \in Nat
    BY BitmapAddrType, DivType, PmmAssumption
  <2>3. BitmapBlocks(mmap) = 0 .. 0 + BitmapBytes(mmap) \div PMM_BLOCK_SIZE
    BY <2>1 DEF BitmapBlocks
  <2> QED BY <2>2, <2>3
<1>5. BitmapBlocks(mmap) \cap Entry(1) = {}
  BY <1>1, <1>3, <1>4 DEF Entry
<1>6. pmm_bitmap \cap Entry(1) = {} /\ n .. n + 0 - 1 = {}
  BY <1>1, <1>5 DEF BootBits
<1> QED BY <1>6

LEMMA InitB == BootInit => BInv
<1> SUFFICES ASSUME BootInit PROVE BInv
  OBVIOUS
<1> USE PlaceIs
<1>1. BootTypes
  <2>1. ports \subseteq {"key", "aux"} /\ obf \in {"none", "key", "aux"}
    BY DEF BootInit
  <2>2. /\ pc = 1 /\ ibf = "none" /\ reply = "none" /\ tty = "unset" /\ came = {}
        /\ irr = FALSE /\ input = FALSE /\ screen = FALSE
        /\ latches \in BOOLEAN /\ display \in BOOLEAN
        /\ kind \in {"good", "faulty", "mute", "ones", "zeros"}
    BY DEF BootInit
  <2>3. pc \in 1 .. Ready /\ lowWord \in Int
    BY <2>2, BootAssumption DEF BootInit
  <2> QED BY <2>1, <2>2, <2>3 DEF BootTypes
<1>2. ~Between
  BY DEF BootInit, Between
<1>3. Controller
  BY DEF BootInit, Controller, Real, Executed, Due
<1>4. Arrivals
  BY <1>2 DEF BootInit, Arrivals
<1>5. Drivers
  BY DEF BootInit, Drivers
<1>6. Frames
  <2>1. FreeBlocks = Blocks(mmap) \ BootBits(mmap)
    BY DEF BootInit, Init, FreeBlocks, pmm_test_bit
  <2> QED BY <2>1 DEF BootInit, Init, Frames
<1>7. Low
  BY LowAtFirst DEF BootInit, Init
<1> QED BY <1>1, <1>3, <1>4, <1>5, <1>6, <1>7 DEF BInv

LEMMA FramesStay ==
  ASSUME Frames, UNCHANGED frames, pc' = pc \/ pc' >= 5, pc' \in Nat
  PROVE  Frames'
BY DEF Frames, frames, Blocks, BootBits, FreeBlocks, pmm_test_bit

LEMMA LowStays ==
  ASSUME Low, UNCHANGED frames, pc' = pc \/ pc' >= 5, pc' \in Nat
  PROVE  Low'
<1>1. UNCHANGED <<mmap, pmm_bitmap>>
  BY DEF frames
<1>2. pc' = 1 => pc = 1
  OBVIOUS
<1>3. pc' <= 4 => pc <= 4 /\ pc' = pc
  OBVIOUS
<1> QED BY ONLY Low, <1>1, <1>2, <1>3 DEF Low

-----------------------------------------------------------------------------
(* The steps of kmain and of the controller, one lemma for each. *)

\* The null pointer's priority decides where kmain goes on: BInv remembers.
LEMMA CompareB == BInv /\ Compare => BInv'
<1> SUFFICES ASSUME BInv, Compare PROVE BInv'
  OBVIOUS
<1> USE PlaceIs
<1>1. /\ pc = 10 /\ pc' \in {11, 19} /\ (Skipped => pc' = 19) /\ (~Skipped => pc' = 11)
      /\ UNCHANGED <<frames, machine, i8042, input, screen, tty, came>>
  <2>1. pc \in 1 .. 22 /\ At("compare")
    BY DEF BInv, BootTypes, Compare
  <2>2. pc = 10
    BY <2>1, AtIs
  <2>3. (Skipped => pc' = 19) /\ (~Skipped => pc' = pc + 1)
    BY DEF Compare, Go, NoDriver
  <2>4. UNCHANGED <<frames, machine, i8042, input, screen, tty, came>>
    BY DEF Compare
  <2> QED BY <2>2, <2>3, <2>4
<1>2. UNCHANGED <<mmap, pmm_bitmap, lowWord, kind, latches, display, ibf, obf, reply, ports, irr>>
      /\ UNCHANGED <<input, screen, tty, came>>
  BY <1>1 DEF frames, machine, i8042
<1>3. Skipped' = Skipped /\ Between' = Between
  BY <1>2, SkippedStays, BetweenStays
<1>4. BootTypes'
  <2>1. pc' \in 1 .. Ready
    BY <1>1
  <2> QED BY ONLY <2>1, <1>2, BInv DEF BInv, BootTypes
<1>5. Controller'
  BY <1>1, <1>2, <1>3 DEF BInv, BootTypes, Controller, Drivers, Executed, Due, Real, Found
<1>6. Arrivals'
  BY <1>1, <1>2, <1>3 DEF BInv, BootTypes, Arrivals, Drivers, KeyEarly, Found
<1>7. Drivers'
  BY <1>1, <1>2, <1>3 DEF BInv, BootTypes, Controller, Drivers, Found
<1>8. Frames' /\ Low'
  BY <1>1, FramesStay, LowStays DEF BInv
<1> QED BY <1>4, <1>5, <1>6, <1>7, <1>8 DEF BInv

\* An absent controller is noticed here, if the boot comes this far.
LEMMA StatusB == BInv /\ Status => BInv'
<1> SUFFICES ASSUME BInv, Status PROVE BInv'
  OBVIOUS
<1> USE PlaceIs
<1>1. pc = 11 /\ (kind \in {"ones", "zeros"} => pc' = 19) /\ (kind \notin {"ones", "zeros"} => pc' = 12)
  <2>1. pc \in 1 .. 22 /\ At("status")
    BY DEF BInv, BootTypes, Status
  <2>2. pc = 11
    BY <2>1, AtIs
  <2> QED BY <2>2 DEF Status, Go, NoDriver
<1>2. UNCHANGED <<mmap, pmm_bitmap, pmm_used_blocks, result, owned, lowWord, kind, latches,
                  display, ibf, obf, reply, ports, irr, input, screen, tty, came>>
  BY DEF Status, frames, machine, i8042
<1>3. Skipped' = Skipped /\ Between' = Between
  BY <1>2, SkippedStays, BetweenStays
<1>4. BootTypes'
  <2>1. pc' \in 1 .. Ready
    BY <1>1
  <2> QED BY ONLY <2>1, <1>2, BInv DEF BInv, BootTypes
<1>5. Controller'
  BY <1>1, <1>2, <1>3 DEF BInv, BootTypes, Controller, Drivers, Executed, Due, Real, Found
<1>6. Arrivals'
  BY <1>1, <1>2, <1>3 DEF BInv, BootTypes, Arrivals, Drivers, KeyEarly, Found
<1>7. Drivers'
  BY <1>1, <1>2, <1>3 DEF BInv, BootTypes, Controller, Drivers, Found
<1>8. Frames' /\ Low'
  BY <1>1, <1>2, FramesStay, LowStays DEF BInv, frames
<1> QED BY <1>4, <1>5, <1>6, <1>7, <1>8 DEF BInv

LEMMA RegisterB == BInv /\ ps2kbd_init => BInv'
<1> SUFFICES ASSUME BInv, ps2kbd_init PROVE BInv'
  OBVIOUS
<1> USE PlaceIs
<1>1. pc = 18 /\ pc' = 19 /\ input' = TRUE
  <2>1. pc \in 1 .. 22 /\ At("register")
    BY DEF BInv, BootTypes, ps2kbd_init
  <2>2. pc = 18
    BY <2>1, AtIs
  <2> QED BY <2>2 DEF ps2kbd_init, Go, NoDriver
<1>2. UNCHANGED <<mmap, pmm_bitmap, pmm_used_blocks, result, owned, lowWord, kind,
                  latches, display, ibf, obf, reply, ports, irr, screen, tty, came>>
  BY DEF ps2kbd_init, frames, machine, i8042
<1>3. Skipped' = Skipped /\ Between' = Between
  BY <1>2, SkippedStays, BetweenStays
<1>4. BootTypes'
  <2>1. pc' \in 1 .. Ready
    BY <1>1
  <2>2. input' \in BOOLEAN
    BY <1>1
  <2> QED BY ONLY <2>1, <2>2, <1>2, BInv DEF BInv, BootTypes
<1>5. Controller'
  BY <1>1, <1>2, <1>3 DEF BInv, BootTypes, Controller, Drivers, Executed, Due, Real, Found
<1>6. Arrivals'
  BY <1>1, <1>2, <1>3 DEF BInv, BootTypes, Arrivals, Drivers, KeyEarly, Found
<1>7. Drivers'
  BY <1>1, <1>2, <1>3 DEF BInv, BootTypes, Controller, Drivers, Found
<1>8. Frames' /\ Low'
  BY <1>1, <1>2, FramesStay, LowStays DEF BInv, frames
<1> QED BY <1>4, <1>5, <1>6, <1>7, <1>8 DEF BInv

LEMMA VideoB == BInv /\ video_init => BInv'
<1> SUFFICES ASSUME BInv, video_init PROVE BInv'
  OBVIOUS
<1> USE PlaceIs
<1>1. pc = 19 /\ pc' = 20 /\ screen' = (display /\ ~Skipped)
  <2>1. pc \in 1 .. 22 /\ At("video")
    BY DEF BInv, BootTypes, video_init
  <2>2. pc = 19
    BY <2>1, AtIs
  <2> QED BY <2>2 DEF video_init, Go, NoDriver
<1>2. UNCHANGED <<mmap, pmm_bitmap, pmm_used_blocks, result, owned, lowWord, kind,
                  latches, display, ibf, obf, reply, ports, irr, input, tty, came>>
  BY DEF video_init, frames, machine, i8042
<1>3. Skipped' = Skipped /\ Between' = Between
  BY <1>2, SkippedStays, BetweenStays
<1>4. BootTypes'
  <2>1. pc' \in 1 .. Ready
    BY <1>1
  <2>2. screen' \in BOOLEAN
    BY <1>1
  <2> QED BY ONLY <2>1, <2>2, <1>2, BInv DEF BInv, BootTypes
<1>5. Controller'
  BY <1>1, <1>2, <1>3 DEF BInv, BootTypes, Controller, Drivers, Executed, Due, Real, Found
<1>6. Arrivals'
  BY <1>1, <1>2, <1>3 DEF BInv, BootTypes, Arrivals, Drivers, KeyEarly, Found
<1>7. Drivers'
  BY <1>1, <1>2, <1>3 DEF BInv, BootTypes, Controller, Drivers, Found
<1>8. Frames' /\ Low'
  BY <1>1, <1>2, FramesStay, LowStays DEF BInv, frames
<1> QED BY <1>4, <1>5, <1>6, <1>7, <1>8 DEF BInv

LEMMA TtyB == BInv /\ tty_init => BInv'
<1> SUFFICES ASSUME BInv, tty_init PROVE BInv'
  OBVIOUS
<1> USE PlaceIs
<1>1. pc = 20 /\ pc' = 21 /\ tty' = IF screen THEN "driver" ELSE "null"
  <2>1. pc \in 1 .. 22 /\ At("tty")
    BY DEF BInv, BootTypes, tty_init
  <2>2. pc = 20
    BY <2>1, AtIs
  <2> QED BY <2>2 DEF tty_init, Go, NoDriver
<1>2. UNCHANGED <<mmap, pmm_bitmap, pmm_used_blocks, result, owned, lowWord, kind,
                  latches, display, ibf, obf, reply, ports, irr, input, screen, came>>
  BY DEF tty_init, frames, machine, i8042
<1>3. Skipped' = Skipped /\ Between' = Between
  BY <1>2, SkippedStays, BetweenStays
<1>4. BootTypes'
  <2>1. pc' \in 1 .. Ready
    BY <1>1
  <2>2. tty' \in {"unset", "driver", "null"}
    BY <1>1
  <2> QED BY ONLY <2>1, <2>2, <1>2, BInv DEF BInv, BootTypes
<1>5. Controller'
  BY <1>1, <1>2, <1>3 DEF BInv, BootTypes, Controller, Drivers, Executed, Due, Real, Found
<1>6. Arrivals'
  BY <1>1, <1>2, <1>3 DEF BInv, BootTypes, Arrivals, Drivers, KeyEarly, Found
<1>7. Drivers'
  BY <1>1, <1>2, <1>3 DEF BInv, BootTypes, Controller, Drivers, Found
<1>8. Frames' /\ Low'
  BY <1>1, <1>2, FramesStay, LowStays DEF BInv, frames
<1> QED BY <1>4, <1>5, <1>6, <1>7, <1>8 DEF BInv

LEMMA StiB == BInv /\ cpu_enable_interrupts => BInv'
<1> SUFFICES ASSUME BInv, cpu_enable_interrupts PROVE BInv'
  OBVIOUS
<1> USE PlaceIs
<1>1. pc = 21 /\ pc' = 22
  <2>1. pc \in 1 .. 22 /\ At("sti")
    BY DEF BInv, BootTypes, cpu_enable_interrupts
  <2>2. pc = 21
    BY <2>1, AtIs
  <2> QED BY <2>2 DEF cpu_enable_interrupts, Go, NoDriver
<1>2. UNCHANGED <<mmap, pmm_bitmap, pmm_used_blocks, result, owned, lowWord, kind, latches,
                  display, ibf, obf, reply, ports, irr, input, screen, tty, came>>
  BY DEF cpu_enable_interrupts, frames, machine, i8042
<1>3. Skipped' = Skipped /\ Between' = Between
  BY <1>2, SkippedStays, BetweenStays
<1>4. BootTypes'
  <2>1. pc' \in 1 .. Ready
    BY <1>1
  <2> QED BY ONLY <2>1, <1>2, BInv DEF BInv, BootTypes
<1>5. Controller'
  BY <1>1, <1>2, <1>3 DEF BInv, BootTypes, Controller, Drivers, Executed, Due, Real, Found
<1>6. Arrivals'
  BY <1>1, <1>2, <1>3 DEF BInv, BootTypes, Arrivals, Drivers, KeyEarly, Found
<1>7. Drivers'
  BY <1>1, <1>2, <1>3 DEF BInv, BootTypes, Controller, Drivers, Found
<1>8. Frames' /\ Low'
  BY <1>1, <1>2, FramesStay, LowStays DEF BInv, frames
<1> QED BY <1>4, <1>5, <1>6, <1>7, <1>8 DEF BInv

\* What the drain leaves of a key is what the PIC latched.
LEMMA DrainB == BInv /\ Drain => BInv'
<1> SUFFICES ASSUME BInv, Drain PROVE BInv'
  OBVIOUS
<1> USE PlaceIs
<1>1. /\ pc = 7
      /\ \/ OutputFull /\ obf' = "none" /\ irr' = (irr /\ latches) /\ pc' = 7
         \/ ~OutputFull /\ pc' = 8 /\ obf' = obf /\ irr' = irr
  <2>1. pc \in 1 .. 22 /\ At("drain")
    BY DEF BInv, BootTypes, Drain
  <2>2. pc = 7
    BY <2>1, AtIs
  <2> QED BY <2>2 DEF Drain, Go, Taken
<1>2. UNCHANGED <<mmap, pmm_bitmap, pmm_used_blocks, result, owned, lowWord,
                  kind, latches, display, ibf, reply, ports, input, screen, tty, came>>
  BY DEF Drain, frames, machine
<1>3. Skipped' = Skipped /\ Between' = Between
  BY <1>2, SkippedStays, BetweenStays
<1>4. BootTypes'
  <2>1. pc' \in 1 .. Ready /\ obf' \in {"none", obf} /\ irr' \in BOOLEAN
    BY <1>1 DEF BInv, BootTypes
  <2> QED BY ONLY <2>1, <1>2, BInv DEF BInv, BootTypes
<1>5. Controller'
  BY <1>1, <1>2, <1>3 DEF BInv, BootTypes, Controller, Drivers, Executed, Due, Real, Found
<1>6. Arrivals'
  <2>1. ~Between /\ (irr /\ latches => irr)
    BY <1>1 DEF BInv, Arrivals, Between
  <2>2. irr => KeyEarly
    BY <1>1 DEF BInv, Arrivals, KeyEarly
  <2>3. CASE OutputFull
    <3>1. obf' = "none" /\ pc' = 7 /\ (irr' => irr /\ latches)
      BY <1>1, <2>3
    <3>2. KeyEarly' = KeyEarly
      BY <1>2 DEF KeyEarly
    <3>3. (\E x \in came : x[1] = "key")' <=> \E x \in came : x[1] = "key"
      BY <1>2
    <3> QED BY <1>1, <1>2, <1>3, <2>1, <2>2, <3>1, <3>2, <3>3 DEF BInv, Arrivals
  <2>4. CASE ~OutputFull
    <3>1. obf' = obf /\ pc' = 8 /\ obf = "none" /\ irr' = irr
      BY <1>1, <2>4 DEF OutputFull
    <3> QED BY <1>1, <1>2, <1>3, <2>1, <3>1 DEF BInv, Arrivals, KeyEarly
  <2> QED BY <2>3, <2>4
<1>7. Drivers'
  BY <1>1, <1>2, <1>3 DEF BInv, BootTypes, Controller, Drivers, Found
<1>8. Frames' /\ Low'
  BY <1>1, <1>2, FramesStay, LowStays DEF BInv, frames
<1> QED BY <1>4, <1>5, <1>6, <1>7, <1>8 DEF BInv

\* A command is written when the last is executed, and Due is what it will do.
LEMMA WriteB == BInv /\ i8042_write_cmd => BInv'
<1> SUFFICES ASSUME BInv, i8042_write_cmd PROVE BInv'
  OBVIOUS
<1> USE PlaceIs
<1>1. PICK cmd \in Commands : At(cmd) /\ ~InputFull /\ ibf' = IF kind = "zeros" THEN "none" ELSE cmd
  BY DEF i8042_write_cmd
<1>2. /\ pc \in {5, 6, 8, 9, 12, 13, 14, 16, 17} /\ pc' = pc + 1
      /\ cmd = IF pc \in {5, 12} THEN "AD" ELSE IF pc \in {6, 13} THEN "A7"
               ELSE IF pc \in {8, 16} THEN "AE" ELSE IF pc = 14 THEN "AA" ELSE "A8"
  <2>1. pc \in 1 .. 22 /\ cmd \in {"AD", "A7", "AE", "A8", "AA"} /\ At(cmd) /\ pc' = pc + 1
    BY <1>1 DEF BInv, BootTypes, Commands, i8042_write_cmd, Go
  <2> QED BY <2>1, AtIs
<1>3. UNCHANGED <<mmap, pmm_bitmap, pmm_used_blocks, result, owned, lowWord, kind,
                  latches, display, obf, reply, ports, irr, input, screen, tty, came>>
  BY DEF i8042_write_cmd, frames, machine
<1>4. Skipped' = Skipped /\ Between' = Between
  BY <1>3, SkippedStays, BetweenStays
<1>5. kind # "ones" /\ ibf = "none" /\ (kind = "zeros" => ibf' = "none") /\ (kind # "zeros" => ibf' = cmd)
  BY <1>1 DEF InputFull
<1>6. BootTypes'
  <2>1. pc' \in 1 .. Ready /\ ibf' \in Commands \cup {"none"}
    BY <1>1, <1>2
  <2> QED BY ONLY <2>1, <1>3, BInv DEF BInv, BootTypes
<1>7. Controller'
  BY <1>2, <1>3, <1>4, <1>5 DEF BInv, BootTypes, Controller, Drivers, Executed, Due, Real, Found
<1>8. Arrivals'
  BY <1>2, <1>3, <1>4, <1>5 DEF BInv, BootTypes, Controller, Arrivals, Drivers, KeyEarly, Found, Real
<1>9. Drivers'
  BY <1>2, <1>3, <1>4 DEF BInv, BootTypes, Controller, Drivers, Found
<1>10. Frames' /\ Low'
  BY <1>2, <1>3, FramesStay, LowStays DEF BInv, frames
<1> QED BY <1>6, <1>7, <1>8, <1>9, <1>10 DEF BInv

\* The read: the byte is the answer unless one came in between.
LEMMA ReadB == BInv /\ i8042_read_data => BInv'
<1> SUFFICES ASSUME BInv, i8042_read_data PROVE BInv'
  OBVIOUS
<1> USE PlaceIs
<1>1. /\ pc = 15 /\ OutputFull /\ obf' = "none" /\ irr' = (irr /\ latches)
      /\ (obf = "good" => pc' = 16) /\ (obf # "good" => pc' = 19)
  <2>1. pc \in 1 .. 22 /\ At("read")
    BY DEF BInv, BootTypes, i8042_read_data
  <2>2. pc = 15
    BY <2>1, AtIs
  <2> QED BY <2>2 DEF i8042_read_data, Go, NoDriver, Taken
<1>2. UNCHANGED <<mmap, pmm_bitmap, pmm_used_blocks, result, owned, lowWord,
                  kind, latches, display, ibf, reply, ports, input, screen, tty, came>>
  BY DEF i8042_read_data, frames, machine
<1>3. Skipped' = Skipped /\ Between' = Between
  BY <1>2, SkippedStays, BetweenStays
<1>4. Real /\ obf # "none" /\ ~Skipped
  BY <1>1 DEF BInv, Controller, Drivers, OutputFull, Real
<1>5. obf = "good" => kind = "good" /\ ~Between /\ reply = "none" /\ ibf = "none"
  BY <1>1, <1>4 DEF BInv, Arrivals, Real
<1>6. obf # "good" => ~(kind = "good" /\ ~Between)
  BY <1>1, <1>4 DEF BInv, Arrivals, Real
<1>7. BootTypes'
  <2>1. pc' \in 1 .. Ready /\ irr' \in BOOLEAN
    BY <1>1 DEF BInv, BootTypes
  <2> QED BY ONLY <2>1, <1>1, <1>2, BInv DEF BInv, BootTypes
<1>8. Controller'
  BY <1>1, <1>2, <1>3, <1>4, <1>5 DEF BInv, BootTypes, Controller, Drivers, Executed, Due, Real, Found
<1>9. Arrivals'
  <2>1. obf = "key" => Between
    BY <1>1, <1>4 DEF BInv, Arrivals, Real
  <2>2. KeyEarly' = KeyEarly
    BY <1>2 DEF KeyEarly
  <2>3. (\E x \in came : x[1] = "key")' <=> \E x \in came : x[1] = "key"
    BY <1>2
  <2>4. irr' => irr /\ (Between \/ (latches /\ KeyEarly))
    BY <1>1, <2>1 DEF BInv, Arrivals
  <2> QED BY <1>1, <1>2, <1>3, <2>2, <2>3, <2>4 DEF BInv, Arrivals
<1>10. Drivers'
  BY <1>1, <1>2, <1>3, <1>6 DEF BInv, BootTypes, Controller, Drivers, Found
<1>11. Frames' /\ Low'
  BY <1>1, <1>2, FramesStay, LowStays DEF BInv, frames
<1> QED BY <1>7, <1>8, <1>9, <1>10, <1>11 DEF BInv

\* Executing the command turns what was due into what is so.
LEMMA ExecuteB == BInv /\ Execute => BInv'
<1> SUFFICES ASSUME BInv, Execute PROVE BInv'
  OBVIOUS
<1> USE PlaceIs
<1>1. /\ ibf # "none" /\ ibf' = "none" /\ ports' = Executed(ibf)
      /\ reply' = IF ibf = "AA" /\ kind # "mute" THEN kind ELSE reply
  BY DEF Execute
<1>2. UNCHANGED <<mmap, pmm_bitmap, pmm_used_blocks, result, owned, lowWord,
                  kind, latches, display, pc, obf, irr, input, screen, tty, came>>
  BY DEF Execute, frames, machine
<1>3. Skipped' = Skipped /\ Between' = Between
  BY <1>2, SkippedStays, BetweenStays
<1>4. BootTypes'
  <2>1. ports' \subseteq {"key", "aux"} /\ reply' \in {"none", kind} /\ ibf' \in Commands \cup {"none"}
    BY <1>1 DEF BInv, BootTypes, Executed
  <2> QED BY ONLY <2>1, <1>2, BInv DEF BInv, BootTypes
<1>5. Executed(ibf)' = Executed(ibf) /\ Due' = Due
  BY <1>1, <1>2 DEF Executed, Due
<1>6. Controller'
  BY <1>1, <1>2, <1>3, <1>5 DEF BInv, BootTypes, Controller, Real, Found
<1>7. Arrivals'
  BY <1>1, <1>2, <1>3 DEF BInv, BootTypes, Arrivals, KeyEarly
<1>8. Drivers'
  BY <1>2, <1>3 DEF BInv, Drivers, Found
<1>9. Frames' /\ Low'
  BY <1>2, FramesStay, LowStays DEF BInv, BootTypes, frames
<1> QED BY <1>4, <1>6, <1>7, <1>8, <1>9 DEF BInv

LEMMA AnswerB == BInv /\ Answer => BInv'
<1> SUFFICES ASSUME BInv, Answer PROVE BInv'
  OBVIOUS
<1> USE PlaceIs
<1>1. reply # "none" /\ obf = "none" /\ obf' = reply /\ reply' = "none"
  BY DEF Answer
<1>2. UNCHANGED <<mmap, pmm_bitmap, pmm_used_blocks, result, owned, lowWord, kind,
                  latches, display, pc, ibf, ports, irr, input, screen, tty, came>>
  BY DEF Answer, frames, machine
<1>3. Skipped' = Skipped /\ Between' = Between
  BY <1>2, SkippedStays, BetweenStays
<1>4. reply = kind /\ kind \in {"good", "faulty"}
  BY <1>1 DEF BInv, BootTypes, Controller
<1>5. BootTypes'
  <2>1. obf' \in {"none", "key", "aux", kind} /\ reply' \in {"none", kind}
    BY <1>1, <1>4
  <2> QED BY ONLY <2>1, <1>2, BInv DEF BInv, BootTypes
<1>6. Controller'
  BY <1>1, <1>2, <1>3, <1>4 DEF BInv, BootTypes, Controller, Real, Found, Executed, Due
<1>7. Arrivals'
  BY <1>1, <1>2, <1>3, <1>4 DEF BInv, BootTypes, Arrivals, KeyEarly, Controller, Real
<1>8. Drivers'
  BY <1>2, <1>3 DEF BInv, Drivers, Found
<1>9. Frames' /\ Low'
  BY <1>2, FramesStay, LowStays DEF BInv, BootTypes, frames
<1> QED BY <1>5, <1>6, <1>7, <1>8, <1>9 DEF BInv

\* No byte comes between the self-test's command and its read: both ports are
\* disabled by then.
LEMMA ArriveB == ASSUME NEW port \in {"key", "aux"} PROVE BInv /\ Arrive(port) => BInv'
<1> SUFFICES ASSUME BInv, Arrive(port) PROVE BInv'
  OBVIOUS
<1> USE PlaceIs
<1>1. /\ pc < Ready /\ Real /\ port \in ports /\ obf = "none" /\ reply = "none"
      /\ obf' = port /\ irr' = (irr \/ port = "key") /\ came' = came \cup {<<port, pc>>}
  BY DEF Arrive, BInv, BootTypes, Real
<1>2. UNCHANGED <<mmap, pmm_bitmap, pmm_used_blocks, result, owned, lowWord,
                  kind, latches, display, pc, ibf, reply, ports, input, screen, tty>>
  BY DEF Arrive, frames, machine
<1>3. Skipped' = Skipped
  BY <1>2, SkippedStays
<1>4. Between' <=> Between \/ pc \in 8 .. 14
  <2>1. Between <=> \E x \in came : x[2] \in 8 .. 14
    BY DEF Between
  <2>2. Between' <=> \E x \in came' : x[2] \in 8 .. 14
    BY DEF Between
  <2> QED BY ONLY <1>1, <2>1, <2>2, <<port, pc>>[2] = pc
<1>5. pc # 15
  BY <1>1 DEF BInv, Controller, Executed, Due
<1>6. BootTypes'
  <2>1. obf' \in {"none", "key", "aux", kind} /\ irr' \in BOOLEAN
    BY <1>1
  <2> QED BY ONLY <2>1, <1>2, BInv DEF BInv, BootTypes
<1>7. Controller'
  BY <1>1, <1>2, <1>3, <1>4 DEF BInv, BootTypes, Controller, Drivers, Real, Found, Executed, Due
<1>8. Arrivals'
  <2>1. (\A x \in came : x[2] \in 1 .. pc)'
    BY <1>1, <1>2 DEF BInv, BootTypes, Arrivals
  <2>2. (\E x \in came : x[1] = "key")' <=> port = "key" \/ \E x \in came : x[1] = "key"
    BY ONLY <1>1, <<port, pc>>[1] = port
  <2>3. (\E x \in came : x[1] = "aux")' <=> port = "aux" \/ \E x \in came : x[1] = "aux"
    BY ONLY <1>1, <<port, pc>>[1] = port
  <2>4. KeyEarly => KeyEarly'
    BY <1>1 DEF KeyEarly
  <2> QED BY <1>1, <1>2, <1>4, <1>5, <2>1, <2>2, <2>3, <2>4 DEF BInv, Arrivals
<1>9. Drivers'
  BY <1>2, <1>3, <1>4 DEF BInv, Drivers, Found, BootTypes
<1>10. Frames' /\ Low'
  BY <1>2, FramesStay, LowStays DEF BInv, BootTypes, frames
<1> QED BY <1>6, <1>7, <1>8, <1>9, <1>10 DEF BInv

\* An allocation of vmm_init or heap_init takes the lowest free frame, for every
\* frame is aligned.
LEMMA FrameIs ==
  ASSUME BInv, PmmInv, Frame
  PROVE  /\ pc \in 1 .. 4 /\ pc' = pc + 1 /\ mmap' = mmap
         /\ \/ FreeBlocks = {} /\ FreeBlocks' = FreeBlocks /\ owned' = owned /\ pmm_bitmap' = pmm_bitmap
            \/ \E b \in FreeBlocks : /\ \A c \in FreeBlocks : b <= c
                                     /\ FreeBlocks' = FreeBlocks \ {b}
                                     /\ owned' \subseteq owned \cup {b}
                                     /\ pmm_bitmap' = pmm_bitmap \cup {b}
<1>1. pc \in 1 .. 4 /\ pc' = pc + 1
  <2>1. pc \in 1 .. 22 /\ At("frame") /\ pc' = pc + 1
    BY PlaceIs DEF BInv, BootTypes, Frame, Go
  <2> QED BY <2>1, AtIs
<1>2. Candidates(TRUE) = FreeBlocks
  <2>1. \A b \in FreeBlocks : is_page_aligned(b * PMM_BLOCK_SIZE)
    <3>1. ASSUME NEW b \in FreeBlocks PROVE is_page_aligned(b * PMM_BLOCK_SIZE)
      <4>1. b \in Nat
        BY SizeTypes DEF PmmInv, TypeOK, FreeBlocks, Blocks
      <4>2. (PMM_BLOCK_SIZE * b) % PMM_BLOCK_SIZE = 0 /\ b * PMM_BLOCK_SIZE = PMM_BLOCK_SIZE * b
        BY <4>1, ModZero, PmmAssumption
      <4> QED BY <4>2 DEF is_page_aligned
    <3> QED BY <3>1
  <2> QED BY <2>1 DEF Candidates
<1>3. pmm_alloc_page_internal(TRUE)
  BY DEF Frame, pmm_alloc_page_aligned
<1>4. CASE FreeBlocks = {}
  <2>1. UNCHANGED <<mmap, pmm_bitmap, owned>>
    BY <1>2, <1>3, <1>4 DEF pmm_alloc_page_internal
  <2>2. FreeBlocks' = FreeBlocks
    BY <2>1 DEF FreeBlocks, pmm_test_bit, Blocks
  <2> QED BY <1>1, <1>4, <2>1, <2>2
<1>5. CASE FreeBlocks # {}
  <2> DEFINE b == Smallest(FreeBlocks)
  <2>1. FreeBlocks \in SUBSET Nat
    BY SizeTypes DEF PmmInv, TypeOK, FreeBlocks, Blocks
  <2>2. b \in FreeBlocks /\ \A c \in FreeBlocks : b <= c
    <3>1. \E x \in FreeBlocks : \A y \in FreeBlocks : x <= y
      BY <1>5, <2>1, NatMin
    <3> QED BY <3>1 DEF Smallest
  <2>3. Take(b)
    BY <1>2, <1>3, <1>5 DEF pmm_alloc_page_internal
  <2> HIDE DEF b
  <2>4. mmap' = mmap /\ owned' \subseteq owned \cup {b} /\ pmm_bitmap' = pmm_bitmap \cup {b}
    BY <2>3 DEF Take
  <2>5. FreeBlocks' = FreeBlocks \ {b}
    BY <2>3 DEF Take, FreeBlocks, pmm_test_bit, Blocks
  <2> QED BY <1>1, <2>2, <2>4, <2>5
<1> QED BY <1>4, <1>5

LEMMA LowFrame ==
  ASSUME BInv, PmmInv, Frame
  PROVE  Low'
<1> DEFINE n == PMM_BITS_PER_ENTRY
<1>1. n \in Nat \ {0} /\ pc \in 1 .. 4 /\ pc' = pc + 1 /\ mmap' = mmap
  BY FrameIs, PmmAssumption
<1> SUFFICES ASSUME BitmapAddr(mmap) = 0, pmm_bitmap_size(mmap) > 1, Entry(1) \subseteq Freed(mmap),
                    ~(Entry(0) \subseteq BootBits(mmap))
             PROVE  \E t \in 0 .. 3 : /\ pmm_bitmap' \cap Entry(1) = n .. n + t - 1
                                      /\ t = 0 \/ t + 2 <= pc'
  BY <1>1 DEF Low, Freed, BootBits
<1>2. PICK t \in 0 .. 3 : pmm_bitmap \cap Entry(1) = n .. n + t - 1 /\ (t = 0 \/ t + 2 <= pc)
  BY <1>1 DEF BInv, Low
<1>3. CASE pmm_bitmap' = pmm_bitmap
  BY <1>1, <1>2, <1>3
<1>4. ASSUME NEW b \in FreeBlocks, \A c \in FreeBlocks : b <= c, pmm_bitmap' = pmm_bitmap \cup {b}
      PROVE  \E u \in 0 .. 3 : /\ pmm_bitmap' \cap Entry(1) = n .. n + u - 1
                               /\ u = 0 \/ u + 2 <= pc'
  <2>1. b \in Nat /\ b \notin pmm_bitmap /\ b < pmm_max_blocks(mmap) /\ pmm_max_blocks(mmap) \in Nat
    BY SizeTypes DEF PmmInv, TypeOK, FreeBlocks, Blocks, pmm_test_bit
  <2>2. CASE b \notin Entry(1)
    <3>1. pmm_bitmap' \cap Entry(1) = pmm_bitmap \cap Entry(1)
      BY <1>4, <2>2
    <3> QED BY <1>1, <1>2, <3>1
  <2>3. CASE b \in Entry(1)
    <3>1. b \in n .. 2 * n - 1 /\ \A c \in n .. b : c \in Entry(1)
      BY <1>1, <2>1, <2>3 DEF Entry
    <3>2. pc # 1
      <4> SUFFICES ASSUME pc = 1 PROVE FALSE
        OBVIOUS
      <4>1. PICK f \in Entry(0) : f \notin pmm_bitmap
        BY DEF BInv, Low
      <4>2. f \in 0 .. n - 1
        BY <1>1, <4>1 DEF Entry
      <4>3. f \in FreeBlocks
        BY <1>1, <2>1, <3>1, <4>1, <4>2 DEF FreeBlocks, Blocks, pmm_test_bit
      <4> QED BY <1>1, <1>4, <3>1, <4>2, <4>3
    <3>3. b = n + t
      <4>1. b \notin n .. n + t - 1
        BY <1>2, <2>1, <2>3
      <4>2. ASSUME n + t < b PROVE FALSE
        <5>1. n + t \in Entry(1) /\ n + t \notin n .. n + t - 1
          BY <1>1, <3>1, <4>2
        <5>2. n + t \notin pmm_bitmap
          BY <1>2, <5>1
        <5>3. n + t \in FreeBlocks
          BY <1>1, <2>1, <4>2, <5>2 DEF FreeBlocks, Blocks, pmm_test_bit
        <5> QED BY <1>1, <1>4, <2>1, <4>2, <5>3
      <4> QED BY <1>1, <2>1, <3>1, <4>1, <4>2
    <3>4. pmm_bitmap' \cap Entry(1) = n .. n + (t + 1) - 1
      <4>1. pmm_bitmap' \cap Entry(1) = (n .. n + t - 1) \cup {n + t}
        BY <1>2, <1>4, <2>3, <3>3
      <4>2. (n .. n + t - 1) \cup {n + t} = n .. n + (t + 1) - 1
        BY <1>1
      <4> QED BY <4>1, <4>2
    <3>5. t + 1 \in 0 .. 3 /\ t + 1 + 2 <= pc'
      BY <1>1, <1>2, <3>2
    <3> QED BY <3>4, <3>5
  <2> QED BY <2>2, <2>3
<1> QED BY <1>3, <1>4, FrameIs

\* The frames: four are taken, each the lowest, so all lie below the image.
LEMMA FrameB == BInv /\ PmmInv /\ Frame => BInv'
<1> SUFFICES ASSUME BInv, PmmInv, Frame PROVE BInv'
  OBVIOUS
<1> USE PlaceIs
<1>1. pc \in 1 .. 4 /\ pc' = pc + 1 /\ mmap' = mmap
  BY FrameIs
<1>2. UNCHANGED <<lowWord, kind, latches, display, ibf, obf, reply, ports, irr, input, screen, tty, came>>
  BY DEF Frame, machine, i8042
<1>3. Between' = Between
  BY <1>2, BetweenStays
<1>4. BootTypes'
  <2>1. pc' \in 1 .. Ready
    BY <1>1
  <2> QED BY ONLY <2>1, <1>2, BInv DEF BInv, BootTypes
<1>5. ~input
  BY <1>1 DEF BInv, Drivers
<1>6. Controller'
  BY <1>1, <1>2, <1>5 DEF BInv, BootTypes, Controller, Executed, Due, Real
<1>7. Arrivals'
  BY <1>1, <1>2, <1>3 DEF BInv, BootTypes, Arrivals, KeyEarly
<1>8. Drivers'
  BY <1>1, <1>2, <1>5 DEF BInv, Drivers
<1>9. Frames'
  <2> SUFFICES ASSUME Image # {}, Cardinality((Blocks(mmap) \ BootBits(mmap)) \cap Below) >= 4
               PROVE  /\ pc' <= 4 => Cardinality(FreeBlocks' \cap Below) >= 5 - pc'
                      /\ owned' \subseteq Below
    BY <1>1 DEF Frames, Blocks, BootBits, Below
  <2> DEFINE F == FreeBlocks \cap Below
  <2>1. Cardinality(F) >= 5 - pc /\ owned \subseteq Below
    BY <1>1 DEF BInv, Frames
  <2>2. IsFiniteSet(F) /\ Cardinality(F) \in Nat
    <3>1. IsFiniteSet(Blocks(mmap))
      <4>1. 0 \in Int /\ pmm_max_blocks(mmap) - 1 \in Int
        BY SizeTypes DEF PmmInv, TypeOK
      <4>2. IsFiniteSet(0 .. pmm_max_blocks(mmap) - 1)
        BY ONLY <4>1, FS_Interval, Zenon
      <4> QED BY <4>2 DEF Blocks
    <3>2. F \in SUBSET Blocks(mmap)
      BY DEF FreeBlocks
    <3> HIDE DEF F
    <3> QED BY <3>1, <3>2, FS_Subset, FS_CardinalityType
  <2>3. F # {}
    <3> HIDE DEF F
    <3> QED BY <1>1, <2>1, FS_EmptySet
  <2>4. PICK b \in FreeBlocks : /\ \A c \in FreeBlocks : b <= c
                                /\ FreeBlocks' = FreeBlocks \ {b}
                                /\ owned' \subseteq owned \cup {b}
    BY <2>3, FrameIs
  <2>5. b \in Below
    <3>1. Smallest(Image) \in Nat
      BY SmallestIn, BootAssumption
    <3>2. b \in Nat
      BY SizeTypes DEF PmmInv, TypeOK, FreeBlocks, Blocks
    <3>3. PICK y \in F : TRUE
      BY <2>3
    <3>4. b <= y /\ y \in 0 .. Smallest(Image) - 1
      BY <2>4, <3>3 DEF Below
    <3> QED BY <3>1, <3>2, <3>4 DEF Below
  <2>6. FreeBlocks' \cap Below = F \ {b} /\ b \in F
    BY <2>4, <2>5
  <2> HIDE DEF F
  <2>7. Cardinality(FreeBlocks' \cap Below) = Cardinality(F) - 1
    BY <2>2, <2>6, FS_RemoveElement
  <2> QED BY <1>1, <2>1, <2>2, <2>4, <2>5, <2>7
<1> QED BY <1>4, <1>6, <1>7, <1>8, <1>9, LowFrame DEF BInv

\* A step of the boot is one of the frame manager or leaves it alone.
LEMMA BootStepIs == BootNext => (Frame /\ pmm_alloc_page_aligned) \/ UNCHANGED vars
BY DEF BootNext, Cpu, Frame, i8042_write_cmd, Drain, Compare, Status, i8042_read_data,
       ps2kbd_init, video_init, tty_init, cpu_enable_interrupts, Execute, Answer, Arrive,
       frames, vars

LEMMA BootStepB == BInv /\ PmmInv /\ [BootNext]_bootVars => BInv'
<1> SUFFICES ASSUME BInv, PmmInv, [BootNext]_bootVars PROVE BInv'
  OBVIOUS
<1>1. CASE Cpu
  BY <1>1, FrameB, WriteB, DrainB, CompareB, StatusB, ReadB, RegisterB, VideoB, TtyB, StiB DEF Cpu
<1>2. CASE Execute
  BY <1>2, ExecuteB
<1>3. CASE Answer
  BY <1>3, AnswerB
<1>4. CASE \E port \in {"key", "aux"} : Arrive(port)
  BY <1>4, ArriveB
<1>5. CASE UNCHANGED bootVars
  <2>1. UNCHANGED <<mmap, pmm_bitmap, pmm_used_blocks, result, owned, lowWord, kind, latches, display,
                    ibf, obf, reply, ports, irr, pc, input, screen, tty, came>>
    BY <1>5 DEF bootVars, frames, machine, i8042
  <2>2. Skipped' = Skipped /\ Between' = Between
    BY <2>1, SkippedStays, BetweenStays
  <2>3. BootTypes'
    BY ONLY <2>1, BInv DEF BInv, BootTypes
  <2>4. Controller'
    BY <2>1, <2>2 DEF BInv, Controller, Executed, Due, Real, Found
  <2>5. Arrivals'
    BY <2>1, <2>2 DEF BInv, Arrivals, KeyEarly
  <2>6. Drivers'
    BY <2>1, <2>2 DEF BInv, Drivers, Found
  <2>7. Frames' /\ Low'
    BY <2>1, FramesStay, LowStays, PlaceIs DEF BInv, BootTypes, frames
  <2> QED BY <2>3, <2>4, <2>5, <2>6, <2>7 DEF BInv
<1> QED BY <1>1, <1>2, <1>3, <1>4, <1>5 DEF BootNext

-----------------------------------------------------------------------------
(* The theorems. *)

\* pmm.c: the boot uses the frame manager only by pmm_alloc_page_aligned, so
\* what is proved of the manager holds of the boot.
THEOREM BootIsPmm == BootSpec => Spec
<1>1. BootInit => Init
  BY DEF BootInit
<1>2. [BootNext]_bootVars => [Next]_vars
  <2>1. UNCHANGED bootVars => UNCHANGED vars
    BY DEF bootVars, frames, vars
  <2> QED BY <2>1, BootStepIs DEF Next
<1> QED BY <1>1, <1>2, PTL DEF BootSpec, Spec

\* BInv needs PmmInv for the frames only.
LEMMA BInvAlways == BootSpec => []BInv
<1>1. PmmInv /\ BInv /\ [BootNext]_bootVars => BInv'
  BY BootStepB
<1>2. BootSpec => []PmmInv
  BY BootIsPmm, InvAlways, PTL
<1> QED BY <1>1, <1>2, InitB, PTL DEF BootSpec

\* input.c, i8042.c: whatever the memory map and whenever bytes arrive, the
\* keyboard is found exactly if the controller works, no byte slips in between
\* the two initialisations and the null pointer's priority is not the higher.
THEOREM KeyboardIsFound == BootSpec => []KeyboardFound
<1>1. BInv => KeyboardFound
  <2> SUFFICES ASSUME BInv PROVE KeyboardFound
    OBVIOUS
  <2>1. pc = Ready => (input <=> kind = "good" /\ ~Between /\ ~Skipped)
    BY PlaceIs DEF BInv, Drivers, Found
  <2>2. ASSUME Skipped, Entry(1) \subseteq Freed(mmap), ~(Entry(0) \subseteq BootBits(mmap))
        PROVE  lowWord > Priority
    <3>1. CASE BitmapAddr(mmap) = 0 /\ pmm_bitmap_size(mmap) > 1
      <4>1. PICK t \in 0 .. 3 : pmm_bitmap \cap Entry(1) = PMM_BITS_PER_ENTRY .. PMM_BITS_PER_ENTRY + t - 1
        BY <2>2, <3>1 DEF BInv, Low
      <4>2. Word(1) \in Int /\ Word(1) <= 7
        BY <4>1, WordSmall
      <4>3. Priority < Word(1)
        BY <2>2, <3>1 DEF Skipped, NullPriority
      <4> QED BY <4>2, <4>3, BootAssumption
    <3>2. CASE ~(BitmapAddr(mmap) = 0 /\ pmm_bitmap_size(mmap) > 1)
      <4>1. Priority < lowWord
        BY <2>2, <3>2 DEF Skipped, NullPriority
      <4>2. lowWord \in Int
        BY DEF BInv, BootTypes
      <4> QED BY <4>1, <4>2, BootAssumption
    <3> QED BY <3>1, <3>2
  <2> QED BY <2>1, <2>2 DEF KeyboardFound
<1> QED BY <1>1, BInvAlways, PTL

\* main.c: whatever the memory map and whenever bytes arrive, the loop starts
\* with a request for each key that waits, both ports enabled, the screen's size
\* from its driver if there is one and none skipped, and no frame of the
\* kernel's image given away if four below it were free.
THEOREM HandsOver == BootSpec => []Handover
<1>1. BInv => Handover
  <2> SUFFICES ASSUME BInv, pc = Ready PROVE Handover
    BY DEF Handover
  <2> USE PlaceIs
  <2>1. input => /\ Found /\ Executed(ibf) = {"key", "aux"} /\ reply = "none"
                 /\ obf \in {"none", "key", "aux"}
    BY DEF BInv, Controller, BootTypes, Real, Found, Due
  <2>2. input => /\ (obf = "key" => irr) /\ (irr /\ obf # "key" => latches /\ KeyEarly)
                 /\ (obf = "aux" => \E x \in came : x[1] = "aux")
    BY <2>1 DEF BInv, Arrivals, Found
  <2>3. tty = "null" => ~display \/ Skipped
    BY DEF BInv, Drivers
  <2>4. Cardinality((Blocks(mmap) \ BootBits(mmap)) \cap Below) >= 4 => owned \cap Image = {}
    <3> SUFFICES ASSUME Image # {}, Cardinality((Blocks(mmap) \ BootBits(mmap)) \cap Below) >= 4
                 PROVE  owned \cap Image = {}
      OBVIOUS
    <3>1. owned \subseteq Below
      BY DEF BInv, Frames
    <3>2. Smallest(Image) \in Nat /\ \A y \in Image : y \in Nat /\ Smallest(Image) <= y
      <4>1. \E x \in Image : \A y \in Image : x <= y
        BY NatMin, BootAssumption
      <4> QED BY <4>1, BootAssumption DEF Smallest
    <3> QED BY <3>1, <3>2 DEF Below
  <2> QED BY <2>1, <2>2, <2>3, <2>4 DEF Handover, KeyEarly, Below
<1> QED BY <1>1, BInvAlways, PTL
=============================================================================
