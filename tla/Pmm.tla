--------------------------------- MODULE Pmm ---------------------------------
(***************************************************************************)
(* The physical memory manager of kernel/mm/pmm.c: pmm_init builds a       *)
(* bitmap of page frames from the boot loader's memory map, the others     *)
(* hand out the lowest free frame and take frames back.                    *)
(*                                                                         *)
(* The kernel calls these functions from its one thread only, so each is   *)
(* one step.  An address is a byte number; a set bit of the bitmap, a      *)
(* frame in use.                                                           *)
(***************************************************************************)
EXTENDS Integers, Sequences, FiniteSets

CONSTANTS
  PMM_BLOCK_SIZE,      \* bytes in a frame (4096)
  PMM_BITS_PER_ENTRY,  \* bits in an entry of the bitmap (32)
  EntryBytes,          \* sizeof(uint32_t)
  AddressSpace,        \* 2^32, the modulus of uint32_t
  MemoryMaps           \* the memory maps a boot loader may pass

Region == [addr : Nat, len : Nat, available : BOOLEAN]

ASSUME PmmAssumption ==
  /\ PMM_BLOCK_SIZE \in Nat \ {0}
  /\ PMM_BITS_PER_ENTRY \in Nat \ {0}
  /\ EntryBytes \in Nat \ {0}
  /\ AddressSpace \in Nat \ {0}
  /\ MemoryMaps \subseteq Seq(Region)

VARIABLES
  mmap,        \* mb_info->mmap, never written
  pmm_bitmap,  \* the bits that are set
  pmm_used_blocks,
  result,      \* what the last pmm_alloc_page returned
  owned        \* history: frames handed out and not yet given back

vars == <<mmap, pmm_bitmap, pmm_used_blocks, result, owned>>

uint32(n) == n % AddressSpace
Smallest(S) == CHOOSE x \in S : \A y \in S : x <= y
Largest(S)  == CHOOSE x \in S : \A y \in S : y <= x

-----------------------------------------------------------------------------
(* pmm_init, as functions of the memory map. *)

Available(m) == {i \in DOMAIN m : m[i].available}

\* end_addr is a uint32_t: a region that ends at or above 4 GiB wraps.
max_mem(m) == Largest({0} \cup {uint32(m[i].addr + m[i].len) : i \in Available(m)})

BitmapSizeMutant(m) == (max_mem(m) \div PMM_BLOCK_SIZE) \div PMM_BITS_PER_ENTRY
pmm_max_blocks(m)  == max_mem(m) \div PMM_BLOCK_SIZE
pmm_bitmap_size(m) == (pmm_max_blocks(m) + PMM_BITS_PER_ENTRY - 1) \div PMM_BITS_PER_ENTRY
BitmapBytes(m)     == pmm_bitmap_size(m) * EntryBytes
Blocks(m)          == 0 .. pmm_max_blocks(m) - 1
Bits(m)            == 0 .. pmm_bitmap_size(m) * PMM_BITS_PER_ENTRY - 1

\* The bitmap goes to the start of the first available region that can hold
\* it, and to address 0 if there is none.
BitmapAddr(m) ==
  LET fits == {i \in Available(m) : m[i].len >= BitmapBytes(m)}
  IN  IF fits = {} THEN 0 ELSE uint32(m[Smallest(fits)].addr)

StartBlockMutant(r) == uint32(r.addr \div PMM_BLOCK_SIZE) - 1
StartBlock(r) == uint32(r.addr \div PMM_BLOCK_SIZE)
EndBlock(r)   == uint32((r.addr + r.len) \div PMM_BLOCK_SIZE)

\* The frames marked free: all those of the available regions.
Freed(m) == UNION {StartBlock(m[i]) .. EndBlock(m[i]) - 1 : i \in Available(m)}

\* The frames then marked used, and counted, for the bitmap itself.
BitmapBlocks(m) ==
  LET start == BitmapAddr(m) \div PMM_BLOCK_SIZE
  IN  start .. start + BitmapBytes(m) \div PMM_BLOCK_SIZE

\* The bits set when pmm_init returns, and the bits it writes outside the bitmap.
BootBits(m) == Bits(m) \cap ((Bits(m) \ Freed(m)) \cup BitmapBlocks(m))
Stray(m)    == (Freed(m) \cup BitmapBlocks(m)) \ Bits(m)

Init ==
  /\ mmap \in MemoryMaps
  /\ pmm_bitmap = BootBits(mmap)
  /\ pmm_used_blocks = Cardinality(BitmapBlocks(mmap))
  /\ result = 0
  /\ owned = {}

-----------------------------------------------------------------------------
max_blocks == pmm_max_blocks(mmap)
pmm_test_bit(b) == b \in pmm_bitmap
FreeBlocks == {b \in Blocks(mmap) : ~pmm_test_bit(b)}
is_page_aligned(addr) == addr % PMM_BLOCK_SIZE = 0

CandidatesMutant(aligned_only) == {b \in FreeBlocks : b < max_blocks - 1}
\* The frames the search may take; every frame address is aligned, so
\* aligned_only excludes none.
Candidates(aligned_only) ==
  {b \in FreeBlocks : aligned_only => is_page_aligned(b * PMM_BLOCK_SIZE)}

TakeUncountedMutant(b) ==
  /\ pmm_bitmap' = pmm_bitmap \cup {b}
  /\ result' = b * PMM_BLOCK_SIZE
  /\ owned' = owned \cup ({b} \ {0})
  /\ UNCHANGED <<mmap, pmm_used_blocks>>
TakeUnmarkedMutant(b) ==
  /\ pmm_used_blocks' = pmm_used_blocks + 1
  /\ result' = b * PMM_BLOCK_SIZE
  /\ owned' = owned \cup ({b} \ {0})
  /\ UNCHANGED <<mmap, pmm_bitmap>>

\* Address 0 is also what failure returns, so a caller that is given frame 0
\* does not know it.
Take(b) ==
  /\ pmm_bitmap' = pmm_bitmap \cup {b}
  /\ pmm_used_blocks' = pmm_used_blocks + 1
  /\ result' = b * PMM_BLOCK_SIZE
  /\ owned' = owned \cup ({b} \ {0})
  /\ UNCHANGED mmap

pmm_alloc_page_internal(aligned_only) ==
  IF Candidates(aligned_only) = {}
    THEN result' = 0 /\ UNCHANGED <<mmap, pmm_bitmap, pmm_used_blocks, owned>>
    ELSE Take(Smallest(Candidates(aligned_only)))

pmm_alloc_page         == pmm_alloc_page_internal(FALSE)
pmm_alloc_page_aligned == pmm_alloc_page_internal(TRUE)

FreeMutant(page) ==
  LET b == page \div PMM_BLOCK_SIZE IN
    /\ pmm_bitmap' = pmm_bitmap \ {b}
    /\ pmm_used_blocks' = pmm_used_blocks - 1
    /\ owned' = owned \ {b}
    /\ UNCHANGED <<mmap, result>>

pmm_free_page(page) ==
  LET b == page \div PMM_BLOCK_SIZE IN
    /\ IF b < max_blocks /\ pmm_test_bit(b)
         THEN pmm_bitmap' = pmm_bitmap \ {b} /\ pmm_used_blocks' = pmm_used_blocks - 1
         ELSE UNCHANGED <<pmm_bitmap, pmm_used_blocks>>
    /\ owned' = owned \ {b}
    /\ UNCHANGED <<mmap, result>>

\* A caller gives back a frame it was handed.  vmm_free_page also passes
\* address 0 when the page it is asked to unmap has no mapping.
Free == \E page \in {b * PMM_BLOCK_SIZE : b \in owned} \cup {0} : pmm_free_page(page)

pmm_get_free_page_count == max_blocks - pmm_used_blocks
pmm_is_page_free(page) ==
  /\ page % PMM_BLOCK_SIZE = 0
  /\ page \div PMM_BLOCK_SIZE < max_blocks
  /\ ~pmm_test_bit(page \div PMM_BLOCK_SIZE)

Next == pmm_alloc_page \/ pmm_alloc_page_aligned \/ Free
Spec == Init /\ [][Next]_vars

-----------------------------------------------------------------------------
(* Properties. *)

TypeOK ==
  /\ mmap \in MemoryMaps
  /\ pmm_bitmap \subseteq Bits(mmap)
  /\ pmm_used_blocks \in Nat
  /\ result \in Nat
  /\ owned \subseteq Blocks(mmap)

\* pmm.c: apart from frame 0, the frames in use are exactly those pmm_init
\* left set and those callers hold, and no caller holds one of the former: a
\* frame is never in two hands, and one given back is free again.
Ownership ==
  /\ owned \cap BootBits(mmap) = {}
  /\ 0 \notin owned
  /\ pmm_bitmap \ {0} = (BootBits(mmap) \cup owned) \ {0}

\* pmm.c: pmm_used_blocks counts the bitmap's own frames but not the reserved
\* ones pmm_init leaves set, so the free count it yields is above the number
\* of frames that can be allocated, by the same amount at all times.
FreeCountSkew ==
  pmm_get_free_page_count + Cardinality(BitmapBlocks(mmap) \ Blocks(mmap))
    = Cardinality(FreeBlocks)
      + Cardinality((Blocks(mmap) \cap BootBits(mmap)) \ BitmapBlocks(mmap))

InRegion(r, a) == r.addr <= a /\ a < r.addr + r.len
Fits(m)  == \A i \in Available(m) : m[i].addr + m[i].len < AddressSpace
Bytes(b) == b * PMM_BLOCK_SIZE .. (b + 1) * PMM_BLOCK_SIZE - 1

\* pmm.c: a frame a caller holds is not reported free, shares no byte with a
\* bitmap that starts on a frame boundary, and (for maps below 4 GiB) is
\* available memory to the last byte, unless a region that is not frame-aligned
\* starts in it: the start is rounded down.
OwnedIsUsable ==
  \A b \in owned :
    /\ ~pmm_is_page_free(b * PMM_BLOCK_SIZE)
    /\ is_page_aligned(BitmapAddr(mmap)) =>
         Bytes(b) \cap (BitmapAddr(mmap) .. BitmapAddr(mmap) + BitmapBytes(mmap) - 1) = {}
    /\ Fits(mmap) =>
         \A a \in Bytes(b) : \E i \in Available(mmap) :
           InRegion(mmap[i], a) \/ (~is_page_aligned(mmap[i].addr) /\ StartBlock(mmap[i]) = b)

\* pmm.c: pmm_init writes outside the bitmap only for a region that reaches
\* 4 GiB, or a bitmap that reaches beyond the last whole frame of memory: the
\* frame after the bitmap's last is marked too, and need have no bit.
InitStaysInBitmap ==
  Stray(mmap) # {} =>
    \/ ~Fits(mmap)
    \/ (BitmapAddr(mmap) + BitmapBytes(mmap)) \div PMM_BLOCK_SIZE >= max_blocks

\* pmm.c: an allocation fails while frames are left only by handing out frame
\* 0, which is then in use: the failure does not repeat.
NullMeansFull ==
  [][(pmm_alloc_page \/ pmm_alloc_page_aligned) /\ result' = 0
       => FreeBlocks = {} \/ (0 \in FreeBlocks /\ 0 \notin FreeBlocks')]_vars
=============================================================================
