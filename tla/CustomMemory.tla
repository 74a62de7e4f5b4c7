---------------------------- MODULE CustomMemory ----------------------------
(***************************************************************************)
(* The host-side allocator of the otoroshi extension                       *)
(* (runtime/src/otoroshi/custom_memory.rs): it hands out ranges of the     *)
(* guest's exported memory to host functions, keeping its books outside    *)
(* that memory, in a map of live blocks and a list of free ones.           *)
(***************************************************************************)
EXTENDS Integers, Sequences, FiniteSets, Functions

CONSTANTS
  PageSize,      (* PAGE_SIZE                                              *)
  Threshold,     (* BLOCK_SIZE_THRESHOLD                                   *)
  CompactAt,     (* the 1024 bytes of free memory that start a compaction  *)
  InitPages,     (* pages of the guest's memory                            *)
  MaxPages,      (* pages memory.grow will not go beyond                   *)
  Requests,      (* the lengths host functions ask for                     *)
  MaxBlocks      (* bound of the model: live and free blocks at once       *)

ASSUME CustomMemoryAssumption ==
  /\ PageSize \in Nat \ {0} /\ Threshold \in Nat \ {0} /\ CompactAt \in Nat
  /\ InitPages \in Nat \ {0} /\ MaxPages \in Nat /\ InitPages <= MaxPages
  /\ Requests \subseteq Nat /\ MaxBlocks \in Nat

VARIABLES
  live,          (* live_blocks: offset -> length                          *)
  free,          (* the Vec of free blocks                                 *)
  position,      (* the first offset never handed out                      *)
  pages,         (* size of the memory                                     *)
  compacted,     (* whether a compaction ran since reset; not in the code  *)
  emptied        (* whether free took an empty block since; not in the code*)

vars == <<live, free, position, pages, compacted, emptied>>

MemoryBlock(offset, len) == [offset |-> offset, length |-> len]
MemorySize == pages * PageSize
End(b) == b.offset + b.length
NoLive == [o \in {} |-> 0]

(* BTreeMap::insert: a live block at the same offset is written over.      *)
MakeLive(b) ==
  live' = [o \in DOMAIN live \cup {b.offset} |-> IF o = b.offset THEN b.length ELSE live[o]]

-----------------------------------------------------------------------------
(* alloc.                                                                  *)

Usable(b, n) == b.length = n \/ b.length - n >= Threshold

FirstUsable(i, n) ==
  Usable(free[i], n) /\ \A j \in DOMAIN free : j < i => ~Usable(free[j], n)

(* Vec::swap_remove: the last element takes the place of the removed one.  *)
SwapRemove(s, i) == [k \in 1 .. Len(s) - 1 |-> IF k = i THEN s[Len(s)] ELSE s[k]]

TakeExact(i, n) ==
  /\ free[i].length = n
  /\ MakeLive(free[i])
  /\ free' = SwapRemove(free, i)

(* Mutant: the list keeps the length the block had.                        *)
TakeFrontKeepsLength(i, n) ==
  /\ free[i].length # n
  /\ MakeLive(MemoryBlock(free[i].offset, n))
  /\ free' = [free EXCEPT ![i] = MemoryBlock(@.offset + n, @.length)]

(* The caller gets the front of the block, the list keeps the rest.        *)
TakeFront(i, n) ==
  /\ free[i].length # n
  /\ MakeLive(MemoryBlock(free[i].offset, n))
  /\ free' = [free EXCEPT ![i] = MemoryBlock(@.offset + n, @.length - n)]

AllocFree(n) ==
  /\ \E i \in DOMAIN free : FirstUsable(i, n) /\ (TakeExact(i, n) \/ TakeFront(i, n))
  /\ UNCHANGED <<position, pages, compacted, emptied>>

NoneUsable(n) == \A i \in DOMAIN free : ~Usable(free[i], n)
NeedsGrowth(n) == position + n >= MemorySize

(* Mutant: without `ceil`.                                                 *)
PagesNeededFloor(n) == (position + n - MemorySize) \div PageSize

PagesNeeded(n) ==
  LET ceil == (position + n - MemorySize + PageSize - 1) \div PageSize
  IN IF ceil = 0 THEN 1 ELSE ceil

Place(n) ==
  /\ MakeLive(MemoryBlock(position, n))
  /\ position' = position + n
  /\ UNCHANGED <<free, compacted, emptied>>

AllocBump(n) ==
  /\ NoneUsable(n) /\ ~NeedsGrowth(n)
  /\ Place(n)
  /\ UNCHANGED pages

AllocGrow(n) ==
  /\ NoneUsable(n) /\ NeedsGrowth(n)
  /\ pages + PagesNeeded(n) <= MaxPages
  /\ pages' = pages + PagesNeeded(n)
  /\ Place(n)

(* memory.grow fails, and alloc returns its error.                         *)
AllocFails(n) ==
  /\ NoneUsable(n) /\ NeedsGrowth(n)
  /\ UNCHANGED vars

Alloc(n) == AllocFree(n) \/ AllocBump(n) \/ AllocGrow(n) \/ AllocFails(n)

-----------------------------------------------------------------------------
(* free and reset.                                                         *)

FreeSize(s) == SumFunction([i \in DOMAIN s |-> s[i].length])

(* The loop of free: the first block is kept; of every later one only the  *)
(* union with its predecessor in the list is, when the two are adjacent.   *)
Compact(s) ==
  LET kept[k \in DOMAIN s] ==
        IF k = 1 THEN <<s[1]>>
        ELSE IF End(s[k - 1]) = s[k].offset
          THEN Append(kept[k - 1],
                      MemoryBlock(s[k - 1].offset, s[k - 1].length + s[k].length))
          ELSE kept[k - 1]
  IN kept[Len(s)]

(* An offset that is no live block is ignored.                             *)
Free(o) ==
  LET pushed == Append(free, MemoryBlock(o, live[o]))
      full == FreeSize(pushed) >= CompactAt
  IN /\ o \in DOMAIN live
     /\ live' = [q \in DOMAIN live \ {o} |-> live[q]]
     /\ free' = IF full THEN Compact(pushed) ELSE pushed
     /\ compacted' = (compacted \/ full)
     /\ emptied' = (emptied \/ live[o] = 0)
     /\ UNCHANGED <<position, pages>>

(* Mutant: allocation starts over at offset 0.                             *)
ResetToZero ==
  /\ live' = NoLive
  /\ free' = <<>>
  /\ position' = 0
  /\ compacted' = FALSE /\ emptied' = FALSE
  /\ UNCHANGED pages

Reset ==
  /\ live' = NoLive
  /\ free' = <<>>
  /\ position' = 1
  /\ compacted' = FALSE /\ emptied' = FALSE
  /\ UNCHANGED pages

-----------------------------------------------------------------------------
Init ==
  /\ live = NoLive
  /\ free = <<>>
  /\ position = 1
  /\ pages = InitPages
  /\ compacted = FALSE /\ emptied = FALSE

Bounded == Cardinality(DOMAIN live) + Len(free) <= MaxBlocks

Next ==
  \/ \E n \in Requests : Alloc(n) /\ Bounded'
  \/ \E o \in DOMAIN live : Free(o)
  \/ Reset

Spec == Init /\ [][Next]_vars

-----------------------------------------------------------------------------
(* Properties.                                                             *)

(* Offsets are positive numbers, 0 means failure; lengths may be 0.         *)
TypeOK ==
  /\ live \in [DOMAIN live -> Nat] /\ DOMAIN live \subseteq Nat \ {0}
  /\ free \in Seq([offset : Nat \ {0}, length : Nat])
  /\ position \in Nat \ {0} /\ pages \in Nat
  /\ compacted \in BOOLEAN /\ emptied \in BOOLEAN

(* Every block handed out or kept lies below position, and position inside *)
(* the guest's memory: host functions never get a range that is not there, *)
(* whatever was split or merged.                                           *)
BlocksInMemory ==
  /\ \A o \in DOMAIN live : o + live[o] <= position
  /\ \A i \in DOMAIN free : End(free[i]) <= position
  /\ position <= MemorySize

LiveDisjoint ==
  \A o, q \in DOMAIN live : o < q => o + live[o] <= q

(* Until free memory reaches the compaction threshold the books are right: *)
(* live and free blocks share no byte, so nothing is handed out twice, and *)
(* as long as no empty block was freed they account for every byte below   *)
(* position, so nothing leaks. A freed empty block may be given to a       *)
(* second empty request at the offset of a live block: the code then       *)
(* writes over that block's length, and its bytes are in no block any more.*)
ExactUntilCompaction ==
  ~compacted =>
    /\ LiveDisjoint
    /\ \A i, j \in DOMAIN free :
         i # j => End(free[i]) <= free[j].offset \/ End(free[j]) <= free[i].offset
    /\ \A o \in DOMAIN live, i \in DOMAIN free :
         o + live[o] <= free[i].offset \/ End(free[i]) <= o
    /\ FreeSize(free) + SumFunction(live) <= position - 1
    /\ ~emptied => FreeSize(free) + SumFunction(live) = position - 1

(* "Perform compaction if there is at least 1kb of free memory available"  *)
(* (custom_memory.rs:137): two live blocks never overlap, compaction or no.*)
CompactionKeepsLiveApart == LiveDisjoint

=============================================================================
