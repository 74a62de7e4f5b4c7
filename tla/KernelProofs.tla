---------------------------- MODULE KernelProofs ----------------------------
(***************************************************************************)
(* The safety of the kernel's allocator for every layout, every number of  *)
(* blocks and every set of requests that a 32-bit usize can hold.          *)
(***************************************************************************)
EXTENDS Kernel, TLAPS

(* alloc takes a u64 and converts it with `as usize`: the guarantees hold  *)
(* for requests that survive the conversion with their header.             *)
ASSUME RequestsFit == \A n \in Requests : n + HeaderSize < WordMod

(* The inductive invariant: tiling gives the place of the block after a    *)
(* split or bumped one, BlocksUsed that a reused block is large enough.    *)
KernelInv ==
  /\ TypeOK
  /\ HeapTiled
  /\ WithinMemory
  /\ BlocksUsed
  /\ SlackBounded
  /\ InputLive

-----------------------------------------------------------------------------
LEMMA LayoutFacts ==
  /\ PageSize \in Nat /\ RootSize \in Nat /\ HeaderSize \in Nat
  /\ SplitSize \in Nat /\ WordMod \in Nat /\ InitPages \in Nat /\ MaxPages \in Nat
  /\ RootSize > 0 /\ HeaderSize > 0 /\ HeaderSize <= SplitSize
  /\ 2 * RootSize <= PageSize
  /\ InitPages >= 1
BY KernelAssumption

(* A request that fits is what the allocator works with.                   *)
LEMMA UsizeExact ==
  ASSUME NEW n \in Requests
  PROVE  n \in Nat /\ n > 0 /\ Usize(n) = n
BY KernelAssumption, RequestsFit DEF Usize

(* num_pages rounds up: that many pages hold k bytes.                      *)
LEMMA PagesCover ==
  ASSUME NEW k \in Nat, k < WordMod
  PROVE  NumPages(k) \in Nat /\ NumPages(k) * PageSize >= k
BY LayoutFacts DEF NumPages

LEMMA InitInv == Init => KernelInv
<1> SUFFICES ASSUME Init PROVE KernelInv
  OBVIOUS
<1> USE LayoutFacts DEF Init
<1>1. Blocks = {} /\ block = NoBlocks
  BY DEF NoBlocks, Blocks
<1>2. TypeOK
  BY <1>1 DEF TypeOK, NoBlocks, Nowhere, Range
<1>3. HeapTiled /\ BlocksUsed /\ SlackBounded
  BY <1>1 DEF HeapTiled, BlocksUsed, SlackBounded
<1>4. WithinMemory
  <2>1. InitPages * PageSize >= PageSize
    OBVIOUS
  <2>2. QED
    BY <1>1, <2>1 DEF WithinMemory, MemLeft, MemorySize
<1>5. InputLive
  BY DEF InputLive, Nowhere, Range
<1>6. QED
  BY <1>2, <1>3, <1>4, <1>5 DEF KernelInv

(* A header offset is determined by the handle of its block.               *)
LEMMA HandleInjective ==
  ASSUME KernelInv, NEW a \in Blocks, NEW b \in Blocks, HandleOf(a) = HandleOf(b)
  PROVE  a = b
BY LayoutFacts DEF KernelInv, TypeOK, HandleOf, Base

(* What find_block returns for the handle of a live block.                 *)
LEMMA LiveFound ==
  ASSUME KernelInv, NEW a \in Blocks, IsActive(a)
  PROVE  Finds(HandleOf(a), a) /\ LengthOf(HandleOf(a)) = block[a].used
<1>1. /\ a \in Nat /\ block[a].size \in Nat /\ Base + EndOf(a) <= MemorySize
      /\ MemorySize \in Nat
  BY LayoutFacts DEF KernelInv, TypeOK, WithinMemory, MemorySize
<1>2. Finds(HandleOf(a), a)
  BY <1>1, LayoutFacts DEF Finds, HandleOf, Base, InBoundsFast, EndOf
<1>3. \A b \in Blocks : Finds(HandleOf(a), b) => b = a
  BY HandleInjective DEF Finds
<1>4. QED
  BY <1>2, <1>3 DEF LengthOf

-----------------------------------------------------------------------------
(* A whole freed block is reused: only its status and `used` change.       *)
LEMMA TakeWholeInv ==
  ASSUME KernelInv, NEW n \in Requests, NEW a \in Blocks, FirstFit(a, n), TakeWhole(a, n),
         UNCHANGED <<position, length, pages, registers>>
  PROVE  KernelInv'
<1> USE LayoutFacts DEF KernelInv
<1>1. /\ block[a].status = "Free" /\ n <= block[a].size /\ block[a].size < n + SplitSize
      /\ n \in Nat /\ a \in Nat /\ block[a].size \in Nat
      /\ block[a] \in [status : {"Unused", "Active", "Free"}, size : Nat, used : Nat]
  BY UsizeExact DEF FirstFit, Fits, TakeWhole, Splits, TypeOK, BlocksUsed
<1>2. block' = [block EXCEPT ![a] = Block("Active", block[a].size, n)]
  BY UsizeExact DEF TakeWhole
<1>3. /\ Blocks' = Blocks
      /\ \A b \in Blocks : b # a => block'[b] = block[b]
      /\ block'[a].status = "Active" /\ block'[a].size = block[a].size /\ block'[a].used = n
  BY <1>2 DEF Blocks, TypeOK, Block
<1>4. \A b \in Blocks : EndOf(b)' = EndOf(b)
  BY <1>3 DEF EndOf
<1>5. TypeOK'
  BY <1>1, <1>2, <1>3 DEF TypeOK, Block, Blocks, registers
<1>6. HeapTiled'
  BY <1>3, <1>4 DEF HeapTiled
<1>7. WithinMemory'
  BY <1>3, <1>4 DEF WithinMemory, MemLeft, MemorySize
<1>8. BlocksUsed' /\ SlackBounded'
  BY <1>1, <1>3 DEF BlocksUsed, SlackBounded, IsActive
<1>9. InputLive'
  BY <1>1, <1>3 DEF InputLive, Finds, IsActive, HandleOf, InBoundsFast, MemorySize, registers
<1>10. QED
  BY <1>5, <1>6, <1>7, <1>8, <1>9

(* A freed block is split: its tail becomes a new live block that ends     *)
(* where the freed block ended.                                            *)
LEMMA TakeTailInv ==
  ASSUME KernelInv, NEW n \in Requests, NEW a \in Blocks, TakeTail(a, n),
         UNCHANGED <<position, length, pages, registers>>
  PROVE  KernelInv'
<1> USE LayoutFacts DEF KernelInv
<1>1. PICK rest \in Nat, tail \in Nat :
        /\ rest = block[a].size - (n + HeaderSize) /\ tail = a + HeaderSize + rest
        /\ block[a].status = "Free" /\ n \in Nat /\ a \in Nat /\ block[a].size \in Nat
        /\ a < tail /\ tail + HeaderSize + n = EndOf(a)
        /\ Blocks \subseteq Nat
  <2>1. /\ block[a].status = "Free" /\ n \in Nat /\ a \in Nat /\ block[a].size \in Nat
        /\ Blocks \subseteq Nat /\ block[a].size - n >= SplitSize
    BY UsizeExact DEF TakeTail, Splits, TypeOK
  <2>2. block[a].size - (n + HeaderSize) \in Nat
    BY <2>1
  <2>3. a + HeaderSize + (block[a].size - (n + HeaderSize)) \in Nat
    BY <2>1, <2>2
  <2>4. QED
    BY <2>1, <2>2, <2>3 DEF EndOf
<1>2. tail \notin Blocks
  BY <1>1 DEF HeapTiled
<1>3. /\ Blocks' = Blocks \cup {tail}
      /\ \A b \in Blocks : b # a => block'[b] = block[b]
      /\ block'[a] = Block("Free", rest, 0)
      /\ block'[tail] = Block("Active", n, n)
  BY <1>1, <1>2, UsizeExact DEF TakeTail, Blocks
<1>4. /\ \A b \in Blocks : b # a => EndOf(b)' = EndOf(b)
      /\ EndOf(a)' = tail
      /\ EndOf(tail)' = EndOf(a)
  BY <1>1, <1>3 DEF EndOf, Block
<1>5. TypeOK'
  <2>1. \A b \in Blocks' : block'[b] \in [status : {"Unused", "Active", "Free"}, size : Nat, used : Nat]
    BY <1>1, <1>3 DEF TypeOK, Block
  <2>2. block' = [b \in Blocks' |-> block'[b]]
    BY DEF TakeTail, Blocks
  <2>3. QED
    BY <1>1, <1>3, <2>1, <2>2 DEF TypeOK, registers
<1>6. HeapTiled'
  <2>1. (position # 0 => 0 \in Blocks)'
    BY <1>3 DEF HeapTiled
  <2>2. (\A b \in Blocks : EndOf(b) = position \/ (EndOf(b) < position /\ EndOf(b) \in Blocks))'
    BY <1>1, <1>3, <1>4 DEF HeapTiled, TypeOK
  <2>3. ASSUME NEW b \in Blocks', NEW c \in Blocks', b < c
        PROVE  EndOf(b)' <= c
    <3>1. CASE b = tail
      BY <3>1, <2>3, <1>1, <1>3, <1>4 DEF HeapTiled
    <3>2. CASE b = a
      <4>1. EndOf(b)' = tail
        BY <3>2, <1>4
      <4>2. CASE c = tail
        BY <4>1, <4>2
      <4>3. CASE c \in Blocks
        <5>1. EndOf(a) <= c /\ c \in Nat
          BY <3>2, <4>3, <2>3, <1>1 DEF HeapTiled
        <5>2. QED
          BY <4>1, <5>1, <1>1
      <4>4. QED
        BY <4>2, <4>3, <1>3
    <3>3. CASE b \in Blocks /\ b # a
      <4>1. EndOf(b)' = EndOf(b) /\ b \in Nat
        BY <3>3, <1>1, <1>4
      <4>2. CASE c \in Blocks
        BY <4>1, <4>2, <3>3, <2>3 DEF HeapTiled
      <4>3. CASE c = tail
        <5>1. b < a
          BY <4>1, <4>3, <3>3, <2>3, <1>1 DEF HeapTiled
        <5>2. EndOf(b) \in Int /\ EndOf(b) <= a
          BY <5>1, <3>3, <1>1 DEF HeapTiled, TypeOK, EndOf
        <5>3. QED
          BY <5>2, <4>1, <4>3, <1>1
      <4>4. QED
        BY <4>2, <4>3, <1>3
    <3>4. QED
      BY <3>1, <3>2, <3>3, <1>3
  <2>4. QED
    BY <2>1, <2>2, <2>3 DEF HeapTiled
<1>7. WithinMemory'
  <2>1. MemorySize' = MemorySize /\ MemorySize \in Nat /\ Base \in Nat
    BY DEF MemorySize, TypeOK, Base
  <2>2. Base + EndOf(a) <= MemorySize /\ Base + tail <= MemorySize
    BY <2>1, <1>1 DEF WithinMemory
  <2>3. \A b \in Blocks' : Base + EndOf(b)' <= MemorySize
    BY <2>2, <1>3, <1>4 DEF WithinMemory
  <2>4. QED
    BY <2>1, <2>3 DEF WithinMemory, MemLeft, Base
<1>8. BlocksUsed' /\ SlackBounded'
  BY <1>1, <1>3 DEF BlocksUsed, SlackBounded, IsActive, Block
<1>9. InputLive'
  <2>1. SUFFICES ASSUME input.length # 0 PROVE InputLive'
    BY DEF InputLive, registers
  <2>2. PICK b \in Blocks : Finds(input.offset, b) /\ block[b].used = input.length
    BY <2>1 DEF InputLive
  <2>3. b # a /\ b \in Blocks' /\ block'[b] = block[b]
    BY <1>1, <1>3, <2>2 DEF Finds, IsActive
  <2>4. Finds(input.offset, b)'
    BY <2>2, <2>3 DEF Finds, IsActive, HandleOf, InBoundsFast, MemorySize, registers
  <2>5. QED
    BY <2>2, <2>3, <2>4 DEF InputLive, registers
<1>10. QED
  BY <1>5, <1>6, <1>7, <1>8, <1>9

(* A new block at position, inside the memory there is or has become.      *)
LEMMA PlaceInv ==
  ASSUME KernelInv, NEW n \in Requests, Place(n), UNCHANGED registers,
         length' \in Nat, pages' \in Nat, MemorySize <= MemorySize',
         RootSize + length' <= MemorySize', MemorySize' \in Nat,
         n + HeaderSize <= length' - position - RootSize
  PROVE  KernelInv'
<1> USE LayoutFacts DEF KernelInv
<1>1. PICK pos \in Nat : pos = position
  BY DEF TypeOK
<1>2. n \in Nat /\ position' = pos + n + HeaderSize
  BY <1>1, UsizeExact DEF Place
<1>3. /\ pos \notin Blocks
      /\ Blocks' = Blocks \cup {pos}
      /\ \A b \in Blocks : block'[b] = block[b]
      /\ block'[pos] = Block("Active", n, n)
  <2>1. pos \notin Blocks
    BY <1>1 DEF HeapTiled, TypeOK, EndOf
  <2>2. QED
    BY <1>1, <2>1, UsizeExact DEF Place, Blocks
<1>4. /\ \A b \in Blocks : EndOf(b)' = EndOf(b) /\ EndOf(b) <= pos
      /\ EndOf(pos)' = position'
  BY <1>1, <1>2, <1>3 DEF EndOf, Block, HeapTiled, TypeOK
<1>5. TypeOK'
  <2>1. \A b \in Blocks' : block'[b] \in [status : {"Unused", "Active", "Free"}, size : Nat, used : Nat]
    BY <1>2, <1>3 DEF TypeOK, Block
  <2>2. block' = [b \in Blocks' |-> block'[b]]
    BY DEF Place, Blocks
  <2>3. QED
    BY <1>1, <1>2, <1>3, <2>1, <2>2 DEF TypeOK, registers
<1>6. HeapTiled'
  <2>1. (position # 0 => 0 \in Blocks)'
    BY <1>1, <1>3 DEF HeapTiled
  <2>2. ASSUME NEW b \in Blocks'
        PROVE  EndOf(b)' = position' \/ (EndOf(b)' < position' /\ EndOf(b)' \in Blocks')
    <3>1. CASE b = pos
      BY <3>1, <1>4
    <3>2. CASE b \in Blocks
      <4>1. EndOf(b)' = EndOf(b) /\ EndOf(b) \in Nat /\ EndOf(b) <= pos
        BY <3>2, <1>4 DEF EndOf, TypeOK
      <4>2. EndOf(b) \in Blocks'
        BY <3>2, <1>1, <1>3 DEF HeapTiled
      <4>3. QED
        BY <4>1, <4>2, <1>1, <1>2
    <3>3. QED
      BY <3>1, <3>2, <1>3
  <2>3. ASSUME NEW b \in Blocks', NEW c \in Blocks', b < c
        PROVE  EndOf(b)' <= c
    <3>1. b # pos
      <4>1. \A d \in Blocks : d < pos
        BY <1>1 DEF HeapTiled, TypeOK, EndOf
      <4>2. c = pos \/ (c \in Nat /\ c < pos)
        BY <4>1, <1>3 DEF TypeOK
      <4>3. QED
        BY <4>2, <2>3, <1>1
    <3>2. QED
      BY <3>1, <2>3, <1>3, <1>4 DEF HeapTiled
  <2>4. QED
    BY <2>1, <2>2, <2>3 DEF HeapTiled
<1>7. WithinMemory'
  <2>1. PICK len \in Nat, mem \in Nat, new \in Nat :
          len = length' /\ mem = MemorySize' /\ new = position'
    BY <1>1, <1>2
  <2>2. new = pos + n + HeaderSize /\ n + HeaderSize <= len - pos - RootSize
    BY <1>1, <1>2, <2>1
  <2>3. RootSize + len <= mem /\ Base = RootSize + 1
    BY <2>1 DEF Base
  <2>4. new <= len - RootSize /\ Base + new <= mem
    BY <1>2, <2>2, <2>3
  <2>5. ASSUME NEW b \in Blocks'
        PROVE  Base + EndOf(b)' <= mem
    <3>1. PICK e \in Nat : e = EndOf(b)' /\ e <= new
      <4>1. CASE b = pos
        BY <4>1, <1>4, <2>1
      <4>2. CASE b \in Blocks
        <5>1. EndOf(b) \in Nat /\ EndOf(b) <= pos /\ EndOf(b)' = EndOf(b)
          BY <4>2, <1>4 DEF EndOf, TypeOK
        <5>2. pos <= new
          BY <1>2, <2>2
        <5>3. QED
          BY <5>1, <5>2
      <4>3. QED
        BY <4>1, <4>2, <1>3
    <3>2. Base + e <= mem
      BY <3>1, <2>4, <2>3
    <3>3. QED
      BY <3>1, <3>2
  <2>6. len - new - RootSize >= 0
    BY <2>4
  <2>7. MemLeft' = len - new - RootSize
    BY <2>1 DEF MemLeft
  <2>8. QED
    BY <2>1, <2>3, <2>5, <2>6, <2>7 DEF WithinMemory
<1>8. BlocksUsed' /\ SlackBounded'
  BY <1>2, <1>3 DEF BlocksUsed, SlackBounded, IsActive, Block
<1>9. InputLive'
  <2>1. SUFFICES ASSUME input.length # 0 PROVE InputLive'
    BY DEF InputLive, registers
  <2>2. PICK b \in Blocks : Finds(input.offset, b) /\ block[b].used = input.length
    BY <2>1 DEF InputLive
  <2>3. b \in Blocks' /\ block'[b] = block[b]
    BY <1>3, <2>2
  <2>4. MemorySize \in Nat /\ input.offset \in Nat
    BY DEF TypeOK, MemorySize
  <2>5. Finds(input.offset, b)'
    BY <2>2, <2>3, <2>4 DEF Finds, IsActive, HandleOf, InBoundsFast, registers
  <2>6. QED
    BY <2>2, <2>3, <2>5 DEF InputLive, registers
<1>10. QED
  BY <1>5, <1>6, <1>7, <1>8, <1>9

(* Freeing changes one status, and withdraws the input it belongs to.      *)
LEMMA FreeInv ==
  ASSUME KernelInv, NEW p, Free(p)
  PROVE  KernelInv'
<1> USE LayoutFacts DEF KernelInv
<1>1. CASE ~\E a \in Blocks : Finds(p, a)
  <2>1. UNCHANGED vars
    BY <1>1 DEF Free, vars
  <2>2. QED
    BY <2>1 DEF vars, TypeOK, HeapTiled, WithinMemory, BlocksUsed, SlackBounded, InputLive,
       Blocks, EndOf, MemLeft, MemorySize, IsActive, Finds, InBoundsFast
<1>2. ASSUME NEW a \in Blocks, Finds(p, a),
             block' = [block EXCEPT ![a].status = "Free"],
             input' = IF p = input.offset THEN [input EXCEPT !.length = 0] ELSE input
      PROVE  KernelInv'
  <2>1. UNCHANGED <<position, length, pages, output, error>>
    BY DEF Free
  <2>2. /\ Blocks' = Blocks
        /\ \A b \in Blocks : b # a => block'[b] = block[b]
        /\ block'[a].status = "Free" /\ block'[a].size = block[a].size
    BY <1>2 DEF Blocks, TypeOK
  <2>3. \A b \in Blocks : EndOf(b)' = EndOf(b)
    BY <2>2 DEF EndOf
  <2>4. TypeOK'
    BY <1>2, <2>1, <2>2 DEF TypeOK, Blocks
  <2>5. HeapTiled'
    BY <2>1, <2>2, <2>3 DEF HeapTiled
  <2>6. WithinMemory'
    BY <2>1, <2>2, <2>3 DEF WithinMemory, MemLeft, MemorySize
  <2>7. BlocksUsed' /\ SlackBounded'
    BY <2>2 DEF BlocksUsed, SlackBounded, IsActive
  <2>8. InputLive'
    <3>1. CASE p = input.offset
      BY <1>2, <3>1 DEF InputLive, TypeOK
    <3>2. CASE p # input.offset
      BY <1>2, <2>1, <2>2, <3>2 DEF InputLive, Finds, IsActive, InBoundsFast, MemorySize, HandleOf
    <3>3. QED
      BY <3>1, <3>2
  <2>9. QED
    BY <2>4, <2>5, <2>6, <2>7, <2>8
<1>3. QED
  BY <1>1, <1>2 DEF Free

(* Setting the input to a live handle: the register then describes it.     *)
LEMMA InputSetInv ==
  ASSUME KernelInv, NEW h \in Handles \cup {0}, InputSet(h)
  PROVE  KernelInv'
<1> USE LayoutFacts DEF KernelInv
<1>1. UNCHANGED <<heap, output, error>>
  BY DEF InputSet
<1>2. HeapTiled' /\ WithinMemory' /\ BlocksUsed' /\ SlackBounded'
  BY <1>1 DEF heap, HeapTiled, WithinMemory, BlocksUsed, SlackBounded, Blocks, EndOf, MemLeft,
     MemorySize, IsActive
<1>3. CASE input' = input
  BY <1>1, <1>2, <1>3 DEF heap, TypeOK, InputLive, Blocks, Finds, IsActive, InBoundsFast, MemorySize
<1>4. CASE Accepts(h, LengthOf(h)) /\ input' = Range(h, LengthOf(h))
  <2>1. h # 0
    BY <1>4 DEF Accepts, InBounds, Base
  <2>2. PICK a \in Blocks : IsActive(a) /\ HandleOf(a) = h
    BY <2>1 DEF Handles
  <2>3. Finds(h, a) /\ LengthOf(h) = block[a].used /\ h \in Nat /\ block[a].used \in Nat
    BY <2>2, LiveFound DEF TypeOK, HandleOf, Base
  <2>4. TypeOK'
    BY <1>1, <1>4, <2>3 DEF heap, TypeOK, Range, Blocks
  <2>5. InputLive'
    BY <1>1, <1>4, <2>3 DEF heap, InputLive, Range, Finds, Blocks, IsActive, InBoundsFast, MemorySize
  <2>6. QED
    BY <1>2, <2>4, <2>5
<1>5. QED
  BY <1>3, <1>4 DEF InputSet

(* The other registers are no part of the invariant but for their type.    *)
LEMMA RegisterInv ==
  ASSUME KernelInv, NEW h \in Handles \cup {0}, OutputSet(h) \/ ErrorSet(h)
  PROVE  KernelInv'
<1> USE LayoutFacts DEF KernelInv
<1>1. UNCHANGED <<heap, input>>
  BY DEF OutputSet, ErrorSet
<1>2. HeapTiled' /\ WithinMemory' /\ BlocksUsed' /\ SlackBounded' /\ InputLive'
  BY <1>1 DEF heap, HeapTiled, WithinMemory, BlocksUsed, SlackBounded, Blocks, EndOf, MemLeft,
     MemorySize, IsActive, InputLive, Finds, InBoundsFast
<1>3. h \in Nat /\ LengthOf(h) \in Nat
  <2>1. h \in Nat
    BY DEF Handles, TypeOK, HandleOf, Base
  <2>2. CASE \E a \in Blocks : Finds(h, a)
    <3>1. PICK a \in Blocks : Finds(h, a)
      BY <2>2
    <3>2. LengthOf(h) = block[a].used
      BY <3>1, LiveFound DEF Finds
    <3>3. QED
      BY <2>1, <3>2 DEF TypeOK
  <2>3. CASE ~\E a \in Blocks : Finds(h, a)
    BY <2>1, <2>3 DEF LengthOf
  <2>4. QED
    BY <2>2, <2>3
<1>4. TypeOK'
  <2>1. block' = block /\ position' = position /\ length' = length /\ pages' = pages /\ input' = input
    BY <1>1 DEF heap
  <2>2. error' \in Nat /\ output' \in [offset : Nat, length : Nat]
    BY <1>3 DEF OutputSet, ErrorSet, Range, TypeOK
  <2>3. QED
    BY <2>1, <2>2 DEF TypeOK, Blocks
<1>5. QED
  BY <1>2, <1>4

LEMMA ResetInv == KernelInv /\ Reset => KernelInv'
<1> SUFFICES ASSUME KernelInv, Reset PROVE KernelInv'
  OBVIOUS
<1> USE LayoutFacts DEF KernelInv
<1>1. Blocks' = {} /\ block' = NoBlocks
  BY DEF Reset, NoBlocks, Blocks
<1>2. TypeOK'
  BY <1>1 DEF TypeOK, Reset, NoBlocks, Nowhere, Range
<1>3. WithinMemory'
  <2>1. MemorySize' = MemorySize /\ length' = length /\ position' = 0
    BY DEF Reset, MemorySize
  <2>2. MemLeft' = length - RootSize /\ length - RootSize >= 0
    BY <2>1 DEF MemLeft, WithinMemory, TypeOK
  <2>3. QED
    BY <1>1, <2>1, <2>2 DEF WithinMemory
<1>4. HeapTiled' /\ BlocksUsed' /\ SlackBounded' /\ InputLive'
  BY <1>1 DEF HeapTiled, BlocksUsed, SlackBounded, InputLive, Reset, Nowhere, Range
<1>5. QED
  BY <1>2, <1>3, <1>4

(* A stutter, and a failed allocation, change nothing.                     *)
LEMMA StutterInv == KernelInv /\ UNCHANGED vars => KernelInv'
BY DEF vars, KernelInv, TypeOK, HeapTiled, WithinMemory, BlocksUsed, SlackBounded, InputLive,
   Blocks, EndOf, MemLeft, MemorySize, IsActive, Finds, InBoundsFast

LEMMA AllocInv ==
  ASSUME KernelInv, NEW n \in Requests, Alloc(n)
  PROVE  KernelInv'
<1> USE LayoutFacts
<1>1. CASE AllocReuse(n)
  BY <1>1, TakeWholeInv, TakeTailInv DEF AllocReuse
<1>2. /\ n \in Nat /\ n + HeaderSize < WordMod /\ MemLeft \in Nat /\ position \in Nat
      /\ length \in Nat /\ pages \in Nat /\ MemorySize \in Nat
      /\ MemLeft = length - position - RootSize /\ RootSize + length <= MemorySize
  BY UsizeExact, RequestsFit DEF KernelInv, TypeOK, WithinMemory, MemLeft, MemorySize
<1>3. CASE AllocBump(n)
  <2>1. UNCHANGED <<length, pages>> /\ MemorySize' = MemorySize
    BY <1>3 DEF AllocBump, MemorySize
  <2>2. n + HeaderSize <= length - position - RootSize
    BY <1>2, <1>3 DEF AllocBump, NeedsGrowth
  <2>3. QED
    BY <1>2, <1>3, <2>1, <2>2, PlaceInv DEF AllocBump
<1>4. CASE AllocGrow(n)
  <2>1. PICK k \in Nat, np \in Nat :
          /\ k = n + HeaderSize - MemLeft /\ np = NumPages(k)
          /\ np * PageSize >= k
    <3>1. n + HeaderSize - MemLeft \in Nat /\ n + HeaderSize - MemLeft < WordMod
      BY <1>2, <1>4 DEF AllocGrow, NeedsGrowth
    <3>2. QED
      BY <3>1, PagesCover
  <2>2. /\ pages' = pages + np /\ length' = length + np * PageSize
        /\ Place(n) /\ UNCHANGED registers
    BY <1>4, <2>1 DEF AllocGrow
  <2>3. PICK bytes \in Nat : bytes = np * PageSize
    OBVIOUS
  <2>4. MemorySize' = MemorySize + bytes
    BY <1>2, <2>2, <2>3 DEF MemorySize
  <2>5. length' = length + bytes
    BY <2>2, <2>3
  <2>6. n + HeaderSize <= (length + bytes) - position - RootSize
    BY <1>2, <2>1, <2>3
  <2>7. /\ length + bytes \in Nat /\ pages + np \in Nat /\ MemorySize + bytes \in Nat
        /\ MemorySize <= MemorySize + bytes
        /\ RootSize + (length + bytes) <= MemorySize + bytes
    BY <1>2, <2>1, <2>3
  <2>8. QED
    BY <2>2, <2>4, <2>5, <2>6, <2>7, PlaceInv
<1>5. CASE AllocFails(n)
  BY <1>5, StutterInv DEF AllocFails
<1>6. QED
  BY <1>1, <1>3, <1>4, <1>5 DEF Alloc

LEMMA StepInv == KernelInv /\ [Next]_vars => KernelInv'
<1> SUFFICES ASSUME KernelInv, [Next]_vars PROVE KernelInv'
  OBVIOUS
<1>1. CASE \E n \in Requests : Alloc(n)
  BY <1>1, AllocInv
<1>2. CASE \E a \in Blocks : Free(HandleOf(a))
  BY <1>2, FreeInv
<1>3. CASE \E h \in Handles \cup {0} : InputSet(h)
  BY <1>3, InputSetInv
<1>4. CASE \E h \in Handles \cup {0} : OutputSet(h) \/ ErrorSet(h)
  BY <1>4, RegisterInv
<1>5. CASE Reset
  BY <1>5, ResetInv
<1>6. CASE UNCHANGED vars
  BY <1>6, StutterInv
<1>7. QED
  BY <1>1, <1>2, <1>3, <1>4, <1>5, <1>6 DEF Next

(* The inductive invariant holds in every reachable state of the kernel.   *)
THEOREM KernelSafe == Spec => []KernelInv
BY InitInv, StepInv, PTL DEF Spec

(* Type correctness.                                                       *)
THEOREM KernelTyped == Spec => []TypeOK
<1>1. KernelInv => TypeOK
  BY DEF KernelInv
<1>2. QED
  BY <1>1, KernelSafe, PTL

(* The blocks tile the heap: walks with next_ptr are exact.                *)
THEOREM KernelTiled == Spec => []HeapTiled
<1>1. KernelInv => HeapTiled
  BY DEF KernelInv
<1>2. QED
  BY <1>1, KernelSafe, PTL

(* alloc's subtraction never wraps and no block leaves the wasm memory.    *)
THEOREM KernelWithinMemory == Spec => []WithinMemory
<1>1. KernelInv => WithinMemory
  BY DEF KernelInv
<1>2. QED
  BY <1>1, KernelSafe, PTL

(* No byte belongs to two live buffers, or to a buffer and a header.       *)
THEOREM KernelDisjoint == Spec => []LiveDisjoint
<1>1. KernelInv => LiveDisjoint
  <2> SUFFICES ASSUME KernelInv, NEW a \in Blocks, NEW b \in Blocks, IsActive(a), a < b
               PROVE  HandleOf(a) + block[a].used <= HandleOf(b) - HeaderSize
    BY DEF LiveDisjoint
  <2>1. /\ a \in Nat /\ b \in Nat /\ block[a].size \in Nat /\ block[a].used \in Nat
        /\ block[a].used <= block[a].size /\ EndOf(a) <= b
    BY DEF KernelInv, TypeOK, HeapTiled, SlackBounded
  <2>2. QED
    BY <2>1, LayoutFacts DEF HandleOf, Base, EndOf
<1>2. QED
  BY <1>1, KernelSafe, PTL

(* A live block holds its request and wastes less than SplitSize bytes.    *)
THEOREM KernelSlack == Spec => []SlackBounded
<1>1. KernelInv => SlackBounded
  BY DEF KernelInv
<1>2. QED
  BY <1>1, KernelSafe, PTL

(* Every block in the list was once handed out: the walk of alloc reuses   *)
(* only freed ones.                                                        *)
THEOREM KernelUsed == Spec => []BlocksUsed
<1>1. KernelInv => BlocksUsed
  BY DEF KernelInv
<1>2. QED
  BY <1>1, KernelSafe, PTL

(* A non-empty input register describes a live buffer.                     *)
THEOREM KernelInput == Spec => []InputLive
<1>1. KernelInv => InputLive
  BY DEF KernelInv
<1>2. QED
  BY <1>1, KernelSafe, PTL

-----------------------------------------------------------------------------
(* Block a becomes live with n bytes, and no other block's liveness, nor   *)
(* any live block, changes.                                                *)
Becomes(a, n) ==
  /\ block'[a].status = "Active" /\ block'[a].used = n /\ block'[a].size >= n
  /\ a \in Blocks => ~IsActive(a)
  /\ \A b \in Blocks' : b # a /\ block'[b].status = "Active" => b \in Blocks /\ IsActive(b)
  /\ \A b \in Blocks : IsActive(b) => block'[b] = block[b]

(* What a successful allocation does: the heap only ever grows.            *)
Extends(n) ==
  /\ UNCHANGED registers
  /\ Blocks \subseteq Blocks' /\ position \in Nat /\ position' \in Nat /\ position <= position'
  /\ \E a \in Blocks' : Becomes(a, n)

LEMMA TakeWholeExtends ==
  ASSUME KernelInv, NEW n \in Requests, NEW a \in Blocks, FirstFit(a, n), TakeWhole(a, n),
         UNCHANGED <<position, length, pages, registers>>
  PROVE  Extends(n)
<1>1. /\ block[a].status = "Free" /\ n <= block[a].size /\ n \in Nat /\ block[a].size \in Nat
      /\ Usize(n) = n
  BY UsizeExact DEF KernelInv, TypeOK, BlocksUsed, FirstFit, Fits
<1>2. /\ Blocks' = Blocks
      /\ \A b \in Blocks : b # a => block'[b] = block[b]
      /\ block'[a] = Block("Active", block[a].size, n)
  BY <1>1 DEF TakeWhole, Blocks
<1>3. Becomes(a, n)
  <2>1. block'[a].status = "Active" /\ block'[a].used = n /\ block'[a].size >= n
    BY <1>1, <1>2 DEF Block
  <2>2. ~IsActive(a)
    BY <1>1 DEF IsActive
  <2>3. \A b \in Blocks' : b # a /\ block'[b].status = "Active" => b \in Blocks /\ IsActive(b)
    BY <1>2 DEF IsActive
  <2>4. \A b \in Blocks : IsActive(b) => block'[b] = block[b]
    BY <2>2, <1>2
  <2>5. QED
    BY <2>1, <2>2, <2>3, <2>4 DEF Becomes
<1>4. position \in Nat /\ position' = position
  BY DEF KernelInv, TypeOK
<1>5. QED
  BY <1>2, <1>3, <1>4 DEF Extends

LEMMA TakeTailExtends ==
  ASSUME KernelInv, NEW n \in Requests, NEW a \in Blocks, TakeTail(a, n),
         UNCHANGED <<position, length, pages, registers>>
  PROVE  Extends(n)
<1>1. /\ a \in Nat /\ block[a].size \in Nat /\ Blocks \subseteq Nat /\ n \in Nat /\ n > 0
      /\ block[a].size - n >= SplitSize /\ Usize(n) = n /\ block[a].status = "Free"
  BY UsizeExact DEF KernelInv, TypeOK, TakeTail, Splits
<1>2. PICK tail : tail = a + HeaderSize + (block[a].size - (n + HeaderSize))
  OBVIOUS
<1>3. tail < EndOf(a) /\ a < tail /\ tail \in Nat /\ EndOf(a) \in Nat
  BY <1>1, <1>2, LayoutFacts DEF EndOf
<1>4. tail \notin Blocks
  BY <1>1, <1>3 DEF KernelInv, HeapTiled
<1>5. /\ Blocks' = Blocks \cup {tail}
      /\ \A b \in Blocks : b # a => block'[b] = block[b]
      /\ block'[a].status = "Free"
      /\ block'[tail] = Block("Active", n, n)
  BY <1>1, <1>2, <1>4 DEF TakeTail, Block, Blocks
<1>6. Becomes(tail, n)
  <2>1. block'[tail].status = "Active" /\ block'[tail].used = n /\ block'[tail].size >= n
    BY <1>1, <1>5 DEF Block
  <2>2. \A b \in Blocks' : b # tail /\ block'[b].status = "Active" => b \in Blocks /\ IsActive(b)
    BY <1>5 DEF IsActive
  <2>3. \A b \in Blocks : IsActive(b) => block'[b] = block[b]
    BY <1>1, <1>5 DEF IsActive
  <2>4. QED
    BY <1>4, <2>1, <2>2, <2>3 DEF Becomes
<1>7. position \in Nat /\ position' = position
  BY DEF KernelInv, TypeOK
<1>8. QED
  BY <1>5, <1>6, <1>7 DEF Extends

LEMMA PlaceExtends ==
  ASSUME KernelInv, NEW n \in Requests, Place(n), UNCHANGED registers
  PROVE  Extends(n)
<1>1. PICK pos \in Nat : pos = position
  BY DEF KernelInv, TypeOK
<1>2. n \in Nat /\ Usize(n) = n /\ position' = pos + n + HeaderSize /\ HeaderSize \in Nat
  BY <1>1, UsizeExact, LayoutFacts DEF Place
<1>3. pos \notin Blocks
  BY <1>1, LayoutFacts DEF KernelInv, HeapTiled, TypeOK, EndOf
<1>4. /\ Blocks' = Blocks \cup {pos}
      /\ \A b \in Blocks : block'[b] = block[b]
      /\ block'[pos] = Block("Active", n, n)
  BY <1>1, <1>2, <1>3 DEF Place, Blocks
<1>5. Becomes(pos, n)
  <2>1. block'[pos].status = "Active" /\ block'[pos].used = n /\ block'[pos].size >= n
    BY <1>2, <1>4 DEF Block
  <2>2. \A b \in Blocks' : b # pos /\ block'[b].status = "Active" => b \in Blocks /\ IsActive(b)
    BY <1>4 DEF IsActive
  <2>3. QED
    BY <1>3, <1>4, <2>1, <2>2 DEF Becomes
<1>6. position <= position' /\ position' \in Nat
  BY <1>1, <1>2
<1>7. QED
  BY <1>1, <1>4, <1>5, <1>6 DEF Extends

(* An allocation extends the heap, or fails and changes nothing.           *)
LEMMA AllocExtends ==
  ASSUME KernelInv, NEW n \in Requests, Alloc(n)
  PROVE  Extends(n) \/ UNCHANGED vars
<1>1. CASE AllocReuse(n)
  BY <1>1, TakeWholeExtends, TakeTailExtends DEF AllocReuse
<1>2. CASE AllocBump(n)
  BY <1>2, PlaceExtends DEF AllocBump
<1>3. CASE AllocGrow(n)
  BY <1>3, PlaceExtends DEF AllocGrow
<1>4. CASE AllocFails(n)
  BY <1>4 DEF AllocFails
<1>5. QED
  BY <1>1, <1>2, <1>3, <1>4 DEF Alloc

(* The blocks and positions of a step that is no allocation and no reset.  *)
LEMMA FreeKeepsBlocks ==
  ASSUME KernelInv, NEW p, Free(p)
  PROVE  /\ Blocks' = Blocks /\ UNCHANGED <<position, output, error>>
         /\ \A a \in Blocks : /\ block'[a].size = block[a].size
                              /\ block'[a] = block[a] \/ block'[a].status = "Free"
         /\ input' = input \/ input'.length = 0
<1>1. TypeOK
  BY DEF KernelInv
<1>2. CASE UNCHANGED <<block, input>>
  BY <1>2 DEF Free, Blocks
<1>3. ASSUME NEW a \in Blocks, block' = [block EXCEPT ![a].status = "Free"],
             input' = IF p = input.offset THEN [input EXCEPT !.length = 0] ELSE input
      PROVE  /\ Blocks' = Blocks
             /\ \A b \in Blocks : /\ block'[b].size = block[b].size
                                  /\ block'[b] = block[b] \/ block'[b].status = "Free"
             /\ input' = input \/ input'.length = 0
  BY <1>1, <1>3 DEF TypeOK, Blocks
<1>4. QED
  BY <1>2, <1>3 DEF Free, Finds

(* alloc(n) hands out a block with room for n bytes.                       *)
THEOREM KernelRoom == Spec => AllocRoom
<1>1. ASSUME KernelInv, NEW n \in Requests, Alloc(n), ~UNCHANGED vars
      PROVE  \A a \in DOMAIN block' :
               block'[a].status = "Active" /\ (a \in Blocks => ~IsActive(a)) => block'[a].size >= n
  BY <1>1, AllocExtends DEF Extends, Becomes, Blocks
<1>2. KernelInv /\ [Next]_vars =>
        [\A n \in Requests :
           Alloc(n) => \A a \in DOMAIN block' :
                         block'[a].status = "Active" /\ (a \in Blocks => ~IsActive(a))
                           => block'[a].size >= n]_vars
  BY <1>1
<1>3. QED
  BY <1>2, KernelSafe, PTL DEF Spec, AllocRoom

(* Until reset a block keeps its place and, while it is live, its length.  *)
THEOREM KernelPersist == Spec => BlocksPersist
<1> DEFINE Keeps(a) ==
      /\ a \in DOMAIN block'
      /\ IsActive(a) => block'[a].size = block[a].size
                        /\ (block'[a] = block[a] \/ block'[a].status = "Free")
<1>1. ASSUME KernelInv, Next, ~UNCHANGED vars, position' # 0, NEW a \in Blocks
      PROVE  Keeps(a)
  <2>1. CASE \E n \in Requests : Alloc(n)
    BY <1>1, <2>1, AllocExtends DEF Extends, Becomes, Blocks
  <2>2. CASE \E b \in Blocks : Free(HandleOf(b))
    BY <1>1, <2>2, FreeKeepsBlocks DEF Blocks
  <2>3. CASE \E h \in Handles \cup {0} : InputSet(h) \/ OutputSet(h) \/ ErrorSet(h)
    BY <2>3 DEF InputSet, OutputSet, ErrorSet, heap, Blocks
  <2>4. CASE Reset
    BY <1>1, <2>4 DEF Reset
  <2>5. QED
    BY <1>1, <2>1, <2>2, <2>3, <2>4 DEF Next
<1>2. KernelInv /\ [Next]_vars => [position' # 0 => \A a \in Blocks : Keeps(a)]_vars
  BY <1>1
<1>3. QED
  BY <1>2, KernelSafe, PTL DEF Spec, BlocksPersist

(* What a register may be set to: the data of a live buffer, inside the    *)
(* allocated blocks.                                                       *)
LEMMA AcceptedInHeap ==
  ASSUME KernelInv, NEW h \in Handles \cup {0}, Accepts(h, LengthOf(h))
  PROVE  /\ h \in {HandleOf(a) : a \in Blocks}
         /\ h + LengthOf(h) <= Base + position
<1>1. PICK a \in Blocks : IsActive(a) /\ HandleOf(a) = h
  BY LayoutFacts DEF Accepts, InBounds, Base, Handles
<1>2. LengthOf(h) = block[a].used
  BY <1>1, LiveFound
<1>3. /\ a \in Nat /\ block[a].size \in Nat /\ block[a].used \in Nat
      /\ block[a].used <= block[a].size /\ EndOf(a) <= position /\ position \in Nat
  <2>1. a \in Nat /\ block[a].size \in Nat /\ block[a].used \in Nat /\ position \in Nat
    BY DEF KernelInv, TypeOK
  <2>2. block[a].used <= block[a].size
    BY <1>1 DEF KernelInv, SlackBounded
  <2>3. EndOf(a) = position \/ EndOf(a) < position
    BY DEF KernelInv, HeapTiled
  <2>4. EndOf(a) \in Nat
    BY <2>1, LayoutFacts DEF EndOf
  <2>5. QED
    BY <2>1, <2>2, <2>3, <2>4
<1>4. QED
  BY <1>1, <1>2, <1>3, LayoutFacts DEF HandleOf, EndOf, Base

(* Registers that stay, while the heap does not shrink, stay in it.        *)
LEMMA RegistersStay ==
  ASSUME KernelInv, RegistersInHeap, Blocks \subseteq Blocks',
         position \in Nat, position' \in Nat, position <= position',
         input' = input \/ input'.length = 0, UNCHANGED <<output, error>>
  PROVE  RegistersInHeap'
<1> DEFINE In(r) == r.length # 0 => /\ r.offset \in {HandleOf(a) : a \in Blocks}
                                    /\ r.offset + r.length <= Base + position
<1>1. PICK pos \in Nat, new \in Nat : pos = position /\ new = position' /\ pos <= new
  OBVIOUS
<1>2. ASSUME NEW r \in [offset : Nat, length : Nat], In(r)
      PROVE  r.length # 0 => /\ r.offset \in {HandleOf(a) : a \in Blocks'}
                             /\ r.offset + r.length <= Base + new
  <2>1. r.offset \in Nat /\ r.length \in Nat /\ Base \in Nat
    BY LayoutFacts DEF Base
  <2>2. r.length # 0 => r.offset + r.length <= Base + pos
    BY <1>1, <1>2
  <2>3. r.length # 0 => r.offset + r.length <= Base + new
    BY <1>1, <2>1, <2>2
  <2>4. QED
    BY <1>2, <2>3
<1>3. input \in [offset : Nat, length : Nat] /\ output \in [offset : Nat, length : Nat]
  BY DEF KernelInv, TypeOK
<1>4. In(input) /\ In(output) /\ (error # 0 => error \in {HandleOf(a) : a \in Blocks})
  BY DEF RegistersInHeap
<1>5. QED
  BY <1>1, <1>2, <1>3, <1>4 DEF RegistersInHeap, HandleOf, Base

LEMMA RegistersStep == KernelInv /\ RegistersInHeap /\ [Next]_vars => RegistersInHeap'
<1> SUFFICES ASSUME KernelInv, RegistersInHeap, [Next]_vars PROVE RegistersInHeap'
  OBVIOUS
<1>1. CASE UNCHANGED vars
  BY <1>1 DEF vars, RegistersInHeap, Blocks
<1>2. CASE \E n \in Requests : Alloc(n)
  BY <1>1, <1>2, AllocExtends, RegistersStay DEF Extends, registers
<1>3. CASE \E a \in Blocks : Free(HandleOf(a))
  <2>1. position \in Nat
    BY DEF KernelInv, TypeOK
  <2>2. QED
    BY <1>3, <2>1, FreeKeepsBlocks, RegistersStay
<1>4. CASE \E h \in Handles \cup {0} : InputSet(h) \/ OutputSet(h)
  <2>1. PICK h \in Handles \cup {0} : InputSet(h) \/ OutputSet(h)
    BY <1>4
  <2>2. UNCHANGED <<heap, error>>
    BY <2>1 DEF InputSet, OutputSet
  <2>3. CASE UNCHANGED <<input, output>>
    BY <2>2, <2>3 DEF heap, RegistersInHeap, Blocks
  <2>4. CASE Accepts(h, LengthOf(h))
    BY <2>1, <2>2, <2>4, AcceptedInHeap
    DEF InputSet, OutputSet, heap, RegistersInHeap, Range, Blocks, HandleOf
  <2>5. QED
    BY <2>1, <2>3, <2>4 DEF InputSet, OutputSet
<1>5. CASE \E h \in Handles \cup {0} : ErrorSet(h)
  BY <1>5 DEF ErrorSet, heap, RegistersInHeap, Blocks, Handles
<1>6. CASE Reset
  BY <1>6 DEF Reset, RegistersInHeap, Nowhere, Range
<1>7. QED
  BY <1>1, <1>2, <1>3, <1>4, <1>5, <1>6 DEF Next

(* Until reset, no register ever points outside the allocated blocks.      *)
THEOREM KernelRegisters == Spec => []RegistersInHeap
<1>1. Init => RegistersInHeap
  BY DEF Init, RegistersInHeap, Nowhere, Range
<1>2. QED
  BY <1>1, RegistersStep, KernelSafe, PTL DEF Spec

-----------------------------------------------------------------------------
(* The kernel implements Heap: its blocks, splits and bumps are, to its    *)
(* callers, a set of live buffers that never overlap.                      *)

(* The abstract state in terms of the blocks.                              *)
HeapView ==
  /\ DOMAIN LiveBuffers = Handles
  /\ \A p \in Handles : \E a \in Blocks : IsActive(a) /\ HandleOf(a) = p
  /\ \A a \in Blocks : IsActive(a) => /\ HandleOf(a) \in Handles
                                      /\ LiveBuffers[HandleOf(a)] = block[a].used
  /\ Handles \subseteq Nat /\ 0 \notin Handles
  /\ InputBuffer \in Handles \cup {0}

LEMMA HeapViewOf == KernelInv => HeapView
<1> SUFFICES ASSUME KernelInv PROVE HeapView
  OBVIOUS
<1>1. DOMAIN LiveBuffers = Handles
  BY DEF LiveBuffers
<1>2. \A p \in Handles : \E a \in Blocks : IsActive(a) /\ HandleOf(a) = p
  BY DEF Handles
<1>3. ASSUME NEW a \in Blocks, IsActive(a)
      PROVE  HandleOf(a) \in Handles /\ LiveBuffers[HandleOf(a)] = block[a].used
  <2>1. HandleOf(a) \in Handles
    BY <1>3 DEF Handles
  <2>2. QED
    BY <1>3, <2>1, LiveFound DEF LiveBuffers
<1>4. Handles \subseteq Nat /\ 0 \notin Handles
  <2>1. \A a \in Blocks : a \in Nat
    BY DEF KernelInv, TypeOK
  <2>2. \A a \in Blocks : HandleOf(a) \in Nat /\ HandleOf(a) # 0
    BY <2>1, LayoutFacts DEF HandleOf, Base
  <2>3. QED
    BY <2>2 DEF Handles
<1>5. InputBuffer \in Handles \cup {0}
  BY DEF KernelInv, InputLive, InputBuffer, Finds, Handles
<1>6. QED
  BY <1>1, <1>2, <1>3, <1>4, <1>5 DEF HeapView

LEMMA HeapViewNext == KernelInv' => HeapView'
BY HeapViewOf, PTL

(* Two buffers of a good state share no byte.                              *)
LEMMA ApartOf ==
  ASSUME KernelInv, NEW a \in Blocks, NEW b \in Blocks, IsActive(a), IsActive(b), a # b
  PROVE  \/ HandleOf(a) + block[a].used <= HandleOf(b)
         \/ HandleOf(b) + block[b].used <= HandleOf(a)
<1>1. /\ a \in Nat /\ block[a].size \in Nat /\ block[a].used \in Nat
      /\ b \in Nat /\ block[b].size \in Nat /\ block[b].used \in Nat
  BY DEF KernelInv, TypeOK
<1>2. block[a].used <= block[a].size /\ block[b].used <= block[b].size
  BY DEF KernelInv, SlackBounded
<1>3. (a < b => EndOf(a) <= b) /\ (b < a => EndOf(b) <= a)
  BY DEF KernelInv, HeapTiled
<1>4. QED
  BY <1>1, <1>2, <1>3, LayoutFacts DEF HandleOf, Base, EndOf

LEMMA Separation ==
  KernelInv => \A a, b \in Blocks :
                 IsActive(a) /\ IsActive(b) /\ a # b =>
                   \/ HandleOf(a) + block[a].used <= HandleOf(b)
                   \/ HandleOf(b) + block[b].used <= HandleOf(a)
BY ApartOf

LEMMA SeparationNext ==
  KernelInv' => \A a, b \in Blocks' :
                 IsActive(a)' /\ IsActive(b)' /\ a # b =>
                   \/ HandleOf(a) + block'[a].used <= HandleOf(b)
                   \/ HandleOf(b) + block'[b].used <= HandleOf(a)
<1>1. (KernelInv => \A a, b \in Blocks :
                 IsActive(a) /\ IsActive(b) /\ a # b =>
                   \/ HandleOf(a) + block[a].used <= HandleOf(b)
                   \/ HandleOf(b) + block[b].used <= HandleOf(a))'
  BY Separation, PTL
<1>2. QED
  BY <1>1 DEF HandleOf, Base

-----------------------------------------------------------------------------
(* A successful allocation is one of the abstract heap.                    *)
LEMMA AllocRefines ==
  ASSUME KernelInv, KernelInv', NEW n \in Requests, Extends(n)
  PROVE  H!Alloc
<1>1. PICK a \in Blocks' : Becomes(a, n)
  BY DEF Extends
<1>2. HeapView /\ HeapView'
  BY HeapViewOf, HeapViewNext
<1> DEFINE h == HandleOf(a)
<1>3. IsActive(a)' /\ block'[a].used = n
  BY <1>1 DEF Becomes, IsActive
<1>4. \A b \in Blocks : IsActive(b) => b \in Blocks' /\ b # a /\ IsActive(b)' /\ block'[b] = block[b]
  BY <1>1 DEF Becomes, IsActive, Extends
<1>5. \A b \in Blocks' : IsActive(b)' /\ b # a => b \in Blocks /\ IsActive(b)
  BY <1>1 DEF Becomes, IsActive
<1>6. h \notin Handles
  <2>1. ASSUME NEW b \in Blocks, IsActive(b), HandleOf(b) = h
        PROVE  FALSE
    <3>1. a \in Nat /\ b \in Nat
      BY <2>1, <1>4 DEF KernelInv, TypeOK
    <3>2. a = b
      BY <2>1, <3>1, LayoutFacts DEF HandleOf, Base
    <3>3. QED
      BY <1>4, <2>1, <3>2
  <2>2. QED
    BY <2>1, <1>2 DEF HeapView
<1>7. Handles' = Handles \cup {h}
  BY <1>3, <1>4, <1>5 DEF Handles, HandleOf, Base
<1>8. LiveBuffers' = [q \in Handles \cup {h} |-> IF q = h THEN n ELSE LiveBuffers[q]]
  <2>1. \A b \in Blocks' : IsActive(b)' => LiveBuffers'[HandleOf(b)] = block'[b].used
    BY <1>2 DEF HeapView, HandleOf, Base
  <2>2. LiveBuffers'[h] = n
    BY <1>3, <2>1
  <2>3. ASSUME NEW q \in Handles PROVE LiveBuffers'[q] = LiveBuffers[q]
    <3>1. PICK b \in Blocks : IsActive(b) /\ HandleOf(b) = q
      BY <1>2 DEF HeapView
    <3>2. LiveBuffers[q] = block[b].used
      BY <1>2, <3>1 DEF HeapView
    <3>3. QED
      BY <1>4, <2>1, <3>1, <3>2
  <2>4. LiveBuffers' = [q \in Handles' |-> LiveBuffers'[q]]
    BY DEF LiveBuffers
  <2>5. QED
    BY <1>6, <1>7, <2>2, <2>3, <2>4
<1>9. ASSUME NEW q \in Handles
      PROVE  h + n <= q \/ q + LiveBuffers[q] <= h
  <2>1. PICK b \in Blocks : IsActive(b) /\ HandleOf(b) = q
    BY <1>2 DEF HeapView
  <2>2. LiveBuffers[q] = block'[b].used /\ b \in Blocks' /\ b # a /\ IsActive(b)'
    BY <1>2, <1>4, <2>1 DEF HeapView
  <2>3. QED
    BY <1>3, <2>1, <2>2, SeparationNext
<1>10. h # 0
  BY <1>2, <1>7 DEF HeapView
<1>11. InputBuffer' = InputBuffer
  BY DEF Extends, InputBuffer, registers
<1>12. DOMAIN LiveBuffers = Handles /\ DOMAIN LiveBuffers' = Handles \cup {h}
  BY <1>2, <1>8 DEF HeapView
<1>13. QED
  BY <1>6, <1>8, <1>9, <1>10, <1>11, <1>12 DEF H!Alloc, H!Apart

(* free ends the life of one buffer, the input of the call perhaps.        *)
LEMMA FreeRefines ==
  ASSUME KernelInv, KernelInv', NEW a \in Blocks, Free(HandleOf(a))
  PROVE  H!Free \/ UNCHANGED <<LiveBuffers, InputBuffer>>
<1>1. HeapView /\ HeapView'
  BY HeapViewOf, HeapViewNext
<1>2. CASE UNCHANGED <<block, input>>
  BY <1>2 DEF Free, LiveBuffers, InputBuffer, Handles, LengthOf, Finds, Blocks, IsActive,
              InBoundsFast, MemorySize
<1>3. ASSUME NEW b \in Blocks, Finds(HandleOf(a), b),
             block' = [block EXCEPT ![b].status = "Free"],
             input' = IF HandleOf(a) = input.offset THEN [input EXCEPT !.length = 0] ELSE input
      PROVE  H!Free
  <2> DEFINE h == HandleOf(b)
  <2>1. IsActive(b) /\ HandleOf(a) = h /\ h \in Handles
    BY <1>3 DEF Finds, Handles
  <2>2. /\ Blocks' = Blocks
        /\ \A c \in Blocks : IsActive(c)' <=> IsActive(c) /\ c # b
        /\ \A c \in Blocks : c # b => block'[c] = block[c]
    BY <1>3 DEF KernelInv, TypeOK, Blocks, IsActive
  <2>3. \A c \in Blocks : HandleOf(c) = h => c = b
    BY HandleInjective
  <2>4. Handles' = Handles \ {h}
    BY <2>2, <2>3 DEF Handles, HandleOf, Base
  <2>5. LiveBuffers' = [q \in Handles \ {h} |-> LiveBuffers[q]]
    <3>1. \A c \in Blocks' : IsActive(c)' => LiveBuffers'[HandleOf(c)] = block'[c].used
      BY <1>1 DEF HeapView, HandleOf, Base
    <3>2. ASSUME NEW q \in Handles \ {h} PROVE LiveBuffers'[q] = LiveBuffers[q]
      <4>1. PICK c \in Blocks : IsActive(c) /\ HandleOf(c) = q
        BY <1>1 DEF HeapView
      <4>2. c # b /\ LiveBuffers[q] = block[c].used
        BY <1>1, <4>1 DEF HeapView
      <4>3. QED
        BY <2>2, <3>1, <4>1, <4>2
    <3>3. LiveBuffers' = [q \in Handles' |-> LiveBuffers'[q]]
      BY DEF LiveBuffers
    <3>4. QED
      BY <2>4, <3>2, <3>3
  <2>6. InputBuffer' = IF InputBuffer = h THEN 0 ELSE InputBuffer
    <3>1. input \in [offset : Nat, length : Nat] /\ h # 0
      BY <1>1, <2>1 DEF KernelInv, TypeOK, HeapView
    <3>2. QED
      BY <1>3, <2>1, <3>1 DEF InputBuffer
  <2>7. DOMAIN LiveBuffers = Handles
    BY <1>1 DEF HeapView
  <2>8. QED
    BY <2>1, <2>5, <2>6, <2>7 DEF H!Free
<1>4. QED
  BY <1>2, <1>3 DEF Free

LEMMA StepRefines ==
  KernelInv /\ KernelInv' /\ [Next]_vars => [H!Next]_(H!heapVars)
<1> SUFFICES ASSUME KernelInv, KernelInv', [Next]_vars
             PROVE  H!Next \/ UNCHANGED <<LiveBuffers, InputBuffer>>
  BY DEF H!heapVars
<1> DEFINE Same == UNCHANGED <<LiveBuffers, InputBuffer>>
<1>1. HeapView'
  BY HeapViewNext
<1>2. UNCHANGED heap => LiveBuffers' = LiveBuffers
  BY DEF heap, LiveBuffers, Handles, LengthOf, Finds, Blocks, IsActive, InBoundsFast, MemorySize
<1>3. CASE UNCHANGED vars
  BY <1>2, <1>3 DEF vars, heap, InputBuffer
<1>4. CASE \E n \in Requests : Alloc(n)
  <2>1. PICK n \in Requests : Alloc(n)
    BY <1>4
  <2>2. CASE Extends(n)
    BY <2>2, AllocRefines DEF H!Next
  <2>3. QED
    BY <1>3, <2>1, <2>2, AllocExtends
<1>5. CASE \E a \in Blocks : Free(HandleOf(a))
  BY <1>5, FreeRefines DEF H!Next
<1>6. CASE \E h \in Handles \cup {0} : InputSet(h)
  <2>1. LiveBuffers' = LiveBuffers
    BY <1>2, <1>6 DEF InputSet
  <2>2. InputBuffer' \in DOMAIN LiveBuffers \cup {0}
    BY <1>1, <2>1 DEF HeapView
  <2>3. QED
    BY <2>1, <2>2 DEF H!Next, H!SetInput
<1>7. CASE \E h \in Handles \cup {0} : OutputSet(h) \/ ErrorSet(h)
  BY <1>2, <1>7 DEF OutputSet, ErrorSet, InputBuffer
<1>8. CASE Reset
  <2>1. Handles' = {} /\ InputBuffer' = 0
    BY <1>8 DEF Reset, Handles, Blocks, NoBlocks, InputBuffer, Nowhere, Range
  <2>2. LiveBuffers' = [p \in {} |-> 0]
    BY <2>1 DEF LiveBuffers
  <2>3. QED
    BY <2>1, <2>2 DEF H!Next, H!Clear, H!NoBuffers
<1>9. QED
  BY <1>3, <1>4, <1>5, <1>6, <1>7, <1>8 DEF Next

LEMMA InitRefines == Init => H!Init
<1> SUFFICES ASSUME Init PROVE H!Init
  OBVIOUS
<1>1. Handles = {} /\ InputBuffer = 0
  BY DEF Init, Handles, Blocks, NoBlocks, InputBuffer, Nowhere, Range
<1>2. LiveBuffers = [p \in {} |-> 0]
  BY <1>1 DEF LiveBuffers
<1>3. QED
  BY <1>1, <1>2 DEF H!Init, H!NoBuffers

(* To its callers the kernel is the abstract heap: whatever it splits and  *)
(* reuses, alloc answers with a range apart from every live one, free ends *)
(* exactly one buffer, and reset all of them.                              *)
THEOREM KernelImplementsHeap == Spec => ImplementsHeap
BY InitRefines, StepRefines, KernelSafe, PTL DEF Spec, ImplementsHeap, H!Spec

=============================================================================
