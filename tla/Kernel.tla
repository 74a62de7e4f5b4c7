------------------------------- MODULE Kernel -------------------------------
(***************************************************************************)
(* The memory manager of the Extism kernel (kernel/src/lib.rs): a bump     *)
(* allocator with a first-fit list of freed blocks, the input, output and  *)
(* error registers, and reset.  It runs inside one wasm instance, one      *)
(* exported function at a time, so every export is one action.             *)
(*                                                                         *)
(* A block is named by the offset of its header from the `blocks` field of *)
(* the root; its handle is the address of its data.  The code walks the    *)
(* blocks with next_ptr; HeapTiled shows that this walk visits exactly     *)
(* DOMAIN block, in increasing order, which is what FirstFit relies on.    *)
(***************************************************************************)
EXTENDS Integers, FiniteSets

CONSTANTS
  PageSize,    (* PAGE_SIZE                                                *)
  RootSize,    (* size_of::<MemoryRoot>()                                  *)
  HeaderSize,  (* size_of::<MemoryBlock>()                                 *)
  SizeEnd,     (* first byte after MemoryBlock::size, from the header      *)
  SplitSize,   (* the 128 of find_free_block                               *)
  WordMod,     (* 2^32, the values of a wasm32 usize                       *)
  InitPages,   (* pages of a fresh instance's memory                       *)
  MaxPages,    (* pages memory.grow will not go beyond                     *)
  Requests,    (* the lengths callers ask for                              *)
  MaxBlocks    (* bound of the model: blocks that exist at once            *)

ASSUME KernelAssumption ==
  /\ PageSize \in Nat /\ RootSize \in Nat /\ HeaderSize \in Nat
  /\ SizeEnd \in Nat /\ SplitSize \in Nat /\ WordMod \in Nat
  /\ InitPages \in Nat /\ MaxPages \in Nat /\ MaxBlocks \in Nat
  /\ RootSize > 0 /\ HeaderSize > 0
  /\ 2 * RootSize <= PageSize
  /\ SizeEnd <= HeaderSize /\ HeaderSize <= SplitSize
  /\ 1 <= InitPages /\ InitPages <= MaxPages
  /\ MaxPages * PageSize <= WordMod
  /\ Requests \subseteq Nat \ {0}

VARIABLES
  block,       (* header offset -> [status, size, used]                    *)
  position,    (* MemoryRoot::position                                     *)
  length,      (* MemoryRoot::length                                       *)
  pages,       (* memory.size of the instance                              *)
  input,       (* [offset, length] of MemoryRoot::input_*                  *)
  output,      (* [offset, length] of MemoryRoot::output_*                 *)
  error        (* MemoryRoot::error                                        *)

heap == <<block, position, length, pages>>
registers == <<input, output, error>>
vars == <<block, position, length, pages, input, output, error>>

-----------------------------------------------------------------------------
(* Addresses and blocks.                                                   *)

Base == RootSize + 1           \* the root lies at address 1
Blocks == DOMAIN block
HandleOf(a) == Base + a + HeaderSize
EndOf(a) == a + HeaderSize + block[a].size
MemorySize == pages * PageSize

IsActive(a) == block[a].status = "Active"
Handles == {HandleOf(a) : a \in {b \in Blocks : IsActive(b)}}

Block(status, size, used) == [status |-> status, size |-> size, used |-> used]
Range(offset, len) == [offset |-> offset, length |-> len]
Nowhere == Range(0, 0)
NoBlocks == [a \in {} |-> Block("Unused", 0, 0)]

InBounds(p) == Base <= p /\ p < Base + length
InBoundsFast(p) == RootSize <= p /\ p <= MemorySize

(* find_block and length: the block found is the active one with handle p. *)
Finds(p, a) == a \in Blocks /\ IsActive(a) /\ HandleOf(a) = p /\ InBoundsFast(p)
LengthOf(p) ==
  IF \E a \in Blocks : Finds(p, a)
  THEN block[CHOOSE a \in Blocks : Finds(p, a)].used
  ELSE 0

(* find_block compares headers with blocks + offs, though offs is already  *)
(* an address: a walk that finds nothing runs on through the zero bytes    *)
(* after the last block, one header at a time, and traps if it reads a     *)
(* header beyond the end of memory.                                        *)
WalkTraps(p) ==
  LET lastHeader == position + HeaderSize * ((p - 1 - position) \div HeaderSize)
  IN /\ InBoundsFast(p)
     /\ ~\E a \in Blocks : Finds(p, a)
     /\ position < p
     /\ Base + lastHeader + SizeEnd > MemorySize

-----------------------------------------------------------------------------
(* alloc.                                                                  *)

Usize(n) == n % WordMod

(* Mutant: rounds down.                                                    *)
NumPagesFloor(k) == (k \div PageSize) % WordMod

NumPages(k) ==
  (IF k % PageSize # 0 THEN (k \div PageSize) + 1 ELSE k \div PageSize) % WordMod

(* Mutants: sizes are not compared; live blocks are not skipped.           *)
FitsAnySize(a, n) == block[a].status \in {"Unused", "Free"}
FitsAnyStatus(a, n) == block[a].status = "Unused" \/ block[a].size >= Usize(n)

(* Any unused block is taken as it is; a freed one must be large enough.   *)
Fits(a, n) ==
  \/ block[a].status = "Unused"
  \/ block[a].status = "Free" /\ block[a].size >= Usize(n)

FirstFit(a, n) == Fits(a, n) /\ \A b \in Blocks : Fits(b, n) => a <= b

(* Mutants: a block is split when nothing, or only when much, remains.     *)
SplitsAlways(a, n) == block[a].status = "Free" /\ block[a].size >= Usize(n)
SplitsLate(a, n) ==
  block[a].status = "Free" /\ block[a].size - Usize(n) >= 2 * SplitSize

Splits(a, n) ==
  block[a].status = "Free" /\ block[a].size - Usize(n) >= SplitSize

TakeWhole(a, n) ==
  /\ ~Splits(a, n)
  /\ block' = [block EXCEPT ![a] = Block("Active", @.size, Usize(n))]

(* Mutants: the header of the tail is not counted; the head keeps its size.*)
TakeTailNoHeader(a, n) ==
  LET rest == block[a].size - Usize(n)
      tail == a + HeaderSize + rest
  IN /\ Splits(a, n)
     /\ block' = [b \in Blocks \cup {tail} |->
                    CASE b = a    -> Block("Free", rest, 0)
                      [] b = tail -> Block("Active", Usize(n), Usize(n))
                      [] OTHER    -> block[b]]

TakeTailWholeHead(a, n) ==
  LET tail == a + block[a].size - Usize(n)
  IN /\ Splits(a, n)
     /\ block' = [b \in Blocks \cup {tail} |->
                    IF b = tail THEN Block("Active", Usize(n), Usize(n)) ELSE block[b]]

(* The head keeps what is left; the caller gets the tail.                  *)
TakeTail(a, n) ==
  LET rest == block[a].size - (Usize(n) + HeaderSize)
      tail == a + HeaderSize + rest
  IN /\ Splits(a, n)
     /\ block' = [b \in Blocks \cup {tail} |->
                    CASE b = a    -> Block("Free", rest, 0)
                      [] b = tail -> Block("Active", Usize(n), Usize(n))
                      [] OTHER    -> block[b]]

AllocReuse(n) ==
  /\ \E a \in Blocks : FirstFit(a, n) /\ (TakeWhole(a, n) \/ TakeTail(a, n))
  /\ UNCHANGED <<position, length, pages, registers>>

NoFit(n) == \A a \in Blocks : ~Fits(a, n)
MemLeft == length - position - RootSize
NeedsGrowth(n) == n + HeaderSize >= MemLeft

(* Mutant: position does not move past the header.                         *)
PlaceNoHeader(n) ==
  /\ block' = [b \in Blocks \cup {position} |->
                 IF b = position THEN Block("Active", Usize(n), Usize(n)) ELSE block[b]]
  /\ position' = position + n

Place(n) ==
  /\ block' = [b \in Blocks \cup {position} |->
                 IF b = position THEN Block("Active", Usize(n), Usize(n)) ELSE block[b]]
  /\ position' = position + n + HeaderSize

AllocBump(n) ==
  /\ NoFit(n) /\ ~NeedsGrowth(n)
  /\ Place(n)
  /\ UNCHANGED <<length, pages, registers>>

AllocGrow(n) ==
  LET npages == NumPages(n + HeaderSize - MemLeft)
  IN /\ NoFit(n) /\ NeedsGrowth(n)
     /\ pages + npages <= MaxPages
     /\ pages' = pages + npages
     /\ length' = length + npages * PageSize
     /\ Place(n)
     /\ UNCHANGED registers

(* memory.grow is refused: the engine may always do so.                    *)
AllocFails(n) ==
  /\ NoFit(n) /\ NeedsGrowth(n)
  /\ UNCHANGED vars

Alloc(n) == AllocReuse(n) \/ AllocBump(n) \/ AllocGrow(n) \/ AllocFails(n)

-----------------------------------------------------------------------------
(* free, the registers and reset.                                          *)

(* Mutants: free forgets the input register; it returns the block to the   *)
(* state of one that never was.                                            *)
FreeKeepsInput(p) ==
  /\ \/ \E a \in Blocks : Finds(p, a) /\ block' = [block EXCEPT ![a].status = "Free"]
     \/ (~\E a \in Blocks : Finds(p, a)) /\ UNCHANGED block
  /\ UNCHANGED <<position, length, pages, registers>>

FreeUnused(p) ==
  /\ \E a \in Blocks : Finds(p, a) /\ block' = [block EXCEPT ![a].status = "Unused"]
  /\ input' = IF p = input.offset THEN [input EXCEPT !.length = 0] ELSE input
  /\ UNCHANGED <<position, length, pages, output, error>>

(* A handle that is not active (freed twice) finds no block.               *)
Free(p) ==
  /\ \/ \E a \in Blocks :
          /\ Finds(p, a)
          /\ block' = [block EXCEPT ![a].status = "Free"]
          /\ input' = IF p = input.offset THEN [input EXCEPT !.length = 0] ELSE input
     \/ /\ ~\E a \in Blocks : Finds(p, a)
        /\ UNCHANGED <<block, input>>
  /\ UNCHANGED <<position, length, pages, output, error>>

Accepts(p, len) == InBounds(p) /\ InBounds(p + len - 1)

(* "h must always be a handle [...] len must match length(handle)"; the    *)
(* host also passes the null handle for an empty input.                    *)
InputSet(h) ==
  /\ input' = IF Accepts(h, LengthOf(h)) THEN Range(h, LengthOf(h)) ELSE input
  /\ UNCHANGED <<heap, output, error>>

OutputSet(p) ==
  /\ output' = IF Accepts(p, LengthOf(p)) THEN Range(p, LengthOf(p)) ELSE output
  /\ UNCHANGED <<heap, input, error>>

ErrorSet(h) ==
  /\ error' = IF h = 0 \/ InBounds(h) THEN h ELSE error
  /\ UNCHANGED <<heap, input, output>>

(* Mutant: the output register survives.                                   *)
ResetKeepsOutput ==
  /\ position' = 0
  /\ block' = NoBlocks
  /\ input' = Nowhere /\ error' = 0
  /\ UNCHANGED <<length, pages, output>>

Reset ==
  /\ position' = 0
  /\ block' = NoBlocks
  /\ input' = Nowhere /\ output' = Nowhere /\ error' = 0
  /\ UNCHANGED <<length, pages>>

-----------------------------------------------------------------------------
(* MemoryRoot::new, which the first call of any export runs.               *)
Init ==
  /\ block = NoBlocks
  /\ position = 0
  /\ length = PageSize - RootSize
  /\ pages = InitPages
  /\ input = Nowhere /\ output = Nowhere /\ error = 0

Bounded == Cardinality(Blocks) <= MaxBlocks

Next ==
  \/ \E n \in Requests : Alloc(n) /\ Bounded'
  \/ \E a \in Blocks : Free(HandleOf(a))
  \/ \E h \in Handles \cup {0} : InputSet(h)
  \/ \E h \in Handles \cup {0} : OutputSet(h)
  \/ \E h \in Handles \cup {0} : ErrorSet(h)
  \/ Reset

Spec == Init /\ [][Next]_vars

-----------------------------------------------------------------------------
(* Properties.                                                             *)

(* Every variable keeps the shape MemoryRoot and MemoryBlock give it.      *)
TypeOK ==
  /\ block \in [Blocks -> [status : {"Unused", "Active", "Free"}, size : Nat, used : Nat]]
  /\ Blocks \subseteq Nat
  /\ position \in Nat /\ length \in Nat /\ pages \in Nat
  /\ input \in [offset : Nat, length : Nat]
  /\ output \in [offset : Nat, length : Nat]
  /\ error \in Nat

(* The blocks lie end to end from offset 0 to position, so a walk with     *)
(* next_ptr meets every block and nothing else (alloc, reset, find_block). *)
HeapTiled ==
  /\ position # 0 => 0 \in Blocks
  /\ \A a \in Blocks : EndOf(a) = position \/ (EndOf(a) < position /\ EndOf(a) \in Blocks)
  /\ \A a, b \in Blocks : a < b => EndOf(a) <= b

(* Below position no block is Unused: find_free_block never hands out a    *)
(* block without comparing sizes (lib.rs:223).                             *)
BlocksUsed == \A a \in Blocks : block[a].status # "Unused"

(* The subtraction `self_length - self_position - size_of::<MemoryRoot>()` *)
(* of alloc never wraps, and every block lies inside the wasm memory.      *)
WithinMemory ==
  /\ MemLeft >= 0
  /\ \A a \in Blocks : Base + EndOf(a) <= MemorySize
  /\ RootSize + length <= MemorySize

(* Buffers callers hold never share a byte with one another or with a      *)
(* header, whatever was freed, split and reused before: the purpose of     *)
(* find_free_block and alloc.                                              *)
LiveDisjoint ==
  \A a, b \in Blocks :
    IsActive(a) /\ IsActive(b) /\ a < b => HandleOf(a) + block[a].used <= HandleOf(b) - HeaderSize

(* "`block` will contain at least enough room for `length` bytes but may   *)
(* be as large as `length` + `BLOCK_SPLIT_SIZE` bytes": a live block       *)
(* wastes less than SplitSize bytes (alloc, find_free_block).              *)
SlackBounded ==
  \A a \in Blocks :
    IsActive(a) => block[a].used <= block[a].size /\ block[a].size < block[a].used + SplitSize

(* alloc(n) hands out a block with room for n bytes.                       *)
AllocRoom ==
  [][\A n \in Requests :
       Alloc(n) => \A a \in DOMAIN block' :
                     block'[a].status = "Active" /\ (a \in Blocks => ~IsActive(a))
                       => block'[a].size >= n]_vars

(* A non-empty input register always designates a live buffer of exactly   *)
(* that length: free clears it (lib.rs:378) and reset does too.            *)
InputLive ==
  input.length # 0 =>
    \E a \in Blocks : Finds(input.offset, a) /\ block[a].used = input.length

(* Until reset, a block keeps its place: it never disappears, and a live   *)
(* one keeps its length until it is freed, whatever else is allocated.     *)
BlocksPersist ==
  [][position' # 0 =>
       \A a \in Blocks :
         /\ a \in DOMAIN block'
         /\ IsActive(a) => block'[a].size = block[a].size
                           /\ (block'[a] = block[a] \/ block'[a].status = "Free")]_vars

(* Freeing a buffer leaves `output` and `error` pointing at it (only the   *)
(* input is cleared), yet until reset a register never points outside the  *)
(* allocated blocks: what the host reads through it is inside the heap.    *)
RegistersInHeap ==
  /\ \A r \in {input, output} :
       r.length # 0 => /\ r.offset \in {HandleOf(a) : a \in Blocks}
                       /\ r.offset + r.length <= Base + position
  /\ error # 0 => error \in {HandleOf(a) : a \in Blocks}

(* length(p) is 0, not a trap, for every pointer that is not a handle: the *)
(* last pointers of memory are the interesting ones (lib.rs:410).          *)
LengthAnswers ==
  \A p \in {0, position, MemorySize - HeaderSize, MemorySize} : ~WalkTraps(p)

(* The kernel implements the abstract heap.                                *)
LiveBuffers == [p \in Handles |-> LengthOf(p)]
InputBuffer == IF input.length # 0 THEN input.offset ELSE 0
H == INSTANCE Heap WITH live <- LiveBuffers, input <- InputBuffer, None <- 0
ImplementsHeap == H!Spec

=============================================================================
