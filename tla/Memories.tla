------------------------------ MODULE Memories ------------------------------
(***************************************************************************)
(* The wasm memories in a plugin's store and the limiter over them         *)
(* (MemoryLimiter in runtime/src/current_plugin.rs, the linear memories of *)
(* runtime/src/otoroshi).  A store only grows: a memory once made stays    *)
(* until the plugin is freed.  Sizes are in pages, as in the manifest.     *)
(*                                                                         *)
(* build_new makes the kernel's memory and the shared ones before it       *)
(* installs the limiter, so those are not counted; all that comes later    *)
(* is.  Contents are represented by who wrote last.                        *)
(***************************************************************************)
EXTENDS Integers, Sequences, FiniteSets, Functions

CONSTANTS
  KernelPages,  (* what the kernel's memory starts with                    *)
  MaxPages,     (* bound of the model: pages of a memory                   *)
  MaxMemories   (* bound of the model: memories in the store               *)

None == -1

ASSUME MemoriesAssumption == {KernelPages, MaxPages, MaxMemories} \subseteq Nat

VARIABLES
  limit,       (* MemoryLimiter::max_bytes; None: no limiter is installed  *)
  left,        (* MemoryLimiter::bytes_left                                *)
  memory,      (* the memories of the store, in order of creation          *)
  linked,      (* the shared memory the linker has under its name          *)
  imported     (* the one the guest was linked with: instance_pre's        *)

memoryVars == <<limit, left, memory, linked, imported>>

-----------------------------------------------------------------------------
(* Memory types, as wasmtime has them.                                     *)
Type(min, max) == [min |-> min, max |-> max]

(* WasmMemory::new drops a maximum that is not above the minimum.          *)
WasmMemory(min, max) == Type(min, IF max > min THEN max ELSE None)

NewMemory(type) == [type |-> type, pages |-> type.min, by |-> "nobody"]

Kernel == 1
Held == SumFunction([i \in DOMAIN memory |-> memory[i].pages])

(* Mutant: the limiter looks at the size asked for and not at the growth.  *)
MemoryGrowingUncounted(current, desired, maximum) ==
  /\ maximum # None => desired < maximum
  /\ desired <= limit

(* memory_growing: its error makes a memory.grow trap and a creation fail. *)
(* A memory may not even reach its declared maximum.                       *)
MemoryGrowing(current, desired, maximum) ==
  /\ maximum # None => desired < maximum
  /\ desired - current <= left

Granted(current, desired, maximum) ==
  limit # None => MemoryGrowing(current, desired, maximum)

(* The limiter counts a growth before it takes place.                      *)
Spend(n) == left' = IF limit = None THEN left ELSE left - n

(* Memory::new once the limiter is there.                                  *)
Create(type) ==
  /\ Granted(0, type.min, type.max)
  /\ Len(memory) < MaxMemories
  /\ Spend(type.min)
  /\ memory' = Append(memory, NewMemory(type))

(* memory.grow, by guest code, the kernel's alloc or PluginMemory::alloc.  *)
Grow(i, n) ==
  LET m == memory[i]
  IN /\ Granted(m.pages, m.pages + n, m.type.max)
     /\ m.pages + n <= IF m.type.max = None THEN MaxPages ELSE m.type.max
     /\ Spend(n)
     /\ memory' = [memory EXCEPT ![i].pages = @ + n]
     /\ UNCHANGED <<limit, linked, imported>>

(* The system may have no room for what the limiter has granted: -1, and   *)
(* what was counted stays counted.                                         *)
GrowFails(i, n) ==
  /\ Granted(memory[i].pages, memory[i].pages + n, memory[i].type.max)
  /\ Spend(n)
  /\ UNCHANGED <<limit, memory, linked, imported>>

GrowRefused(i, n) ==
  /\ ~Granted(memory[i].pages, memory[i].pages + n, memory[i].type.max)
  /\ UNCHANGED memoryVars

-----------------------------------------------------------------------------
(* The functions on linear memories, by namespace and name.                *)

(* A write out of bounds answers -1 and does nothing.                      *)
Write(i, who) ==
  /\ memory[i].pages > 0
  /\ memory' = [memory EXCEPT ![i].by = who]
  /\ UNCHANGED <<limit, left, linked, imported>>

(* wasm_otoroshi_extism_memory_write_bytes looks its memory up in the      *)
(* linker, and so do linear_memory_get and linear_memory_size.             *)
WriteBytes == Write(linked, "host")

(* linear_memory_reset_from_plugin makes another memory of the same type   *)
(* and puts it into the linker; the guest keeps the one it has.            *)
LinearMemoryReset ==
  /\ Create(memory[linked].type)
  /\ linked' = Len(memory')
  /\ UNCHANGED <<limit, imported>>

(* Its unwrap() panics when the limiter refuses the new memory.            *)
LinearMemoryResetPanics ==
  LET type == memory[linked].type
  IN ~Granted(0, type.min, type.max) /\ UNCHANGED memoryVars

(* The limiter's reset, once the guest's instance is there.                *)
LimiterReset ==
  left' = limit /\ UNCHANGED <<limit, memory, linked, imported>>

(* build_new: max_pages is the manifest's, min and max what was given to   *)
(* wasm_otoroshi_create_wasmtime_memory.                                   *)
MemoriesInit(max_pages, min, max) ==
  /\ limit = max_pages /\ left = max_pages
  /\ memory = <<NewMemory(Type(KernelPages, None)), NewMemory(WasmMemory(min, max))>>
  /\ linked = 2 /\ imported = 2

-----------------------------------------------------------------------------
(* What build_new made before the limiter was there.                       *)
Uncounted == KernelPages + memory[2].type.min

(* bytes_left is unsigned: a growth is never counted beyond what is left.  *)
MemoriesTypeOK ==
  /\ IF limit = None THEN left = None ELSE limit \in Nat /\ left \in 0 .. limit
  /\ memory \in Seq([type : [min : Nat, max : Nat \cup {None}], pages : Nat,
                     by : {"nobody", "host", "guest"}])
  /\ linked \in 2 .. Len(memory) /\ imported \in 2 .. Len(memory)

=============================================================================
