--------------------------- MODULE CurrentPlugin ----------------------------
(***************************************************************************)
(* What host code does for a running guest (runtime/src/current_plugin.rs, *)
(* pdk.rs): the memories of Memories, buffers in the kernel's memory, the  *)
(* plugin's variables and HTTP status, and the pointers by which all of it *)
(* is reached, over a plugin's calls.  One thread: the calls hold the      *)
(* instance lock (see Plugin).                                             *)
(*                                                                         *)
(* A Plugin is a Rust value that its owner may move.  CurrentPlugin, which *)
(* lives in the store on the heap, holds raw pointers to the Plugin's      *)
(* fields; places are numbered.                                            *)
(***************************************************************************)
EXTENDS Memories

CONSTANTS
  Plugins,     (* what a plugin may be made of: see PluginRecords          *)
  Texts,       (* what a buffer may hold: non-empty sequences of bytes     *)
  Utf8,        (* those that are strings; bound of the model: finitely many*)
  Handles,     (* bound of the model: offsets of kernel blocks             *)
  VarLimit,    (* 100MB, the size above which var_set adds nothing         *)
  Hosts, Statuses,
  MaxPlaces    (* bound of the model: places the Plugin is moved to        *)

(* The manifest's max_pages and allowed_hosts (the hosts that match a      *)
(* pattern of it; none if there is no list), the minimum and maximum of    *)
(* the linear memory, the type of the guest's own memory.                  *)
PluginRecords ==
  [max_pages : Nat \cup {None}, allowed_hosts : SUBSET Hosts, min : Nat, max : Nat,
   own : [min : Nat, max : Nat \cup {None}]]

ASSUME CurrentPluginAssumption ==
  /\ Plugins \subseteq PluginRecords
  /\ IsFiniteSet(Utf8) /\ Utf8 \subseteq Texts /\ Texts \subseteq Seq(Nat) \ {<<>>}
  /\ VarLimit \in Nat /\ MaxPlaces \in Nat \ {0} /\ 0 \notin Handles

VARIABLES
  own,         (* the type of the guest's own memory                       *)
  allowed,     (* the hosts the manifest allows                            *)
  phase,       (* where the current call is                                *)
  kind,        (* whether it is an extism or a native call                 *)
  instance,    (* whether the guest has been instantiated                  *)
  place,       (* where the Plugin is                                      *)
  pointers,    (* where CurrentPlugin::store and ::linker point            *)
  export,      (* memory_export: the guest's own memory, 0 while null      *)
  blocks,      (* the live buffers of the kernel's heap; <<>>: none there  *)
  variables,   (* CurrentPlugin::vars                                      *)
  http_status  (* CurrentPlugin::http_status                               *)

callVars == <<own, allowed, phase, kind, instance, place, pointers, export>>
dataVars == <<blocks, variables, http_status>>
vars == <<memoryVars, callVars, dataVars>>

-----------------------------------------------------------------------------
Keys == Utf8 \cup {<<>>}
NoBlocks == [h \in Handles |-> <<>>]

GuestRuns == phase \in {"start", "init", "guest"}

(* After a failure return_error stores the message through the pointers,   *)
(* if there is an instance.  What a stale pointer does is undefined.       *)
Fail == phase' = IF instance /\ pointers # place THEN "stale" ELSE "idle"
Goto(p) == phase' = p

(* A host function of the guest: reaches everything through the pointers.  *)
HostFunction == GuestRuns /\ pointers = place

-----------------------------------------------------------------------------
(* Calls (plugin.rs).                                                      *)

(* The owner of a Plugin moves it; the C API does so once, into a Box.     *)
Move ==
  /\ phase = "idle" /\ place < MaxPlaces
  /\ place' = place + 1
  /\ UNCHANGED <<memoryVars, dataVars, own, allowed, phase, kind, instance, pointers,
                 export>>

EnterCall(k) == IF k = "extism" THEN "input" ELSE "guest"

(* A function name that is not UTF-8 fails right away (see Plugin).        *)
Call(k) ==
  /\ phase = "idle"
  /\ kind' = k
  /\ Goto(IF instance THEN EnterCall(k) ELSE "instantiate") \/ Fail
  /\ UNCHANGED <<memoryVars, dataVars, own, allowed, instance, place, pointers, export>>

(* instantiate makes the guest's memory and runs its start function.       *)
Instantiate ==
  /\ phase = "instantiate"
  /\ \/ Create(own) /\ Goto("start") /\ UNCHANGED <<limit, linked, imported>>
     \/ ~Granted(0, own.min, own.max) /\ Fail /\ UNCHANGED memoryVars
  /\ UNCHANGED <<dataVars, own, allowed, kind, instance, place, pointers, export>>

(* Mutant: the limiter is also reset when the start function fails.        *)
StartedOrTrapped ==
  /\ phase = "start"
  /\ \/ /\ instance' = TRUE /\ export' = Len(memory) /\ Goto("init")
     \/ Fail /\ UNCHANGED <<instance, export>>
  /\ LimiterReset
  /\ UNCHANGED <<dataVars, own, allowed, kind, place, pointers>>

Started ==
  /\ phase = "start"
  /\ instance' = TRUE /\ export' = Len(memory)
  /\ LimiterReset
  /\ Goto("init")
  /\ UNCHANGED <<dataVars, own, allowed, kind, place, pointers>>

(* initialize_guest_runtime has returned.                                  *)
Initialized ==
  /\ phase = "init"
  /\ Goto(EnterCall(kind))
  /\ UNCHANGED <<memoryVars, dataVars, own, allowed, kind, instance, place, pointers,
                 export>>

-----------------------------------------------------------------------------
(* Buffers (current_plugin.rs).                                            *)

(* memory_handle: 0 is the null handle, which designates nothing; any      *)
(* other offset must be that of a live block.                              *)
Bytes(offs) == IF offs = 0 THEN <<>> ELSE blocks[offs]
IsHandle(offs) == offs = 0 \/ Bytes(offs) # <<>>
IsStr(offs) == IsHandle(offs) /\ Bytes(offs) \in Keys

(* memory_new and memory_alloc: nothing is allocated for an empty value;   *)
(* otherwise the kernel finds room, growing its memory if it must.         *)
Store(h, bytes) ==
  /\ blocks[h] = <<>>
  /\ blocks' = [blocks EXCEPT ![h] = bytes]
  /\ UNCHANGED memoryVars \/ Grow(Kernel, 1)

MemoryNew(bytes) ==
  \/ bytes = <<>> /\ UNCHANGED <<memoryVars, blocks>>
  \/ bytes # <<>> /\ \E h \in Handles : Store(h, bytes)

(* Or it cannot: the limiter makes the kernel trap, or alloc answers 0.    *)
OutOfMemory(bytes) ==
  /\ bytes # <<>>
  /\ GrowRefused(Kernel, 1) \/ GrowFails(Kernel, 1)
  /\ UNCHANGED blocks

(* set_input: the pointers are set right before the kernel is reset and    *)
(* the input allocated.                                                    *)
InputStored(bytes) ==
  \/ /\ bytes # <<>>
     /\ \/ \E h \in Handles :
             /\ blocks' = [NoBlocks EXCEPT ![h] = bytes]
             /\ UNCHANGED memoryVars \/ Grow(Kernel, 1)
             /\ Goto("guest")
        \/ /\ GrowRefused(Kernel, 1) \/ GrowFails(Kernel, 1)
           /\ blocks' = NoBlocks /\ Goto("idle")
  \/ /\ bytes = <<>>
     /\ blocks' = NoBlocks /\ Goto("guest")
     /\ UNCHANGED memoryVars

(* Mutant: the pointers are only set by build_new.                         *)
SetInputKeepsPointers(bytes) ==
  /\ phase = "input"
  /\ InputStored(bytes)
  /\ UNCHANGED <<own, allowed, kind, instance, place, pointers, export, variables,
                 http_status>>

SetInput(bytes) ==
  /\ phase = "input"
  /\ pointers' = place
  /\ InputStored(bytes)
  /\ UNCHANGED <<own, allowed, kind, instance, place, export, variables, http_status>>

-----------------------------------------------------------------------------
(* The guest, which calls the kernel itself, grows its memories, ends.     *)

GuestAlloc(bytes) ==
  /\ GuestRuns
  /\ \/ MemoryNew(bytes)
     \/ bytes # <<>> /\ GrowFails(Kernel, 1) /\ UNCHANGED blocks
  /\ UNCHANGED <<callVars, variables, http_status>>

GuestFree(h) ==
  /\ GuestRuns
  /\ blocks' = [blocks EXCEPT ![h] = <<>>]
  /\ UNCHANGED <<memoryVars, callVars, variables, http_status>>

(* memory.grow, of its own memory (the last one made), as custom_memory_   *)
(* alloc does for it, or of the shared one it imports.                     *)
GuestGrows ==
  /\ GuestRuns
  /\ \E i \in {imported, IF export = 0 THEN Len(memory) ELSE export} :
       \/ (Grow(i, 1) \/ GrowFails(i, 1)) /\ UNCHANGED phase
       \/ GrowRefused(i, 1) /\ Fail
  /\ UNCHANGED <<dataVars, own, allowed, kind, instance, place, pointers, export>>

(* Mutant: the guest's import follows the linker.                          *)
GuestWritesLinked ==
  /\ GuestRuns
  /\ Write(linked, "guest")
  /\ UNCHANGED <<callVars, dataVars>>

GuestWrites ==
  /\ GuestRuns
  /\ Write(imported, "guest")
  /\ UNCHANGED <<callVars, dataVars>>

(* Returns from the function that was called, or traps anywhere.           *)
GuestReturns ==
  /\ phase = "guest"
  /\ Goto("idle")
  /\ UNCHANGED <<memoryVars, dataVars, own, allowed, kind, instance, place, pointers,
                 export>>

GuestTraps ==
  /\ GuestRuns
  /\ Fail
  /\ UNCHANGED <<memoryVars, dataVars, own, allowed, kind, instance, place, pointers,
                 export>>

=============================================================================
