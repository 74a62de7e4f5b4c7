---------------------------- MODULE HostFunctions ---------------------------
(***************************************************************************)
(* Host functions, their user data and the plugins that own them           *)
(* (runtime/src/function.rs, sdk.rs, otoroshi/sdk.rs): an ExtismFunction   *)
(* is a cell from which the creation of a plugin takes the Function; the   *)
(* linker of the plugin refers to the Function's closure by a raw pointer; *)
(* the user data is reference-counted and freed by a callback.             *)
(*                                                                         *)
(* Functions and plugins are numbered in the order of their creation.      *)
(***************************************************************************)
EXTENDS Linking, FiniteSets

CONSTANTS
  MaxFunctions,  (* bounds of the model: numbers of functions and plugins  *)
  MaxPlugins,
  Manifests      (* the manifests plugins are made from                    *)

ASSUME HostFunctionsAssumption ==
  MaxFunctions \in Nat /\ MaxPlugins \in Nat /\ Manifests \subseteq Seq(Entries)

VARIABLES
  function,      (* the functions: the cell, the strong count of the user  *)
                 (* data's Arc, and how often its callback was called      *)
  plugin         (* the plugins: state, Plugin::_functions, what the       *)
                 (* linker points to, the host function that is running    *)

hostVars == <<function, plugin>>

-----------------------------------------------------------------------------
(* UserData::new_pointer and Function::new: the closure has one reference  *)
(* and Function::_user_data another.                                       *)
NewFunction == [cell |-> "full", refs |-> 2, freed |-> 0]

(* References go, the last one with the callback (CPtr::drop).             *)
Less(f, n) ==
  [f EXCEPT !.refs = @ - n, !.freed = IF f.refs = n THEN @ + 1 ELSE @]

DropFunction(f) == Less(f, 2)

NewPlugin == [state |-> "building", functions |-> {}, linker |-> {}, running |-> 0]

-----------------------------------------------------------------------------
(* A null or ill-formed name makes no function.                            *)
FunctionNew ==
  /\ Len(function) < MaxFunctions
  /\ function' = Append(function, NewFunction)
  /\ UNCHANGED plugin

(* Mutant: the Function is dropped whether or not it is in the cell.       *)
FunctionFreeAgain(f) ==
  /\ function[f].cell # "freed"
  /\ function' = [function EXCEPT ![f] = [DropFunction(@) EXCEPT !.cell = "freed"]]
  /\ UNCHANGED plugin

(* extism_function_free drops the cell, with the Function if it is there.  *)
FunctionFree(f) ==
  /\ function[f].cell # "freed"
  /\ LET now == IF function[f].cell = "full" THEN DropFunction(function[f])
                ELSE function[f]
     IN function' = [function EXCEPT ![f] = [now EXCEPT !.cell = "freed"]]
  /\ UNCHANGED plugin

(* extism_plugin_new and extism_plugin_new_with_memories take what is in   *)
(* the cells they are given; for an empty one they set *errmsg and go on.  *)
(* The caller gives no function it has freed.                              *)
PluginNew(given) ==
  LET taken == {f \in given : function[f].cell = "full"}
  IN /\ Len(plugin) < MaxPlugins
     /\ \A f \in given : function[f].cell # "freed"
     /\ function' = [f \in DOMAIN function |->
                       [function[f] EXCEPT !.cell = IF f \in taken THEN "empty" ELSE @]]
     /\ plugin' = Append(plugin, [NewPlugin EXCEPT !.functions = taken, !.linker = taken])

(* What a plugin owns is dropped with it, or with the failure to make it.  *)
DropAll(p) ==
  function' = [f \in DOMAIN function |->
                 IF f \in plugin[p].functions THEN DropFunction(function[f])
                 ELSE function[f]]

(* Mutant: the modules are linked before the functions are defined.        *)
BuildableBare(p, wasm) == Links(wasm, Modules(wasm), {})

Buildable(p, wasm) == Links(wasm, Modules(wasm), plugin[p].functions)

(* Mutant: the functions are dropped when build_new returns.               *)
BuildForgets(p, wasm) ==
  /\ plugin[p].state = "building"
  /\ Buildable(p, wasm)
  /\ plugin' = [plugin EXCEPT ![p].state = "live", ![p].functions = {}]
  /\ DropAll(p)

(* build_new succeeds: the plugin keeps the functions.                     *)
Build(p, wasm) ==
  /\ plugin[p].state = "building"
  /\ Buildable(p, wasm)
  /\ plugin' = [plugin EXCEPT ![p].state = "live"]
  /\ UNCHANGED function

(* It fails, by what the manifest says or for any other reason: a start    *)
(* function of a library, WASI, the configuration of wasmtime.             *)
BuildFails(p) ==
  /\ plugin[p].state = "building"
  /\ plugin' = [plugin EXCEPT ![p] = [NewPlugin EXCEPT !.state = "freed"]]
  /\ DropAll(p)

(* The guest calls a function of the linker, whose closure clones the user *)
(* data for the time of the call.                                          *)
HostCall(p, f) ==
  /\ plugin[p].state = "live" /\ f \in plugin[p].linker /\ plugin[p].running = 0
  /\ plugin' = [plugin EXCEPT ![p].running = f]
  /\ function' = [function EXCEPT ![f].refs = @ + 1]

HostCallReturns(p) ==
  LET f == plugin[p].running
  IN /\ f # 0
     /\ plugin' = [plugin EXCEPT ![p].running = 0]
     /\ function' = [function EXCEPT ![f] = Less(function[f], 1)]

(* extism_plugin_free drops the linker and the store before the functions. *)
(* The caller sees to it that the plugin is in no call.                    *)
PluginFree(p) ==
  /\ plugin[p].state = "live" /\ plugin[p].running = 0
  /\ plugin' = [plugin EXCEPT ![p] = [NewPlugin EXCEPT !.state = "freed"]]
  /\ DropAll(p)

HostInit == function = <<>> /\ plugin = <<>>

(* The functions of the C API a thread may call at any time: the one that  *)
(* writes no line to the log, and those that do. A caller frees no plugin  *)
(* that is in use.                                                         *)
Unlogged == \E f \in DOMAIN function : FunctionFree(f)
Logged(idle) ==
  \/ FunctionNew
  \/ \E given \in SUBSET DOMAIN function : PluginNew(given)
  \/ \E p \in idle : PluginFree(p)

(* What goes on inside them, and in the plugins whose guests can run.      *)
Internal(calling) ==
  \/ \E p \in DOMAIN plugin, wasm \in Manifests : Build(p, wasm)
  \/ \E p \in DOMAIN plugin : BuildFails(p)
  \/ \E p \in calling : HostCallReturns(p)
  \/ \E p \in calling, f \in DOMAIN function : HostCall(p, f)

-----------------------------------------------------------------------------
HostTypeOK ==
  /\ function \in Seq([cell : {"full", "empty", "freed"}, refs : Nat, freed : {0, 1}])
  /\ plugin \in Seq([state : {"building", "live", "freed"},
                     functions : SUBSET DOMAIN function, linker : SUBSET DOMAIN function,
                     running : DOMAIN function \cup {0}])

(* A function is in its cell or belongs to one plugin; its user data has   *)
(* two references for that and one for each running call, is freed with    *)
(* the last and never before, and no linker points to a function whose     *)
(* plugin does not own it (Function::new, CPtr::drop, the order of         *)
(* Plugin's fields).                                                       *)
UserDataOwned ==
  /\ \A f \in DOMAIN function :
       LET owners == {p \in DOMAIN plugin : f \in plugin[p].functions}
           homes == Cardinality(owners) + IF function[f].cell = "full" THEN 1 ELSE 0
           calls == Cardinality({p \in DOMAIN plugin : plugin[p].running = f})
       IN /\ homes <= 1
          /\ function[f].refs = 2 * homes + calls
          /\ function[f].freed = IF function[f].refs = 0 THEN 1 ELSE 0
  /\ \A p \in DOMAIN plugin : plugin[p].linker \subseteq plugin[p].functions

(* A plugin can be made exactly from a manifest whose entries can be told  *)
(* apart, with one of them main, and all of whose imports can be had where *)
(* they are linked: main's from the functions that were given (load,       *)
(* modules, build_new).                                                    *)
MadeAsReferred ==
  \A p \in DOMAIN plugin, wasm \in Manifests :
    plugin[p].state = "building"
      => (Buildable(p, wasm) <=> Accepted(wasm, plugin[p].functions))

=============================================================================
