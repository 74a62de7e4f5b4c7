------------------------------ MODULE Linking -------------------------------
(***************************************************************************)
(* From a manifest to a linked plugin (runtime/src/manifest.rs, build_new  *)
(* in runtime/src/plugin.rs): which wasm becomes which module, and what    *)
(* each of them may import.  Pure operators.                               *)
(*                                                                         *)
(* Module names are numbered in the order of their strings, in which a     *)
(* BTreeMap has them; 0 stands for no name.                                *)
(***************************************************************************)
EXTENDS Integers, Sequences

CONSTANTS
  KernelName,  (* "extism:host/env"                                        *)
  MainName,    (* "main"                                                   *)
  LibNames     (* other names                                              *)

ASSUME LinkingAssumption ==
  /\ {KernelName, MainName} \cup LibNames \subseteq Nat \ {0}
  /\ KernelName # MainName /\ {KernelName, MainName} \cap LibNames = {}

Names == {KernelName, MainName} \cup LibNames

(* An entry of the manifest: its name, whether it can be fetched and       *)
(* compiled, its hash (check_hash: a mismatch is an error), and what it    *)
(* imports: exports of other modules, PDK functions, host functions.       *)
Entries ==
  [name : Names \cup {0}, found : BOOLEAN, hash : {"none", "same", "other"},
   needs : SUBSET Names, pdk : BOOLEAN, functions : SUBSET Nat]

ToModule(wasm) == wasm.found /\ wasm.hash # "other"
NameOf(wasm) == IF wasm.name = 0 THEN MainName ELSE wasm.name

(* The modules by name: 0 is the kernel, n the n-th entry.  No modules at  *)
(* all: an error.                                                          *)
KernelOnly == [n \in {KernelName} |-> 0]
Error == [n \in {} |-> 0]
Insert(mods, name, i) == [n \in DOMAIN mods \cup {name} |-> IF n = name THEN i ELSE mods[n]]

(* One turn of the loop of `modules`: the last entry becomes main if there *)
(* is none yet.                                                            *)
Add(wasm, mods, i) ==
  LET name == IF i = Len(wasm) /\ MainName \notin DOMAIN mods
              THEN MainName ELSE NameOf(wasm[i])
  IN IF mods = Error \/ ~ToModule(wasm[i]) \/ name \in DOMAIN mods THEN Error
     ELSE Insert(mods, name, i)

(* A single entry is main whatever its name.  A module given as such, not  *)
(* in a manifest, is like a single entry.                                  *)
Modules(wasm) ==
  LET loaded[i \in 0 .. Len(wasm)] ==
        IF i = 0 THEN KernelOnly ELSE Add(wasm, loaded[i - 1], i)
  IN IF wasm = <<>> THEN Error
     ELSE IF Len(wasm) = 1
          THEN IF ToModule(wasm[1]) THEN Insert(KernelOnly, MainName, 1) ELSE Error
          ELSE loaded[Len(wasm)]

(* What an import of a module may be resolved to: `defined` holds the      *)
(* modules in the linker.                                                  *)
Resolves(wasm, defined, pdk, functions) ==
  wasm.needs \subseteq defined /\ (wasm.pdk => pdk) /\ wasm.functions \subseteq functions

(* linker.module for a module that is not main, when those of the names in *)
(* `defined` have been linked: no PDK and no host function is there yet.   *)
LinksLib(wasm, mods, defined, n) ==
  mods[n] # 0 => Resolves(wasm[mods[n]], defined, FALSE, {})

(* build_new: the other modules in the order of the map, so that each has  *)
(* those whose names sort before its own, then main.                       *)
Links(wasm, mods, functions) ==
  LET libs == DOMAIN mods \ {MainName}
  IN /\ MainName \in DOMAIN mods
     /\ \A n \in libs : LinksLib(wasm, mods, {l \in libs : l < n}, n)
     /\ Resolves(wasm[mods[MainName]], libs, TRUE, functions)

-----------------------------------------------------------------------------
(* The reference definition: what manifests are good for, without the      *)
(* loops.                                                                  *)

(* The entry that becomes main: the only one, or the one that is named     *)
(* main or not at all, or the last.                                        *)
Main(wasm) ==
  LET named == {i \in DOMAIN wasm : wasm[i].name \in {0, MainName}}
  IN IF Len(wasm) = 1 \/ named = {} THEN Len(wasm) ELSE CHOOSE i \in named : TRUE

(* The other entries have different names, and none of them main's or the  *)
(* kernel's.                                                               *)
WellNamed(wasm) ==
  LET others == DOMAIN wasm \ {Main(wasm)}
  IN /\ \A i \in others : wasm[i].name \in LibNames
     /\ \A i, j \in others : wasm[i].name = wasm[j].name => i = j

(* A library uses the kernel and other libraries only if their names sort  *)
(* before its own, and neither the PDK nor host functions.                 *)
WellLinked(wasm, functions) ==
  LET main == wasm[Main(wasm)]
      others == DOMAIN wasm \ {Main(wasm)}
      Has(n) == n = KernelName \/ \E i \in others : wasm[i].name = n
  IN /\ \A n \in main.needs : Has(n)
     /\ main.functions \subseteq functions
     /\ \A i \in others :
          /\ ~wasm[i].pdk /\ wasm[i].functions = {}
          /\ \A n \in wasm[i].needs : Has(n) /\ n < wasm[i].name

Accepted(wasm, functions) ==
  /\ wasm # <<>> /\ \A i \in DOMAIN wasm : ToModule(wasm[i])
  /\ WellNamed(wasm) /\ WellLinked(wasm, functions)

=============================================================================
