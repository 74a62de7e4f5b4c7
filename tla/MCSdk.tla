------------------------------- MODULE MCSdk --------------------------------
EXTENDS Sdk

(* 1 sorts before the kernel (2), then main (3) and 4.                     *)
Entry(name, needs) ==
  [name |-> name, found |-> TRUE, hash |-> "none", needs |-> needs, pdk |-> FALSE,
   functions |-> {}]
MainEntry == [Entry(0, {}) EXCEPT !.functions = {1}]

MCManifests == {
  <<>>,
  <<Entry(4, {2})>>,                                  (* alone: main       *)
  <<[Entry(0, {}) EXCEPT !.hash = "other"]>>,         (* not what was named *)
  <<MainEntry, Entry(1, {})>>,
  <<Entry(1, {}), MainEntry>>,
  <<Entry(1, {2}), MainEntry>>,                       (* before the kernel *)
  <<Entry(4, {1}), Entry(1, {}), Entry(3, {4})>>,     (* a chain of libraries *)
  <<Entry(1, {4}), Entry(4, {}), Entry(3, {})>>,      (* against the order *)
  <<Entry(4, {}), Entry(4, {}), Entry(3, {4})>>,      (* the same name twice *)
  <<Entry(0, {}), Entry(0, {})>>,                     (* main twice        *)
  <<Entry(4, {}), Entry(1, {4})>>,                    (* the last is main  *)
  <<[Entry(4, {}) EXCEPT !.pdk = TRUE], MainEntry>>,  (* a library and the PDK *)
  <<Entry(2, {}), MainEntry>>                         (* another kernel    *)
}

(* Every manifest of at most three such entries is linked as the reference *)
(* definition says.                                                        *)
SomeEntries ==
  {Entry(name, needs) : name \in {0, 1, 3, 4}, needs \in {{}, {2}, {4}, {1, 3}}}
    \cup {MainEntry, [Entry(1, {}) EXCEPT !.found = FALSE], Entry(2, {})}

ASSUME LinkingAgrees ==
  \A n \in 0 .. 3, functions \in {{}, {1}} : \A wasm \in [1 .. n -> SomeEntries] :
    Links(wasm, Modules(wasm), functions) <=> Accepted(wasm, functions)

=============================================================================
