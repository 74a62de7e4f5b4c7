-------------------------------- MODULE MCPdk -------------------------------
(* Pdk for TLC: the constants that a .cfg cannot write.                    *)
EXTENDS Pdk, TLC

Made(max_pages, hosts, min, max, type) ==
  [max_pages |-> max_pages, allowed_hosts |-> hosts, min |-> min, max |-> max, own |-> type]

(* A limit that a reset of the shared memory uses up; one that refuses the *)
(* guest's own memory, whose minimum is its maximum; none at all.          *)
MCPlugins ==
  {Made(2, {"a"}, 1, 2, Type(1, None)), Made(1, {}, 0, 0, Type(1, 1)),
   Made(None, {}, 1, 0, Type(0, 1))}

MCTexts == {<<1>>, <<1, 1>>}
MCUtf8 == {<<1>>}
MCSymmetry == Permutations(Handles)
=============================================================================
