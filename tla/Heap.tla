-------------------------------- MODULE Heap --------------------------------
(***************************************************************************)
(* What the Extism kernel promises its callers, without saying how it      *)
(* finds room: a set of live buffers, each at its own range of addresses,  *)
(* and at most one of them designated as the input of the current call.    *)
(***************************************************************************)
EXTENDS Integers

CONSTANTS
  Requests,  (* The lengths callers ask for.                               *)
  None       (* No buffer: the null handle.                                *)

VARIABLES
  live,      (* Handle of each live buffer -> its length.                  *)
  input      (* The handle of the input buffer, or None.                   *)

heapVars == <<live, input>>

NoBuffers == [p \in {} |-> 0]

(* The bytes of the buffer of length n at p share none with a live buffer. *)
Apart(p, n) == \A q \in DOMAIN live : p + n <= q \/ q + live[q] <= p

Init ==
  /\ live = NoBuffers
  /\ input = None

(* Some request is given a range of its own; every other buffer keeps its. *)
Alloc ==
  /\ \E n \in Requests, p \in DOMAIN live' \ DOMAIN live :
       /\ p # None
       /\ Apart(p, n)
       /\ live' = [q \in DOMAIN live \cup {p} |-> IF q = p THEN n ELSE live[q]]
  /\ UNCHANGED input

(* One buffer goes; if it was the input there is no input any more.        *)
Free ==
  \E p \in DOMAIN live :
    /\ live' = [q \in DOMAIN live \ {p} |-> live[q]]
    /\ input' = IF input = p THEN None ELSE input

SetInput ==
  /\ input' \in DOMAIN live \cup {None}
  /\ UNCHANGED live

Clear ==
  /\ live' = NoBuffers
  /\ input' = None

Next == Alloc \/ Free \/ SetInput \/ Clear

Spec == Init /\ [][Next]_heapVars

=============================================================================
