------------------------------ MODULE MCKernel ------------------------------
(***************************************************************************)
(* Kernel with the layout of the shipped extism-runtime.wasm: 64 KiB       *)
(* pages, a 64-byte root, 12-byte headers, 16 initial pages.               *)
(***************************************************************************)
EXTENDS KernelProofs
=============================================================================
