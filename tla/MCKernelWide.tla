----------------------------- MODULE MCKernelWide -----------------------------
(***************************************************************************)
(* Kernel for TLC with requests that RequestsFit excludes: alloc takes a   *)
(* u64, and one request here does not fit a usize.  A usize has 30 bits    *)
(* here instead of 32, because the integers of TLC have 32.                *)
(***************************************************************************)
EXTENDS Kernel
=============================================================================
