-------------------------- MODULE MCKernelSnapshot --------------------------
(***************************************************************************)
(* Model checking of KernelSnapshot with a few builds, which no definition *)
(* tells apart.                                                            *)
(***************************************************************************)
EXTENDS KernelSnapshot, TLC

AllFaults == {"crash", "io_error"}
Kernels == Permutations(Builds)
=============================================================================
