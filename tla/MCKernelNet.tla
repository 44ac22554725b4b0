----------------------------- MODULE MCKernelNet -----------------------------
(* Instances of KernelNet for TLC: KernelNet.cfg.                            *)
EXTENDS KernelNet
=============================================================================
