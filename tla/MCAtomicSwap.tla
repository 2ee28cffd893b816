----------------------------- MODULE MCAtomicSwap ---------------------------
(* A small instance of AtomicSwap: short deadlines, every choice of honest parties. *)
EXTENDS AtomicSwap, TLC
=============================================================================
