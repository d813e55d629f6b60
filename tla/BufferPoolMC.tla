---------------------------- MODULE BufferPoolMC ----------------------------
(* BufferPool on a small instance: goroutines and buffers are symmetric.    *)
EXTENDS BufferPool, TLC

Symmetry == Permutations(Goroutines) \cup Permutations(Buffers)
=============================================================================
