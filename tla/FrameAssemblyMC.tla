-------------------------- MODULE FrameAssemblyMC --------------------------
(* FrameAssembly on small instances: connections and buffers are symmetric. *)
EXTENDS FrameAssembly, TLC

Symmetry == Permutations(Goroutines) \cup Permutations(Buffers)
=============================================================================
