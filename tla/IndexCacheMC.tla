---------------------------- MODULE IndexCacheMC ----------------------------
(***************************************************************************)
(* IndexCache with one or two processes and sources for TLC.               *)
(***************************************************************************)
EXTENDS IndexCache, TLC

\* Two processes run the same code on the same cache.
Interchangeable == Permutations(Procs)

=============================================================================
