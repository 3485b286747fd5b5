-------------------------- MODULE MCClientLifecycle --------------------------
(* ClientLifecycle with a few threads, connections and frames. *)
EXTENDS ClientLifecycle, TLC

ThreadSymmetry == Permutations(Threads)
=============================================================================
