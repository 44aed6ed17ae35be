----------------------------- MODULE MCVpnTask -----------------------------
(* VpnTask for TLC: handlers, threads and requests are interchangeable.    *)
EXTENDS VpnTask, TLC

Symmetry ==
  Permutations(Handlers) \cup Permutations(Threads) \cup Permutations(Requests)

=============================================================================
