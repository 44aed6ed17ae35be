--------------------------- MODULE MCDbusService ---------------------------
(* DbusService for TLC: GUIs are interchangeable.                          *)
EXTENDS DbusService, TLC

Symmetry == Permutations(Guis)

=============================================================================
