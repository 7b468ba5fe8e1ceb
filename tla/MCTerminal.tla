----------------------------- MODULE MCTerminal -----------------------------
(***************************************************************************)
(* Symmetry for the model of Terminal: nothing tells one window from       *)
(* another, and the run checks no liveness.                                *)
(***************************************************************************)
EXTENDS Terminal, TLC

WindowSymmetry == Permutations(Windows)

=============================================================================
