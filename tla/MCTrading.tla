------------------------------ MODULE MCTrading ------------------------------
(***************************************************************************)
(* Values of the constants of module Trading for model checking.  A         *)
(* full-strength signal allocates a twentieth of the capital: one unit at   *)
(* the higher price, two at the lower.                                     *)
(* Symbols are interchangeable.                                            *)
(***************************************************************************)
EXTENDS Trading

Interchangeable == Permutations(Symbols)

Full == {[n |-> 1, d |-> 1]}
=============================================================================
