------------------------------ MODULE MCXGCore ------------------------------
(* Instances of XGCore for TLC. *)
EXTENDS XGCore, TLC

\* Connect records are interchangeable, and so are device ids that are all permanent.
ConnSymmetry == Permutations(Conn)
Symmetry == Permutations(Conn) \cup Permutations(Device)
=============================================================================
