---------------------------- MODULE MCNetServer ----------------------------
(* Instances of NetServer for TLC. *)
EXTENDS NetServer

\* Descriptors are interchangeable.
FdSymmetry == Permutations(Fd)
=============================================================================
