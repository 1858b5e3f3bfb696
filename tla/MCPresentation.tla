--------------------------- MODULE MCPresentation ---------------------------
(* Small instances of Presentation for TLC. *)
EXTENDS Presentation, TLC

ClientSymmetry == Permutations(Fd)
IdSymmetry == Permutations(Id)
Symmetry == ClientSymmetry \cup IdSymmetry
=============================================================================
