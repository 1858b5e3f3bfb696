----------------------------- MODULE MCDriFlip ------------------------------
(* Small screens for TLC.  A pixel value is a model value; damage wider    *)
(* than MCTrim is copied without trimming, so both ways occur.             *)
EXTENDS DriFlip, TLC

Symmetry == Permutations(Value) \cup Permutations(FbId)
=============================================================================
