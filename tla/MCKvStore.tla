------------------------------ MODULE MCKvStore ------------------------------
(* Instances of KvStore for TLC. *)
EXTENDS KvStore, TLC

\* Contents are interchangeable: only safety is checked with it.
DataSymmetry == Permutations(Data)

=============================================================================
