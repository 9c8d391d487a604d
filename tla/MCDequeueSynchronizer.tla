----------------------- MODULE MCDequeueSynchronizer -----------------------
(* DequeueSynchronizer for TLC: the workers differ only in their index.    *)
EXTENDS DequeueSynchronizer, TLC

WorkerSymmetry == Permutations(Workers)
=============================================================================
