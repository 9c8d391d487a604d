--------------------------- MODULE MCSubmission ---------------------------
(* Submission for TLC: the messages differ only in their name.             *)
EXTENDS Submission, TLC

MessageSymmetry == Permutations(Messages)
=============================================================================
