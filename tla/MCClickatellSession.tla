------------------------ MODULE MCClickatellSession ------------------------
(* ClickatellSession for TLC.                                              *)
EXTENDS ClickatellSession, TLC

CallerSymmetry == Permutations(Callers)
=============================================================================
