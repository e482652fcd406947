---------------------------- MODULE MCChordNode ----------------------------
(* ChordNode for TLC: the workers are interchangeable where no liveness is *)
(* checked.                                                                *)
EXTENDS ChordNode, TLC

WorkerSymmetry == Permutations(Workers)
=============================================================================
