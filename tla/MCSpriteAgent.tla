--------------------------- MODULE MCSpriteAgent ---------------------------
(* SpriteAgent with interchangeable handlers.                              *)
EXTENDS SpriteAgent, TLC

JobSymmetry == Permutations(Jobs)
=============================================================================
