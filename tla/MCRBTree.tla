------------------------------ MODULE MCRBTree ------------------------------
(* RBTree and its walks for TLC: the keys are the first few numbers. *)
EXTENDS RBTreeWalks
CONSTANT NumKeys
MCKeys == 1..NumKeys
=============================================================================
