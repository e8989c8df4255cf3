------------------------------- MODULE KeySet -------------------------------
(***************************************************************************)
(* What the red-black tree of property/rbtree promises to map.c: a set to  *)
(* which a put adds a key that is not there, and from which an erasure     *)
(* takes one that is.  RBTree implements this module.                      *)
(***************************************************************************)
CONSTANT Keys

VARIABLE keys           \* the keys in the tree

KeySetInit == keys = {}

Add(k) == k \notin keys /\ keys' = keys \cup {k}
Remove(k) == k \in keys /\ keys' = keys \ {k}

KeySetNext == \E k \in Keys : Add(k) \/ Remove(k)

KeySetSpec == KeySetInit /\ [][KeySetNext]_keys
=============================================================================
