----------------------------- MODULE RBTreeWalks -----------------------------
(***************************************************************************)
(* The walks over the tree of RBTree: rb_first and rb_last, rb_next and    *)
(* rb_prev.                                                                *)
(***************************************************************************)
EXTENDS RBTree

Nodes == {n \in Keys : InTree(n)}

\* The last node that links on side d lead to.
Utmost(n, d) ==
    LET last[m \in Nodes] == IF heap.kid[m][d] = NIL THEN m ELSE last[heap.kid[m][d]]
    IN  last[n]

\* rb_first and rb_last.
End(d) == IF heap.root = NIL THEN NIL ELSE Utmost(heap.root, d)

\* Mutant: only one step up.
ClimbOnce(n, d) == heap.parent[n]

\* Up as long as the node hangs on side d, and once more.
Climb(n, d) ==
    LET up[m \in Nodes] == LET p == heap.parent[m]
                           IN  IF p # NIL /\ heap.kid[p][d] = m THEN up[p] ELSE p
    IN  up[n]

\* rb_next for d = "right", rb_prev for d = "left".
Neighbour(n, d) == IF heap.kid[n][d] # NIL
                   THEN Utmost(heap.kid[n][d], Opposite(d))
                   ELSE Climb(n, d)

IsLeast(k, S) == IF S = {} THEN k = NIL ELSE k \in S /\ \A j \in S : k <= j
IsGreatest(k, S) == IF S = {} THEN k = NIL ELSE k \in S /\ \A j \in S : k >= j

\* Walking from rb_first with rb_next, or from rb_last with rb_prev, visits
\* every key of the tree once, in order: the list command, the remap and the
\* release loop rely on it.
Traversal ==
    LET all == Contents
    IN  /\ IsLeast(End("left"), all)
        /\ IsGreatest(End("right"), all)
        /\ \A n \in all :
              /\ IsLeast(Neighbour(n, "right"), {k \in all : k > n})
              /\ IsGreatest(Neighbour(n, "left"), {k \in all : k < n})
=============================================================================
