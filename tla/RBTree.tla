------------------------------- MODULE RBTree -------------------------------
(***************************************************************************)
(* The red-black tree of property/rbtree: the search of map.c, the linking *)
(* and erasing of nodes, and the two loops that restore the colours, one   *)
(* step per round of each loop.  The code writes every case twice, once    *)
(* for each side; here a case has the side as a parameter.                 *)
(*                                                                         *)
(* A node is its key.  The caller holds wmutex from the call to the end,   *)
(* so the operations do not overlap.                                       *)
(***************************************************************************)
EXTENDS Integers, FiniteSets

CONSTANTS Keys,         \* the keys, ordered as strcmp orders them
          NIL           \* the null pointer

ASSUME TreeAssumption == Keys \subseteq Int /\ NIL \notin Keys

VARIABLES heap,     \* the root pointer, and the colour, parent and kids of each node
          pc,       \* "idle" or the loop that runs
          node,     \* the local variables of the loops: the node they are at,
          parent    \* and its parent (in a search, the last node compared)

vars == <<heap, pc, node, parent>>

Sides == {"left", "right"}
Opposite(d) == IF d = "left" THEN "right" ELSE "left"
Pointers == Keys \cup {NIL}

-----------------------------------------------------------------------------
(* Writes to the heap.                                                      *)

SetParent(h, n, p) == IF n = NIL THEN h ELSE [h EXCEPT !.parent[n] = p]
SetKid(h, n, d, k) == [h EXCEPT !.kid[n][d] = k]
Paint(h, n, c) == [h EXCEPT !.color[n] = c]

\* The side of p on which n hangs; the code looks at the left one first.
SideOf(h, p, n) == IF h.kid[p]["left"] = n THEN "left" ELSE "right"

\* The parent's link to `from`, or the root, leads to `to`.
Relink(h, p, from, to) ==
    IF p = NIL THEN [h EXCEPT !.root = to]
               ELSE SetKid(h, p, SideOf(h, p, from), to)

\* Mutant: the inner subtree keeps its old parent.
RotateKeepsParent(h, n, d) ==
    LET up    == h.kid[n][Opposite(d)]
        inner == h.kid[up][d]
        p     == h.parent[n]
        h1    == SetKid(SetKid(h, n, Opposite(d), inner), up, d, n)
        h2    == SetParent(h1, up, p)
    IN  SetParent(Relink(h2, p, n, up), n, up)

\* __rb_rotate_left(n) for d = "left", __rb_rotate_right(n) for d = "right":
\* n goes down on side d and its kid on the other side takes its place.
Rotate(h, n, d) ==
    LET up    == h.kid[n][Opposite(d)]
        inner == h.kid[up][d]
        p     == h.parent[n]
        h1    == SetParent(SetKid(h, n, Opposite(d), inner), inner, n)
        h2    == SetParent(SetKid(h1, up, d, n), up, p)
    IN  SetParent(Relink(h2, p, n, up), n, up)

IsRed(h, n) == n # NIL /\ h.color[n] = "red"

\* The fields of a node that is not in the tree.
Blank == [left |-> NIL, right |-> NIL]

Init == /\ heap = [root |-> NIL,
                   color |-> [n \in Keys |-> "red"],
                   parent |-> [n \in Keys |-> NIL],
                   kid |-> [n \in Keys |-> Blank]]
        /\ pc = "idle"
        /\ node = NIL /\ parent = NIL

-----------------------------------------------------------------------------
(* Search: get, and the first loop of put.  parent is the last node the key *)
(* was compared with, node the key.                                         *)

Call(k) ==
    /\ pc = "idle"
    /\ pc' = "search"
    /\ node' = k /\ parent' = NIL
    /\ UNCHANGED heap

\* The link the search has come to: the root, or a kid of the last node.
Link == IF parent = NIL THEN heap.root
        ELSE heap.kid[parent][IF node < parent THEN "left" ELSE "right"]

\* Mutant: the loop looks at the same node again.
DescendStays ==
    /\ pc = "search"
    /\ Link \notin {NIL, node}
    /\ UNCHANGED vars

Descend ==
    /\ pc = "search"
    /\ Link \notin {NIL, node}
    /\ parent' = Link
    /\ UNCHANGED <<heap, pc, node>>

Return == pc' = "idle" /\ node' = NIL /\ parent' = NIL

\* put stores the value in the node it finds (ValuePool), get returns it.
Found ==
    /\ pc = "search" /\ Link = node
    /\ Return
    /\ UNCHANGED heap

\* A get that falls off the tree.
NotFound ==
    /\ pc = "search" /\ Link = NIL
    /\ Return
    /\ UNCHANGED heap

\* Mutant: the new leaf hangs on the other side of its parent.
LinkNodeOtherSide ==
    /\ pc = "search" /\ Link = NIL
    /\ LET h == [heap EXCEPT !.color[node] = "red", !.kid[node] = Blank,
                             !.parent[node] = parent]
       IN  heap' = IF parent = NIL THEN [h EXCEPT !.root = node]
                   ELSE SetKid(h, parent, IF node < parent THEN "right" ELSE "left", node)
    /\ pc' = "insert_color"
    /\ parent' = NIL
    /\ UNCHANGED node

\* A put that falls off the tree: rb_link_node makes its key a red leaf there.
LinkNode ==
    /\ pc = "search" /\ Link = NIL
    /\ LET h == [heap EXCEPT !.color[node] = "red", !.kid[node] = Blank,
                             !.parent[node] = parent]
       IN  heap' = IF parent = NIL THEN [h EXCEPT !.root = node]
                   ELSE SetKid(h, parent, IF node < parent THEN "left" ELSE "right", node)
    /\ pc' = "insert_color"
    /\ parent' = NIL
    /\ UNCHANGED node

-----------------------------------------------------------------------------
(* rb_insert_color: node is red and perhaps its parent is.                  *)

RedParent == IsRed(heap, heap.parent[node])
Grandparent == heap.parent[heap.parent[node]]
ParentSide == SideOf(heap, Grandparent, heap.parent[node])
Uncle == heap.kid[Grandparent][Opposite(ParentSide)]

\* Mutant: the uncle stays red.
InsertRecolorNotUncle ==
    /\ pc = "insert_color" /\ RedParent /\ IsRed(heap, Uncle)
    /\ heap' = Paint(Paint(heap, heap.parent[node], "black"), Grandparent, "red")
    /\ node' = Grandparent
    /\ UNCHANGED <<pc, parent>>

\* A red uncle: push the grandparent's black down and go on from there.
InsertRecolor ==
    /\ pc = "insert_color" /\ RedParent /\ IsRed(heap, Uncle)
    /\ heap' = Paint(Paint(Paint(heap, Uncle, "black"),
                           heap.parent[node], "black"), Grandparent, "red")
    /\ node' = Grandparent
    /\ UNCHANGED <<pc, parent>>

\* A black uncle: an inner node is first turned outwards, then the
\* grandparent is turned down and changes colours with the parent.
InsertRotate ==
    /\ pc = "insert_color" /\ RedParent /\ ~IsRed(heap, Uncle)
    /\ LET d == ParentSide
           g == Grandparent
           p == heap.parent[node]
           inner == heap.kid[p][Opposite(d)] = node
           h == IF inner THEN Rotate(heap, p, d) ELSE heap
           top == IF inner THEN node ELSE p
       IN  /\ heap' = Rotate(Paint(Paint(h, top, "black"), g, "red"), g, Opposite(d))
           /\ node' = IF inner THEN p ELSE node
    /\ UNCHANGED <<pc, parent>>

InsertEnd ==
    /\ pc = "insert_color" /\ ~RedParent
    /\ heap' = Paint(heap, heap.root, "black")
    /\ Return

-----------------------------------------------------------------------------
(* rb_erase                                                                 *)

\* The freed node's fields are nobody's any more.
Forget(h, n) == [h EXCEPT !.color[n] = "red", !.parent[n] = NIL, !.kid[n] = Blank]

\* map.c erases a node it has found in the tree.
InTree(n) == heap.root = n \/ heap.parent[n] # NIL

\* Where a black node has left its place, the paths through its only child, under
\* its parent p, are to be repaired.
Repair(color, child, p) ==
    IF color = "black" THEN pc' = "erase_color" /\ node' = child /\ parent' = p
                       ELSE pc' = "idle" /\ node' = NIL /\ parent' = NIL

\* A node without two kids leaves its place to the one it has.
Spliced(n, child) ==
    LET p == heap.parent[n]
    IN  Relink(SetParent(heap, child, p), p, n, child)

EraseSplices(n) ==
    /\ pc = "idle" /\ InTree(n)
    /\ \E d \in Sides :
          LET child == heap.kid[n][Opposite(d)]
          IN  /\ heap.kid[n][d] = NIL
              /\ heap' = Forget(Spliced(n, child), n)
              /\ Repair(heap.color[n], child, heap.parent[n])

\* A node with two kids: its successor is looked for, from its right kid on. The
\* node that will be erased is in parent meanwhile.
EraseSearches(n) ==
    /\ pc = "idle" /\ InTree(n)
    /\ \A d \in Sides : heap.kid[n][d] # NIL
    /\ pc' = "successor"
    /\ node' = heap.kid[n]["right"] /\ parent' = n
    /\ UNCHANGED heap

Erase(n) == EraseSplices(n) \/ EraseSearches(n)

SuccessorDescends ==
    /\ pc = "successor" /\ heap.kid[node]["left"] # NIL
    /\ node' = heap.kid[node]["left"]
    /\ UNCHANGED <<heap, pc, parent>>

\* The successor s leaves its place to its right kid and takes n's place, colour
\* and kids.
Replaced(n, s) ==
    LET kid == heap.kid[n]
        child == heap.kid[s]["right"]
        p == heap.parent[s]
        h1 == Relink(heap, heap.parent[n], n, s)
        h2 == IF p = n THEN h1
              ELSE SetParent(SetKid(SetKid(SetParent(h1, child, p), p, "left", child),
                                    s, "right", kid["right"]), kid["right"], s)
        h3 == [h2 EXCEPT !.color[s] = heap.color[n], !.parent[s] = heap.parent[n]]
    IN  SetParent(SetKid(h3, s, "left", kid["left"]), kid["left"], s)

SuccessorReplaces ==
    /\ pc = "successor" /\ heap.kid[node]["left"] = NIL
    /\ heap' = Forget(Replaced(parent, node), parent)
    /\ LET p == heap.parent[node]
       IN  Repair(heap.color[node], heap.kid[node]["right"], IF p = parent THEN node ELSE p)

-----------------------------------------------------------------------------
(* __rb_erase_color: the paths through node lack one black node.            *)

Short == ~IsRed(heap, node) /\ node # heap.root
ShortSide == SideOf(heap, parent, node)

\* A red sibling is first turned up, so that the sibling is black.
SiblingBlack ==
    LET other == heap.kid[parent][Opposite(ShortSide)]
    IN  IF IsRed(heap, other)
        THEN Rotate(Paint(Paint(heap, other, "black"), parent, "red"), parent, ShortSide)
        ELSE heap
Sibling == SiblingBlack.kid[parent][Opposite(ShortSide)]
BlackNephews == \A d \in Sides : ~IsRed(SiblingBlack, SiblingBlack.kid[Sibling][d])

\* Mutant: the loop stays at the node and its parent.
EraseRecolorStays ==
    /\ pc = "erase_color" /\ Short /\ BlackNephews
    /\ heap' = Paint(SiblingBlack, Sibling, "red")
    /\ UNCHANGED <<pc, node, parent>>

\* Two black nephews: the sibling gives up its black, the parent's paths lack one.
EraseRecolor ==
    /\ pc = "erase_color" /\ Short /\ BlackNephews
    /\ heap' = Paint(SiblingBlack, Sibling, "red")
    /\ node' = parent
    /\ parent' = SiblingBlack.parent[parent]
    /\ UNCHANGED pc

\* A red nephew: turned outwards if it is the inner one, then the sibling takes
\* the parent's place and colour, and nothing is missing any more.
EraseRotate ==
    /\ pc = "erase_color" /\ Short /\ ~BlackNephews
    /\ LET d == ShortSide
           s == Sibling
           near == SiblingBlack.kid[s][d]
           h1 == IF IsRed(SiblingBlack, SiblingBlack.kid[s][Opposite(d)])
                 THEN SiblingBlack
                 ELSE Rotate(Paint(Paint(SiblingBlack, near, "black"), s, "red"),
                             s, Opposite(d))
           top == h1.kid[parent][Opposite(d)]
           h2 == Paint(Paint(Paint(h1, top, h1.color[parent]), parent, "black"),
                       h1.kid[top][Opposite(d)], "black")
       IN  /\ heap' = Rotate(h2, parent, d)
           /\ node' = Rotate(h2, parent, d).root
    /\ UNCHANGED <<pc, parent>>

EraseEnd ==
    /\ pc = "erase_color" /\ ~Short
    /\ heap' = IF node = NIL THEN heap ELSE Paint(heap, node, "black")
    /\ Return

-----------------------------------------------------------------------------
Successor == SuccessorDescends \/ SuccessorReplaces
Search == Descend \/ Found \/ NotFound \/ LinkNode
InsertColor == InsertRecolor \/ InsertRotate \/ InsertEnd
EraseColor == EraseRecolor \/ EraseRotate \/ EraseEnd

Next == \/ \E k \in Keys : Call(k) \/ Erase(k)
        \/ Search \/ InsertColor \/ Successor \/ EraseColor

\* An operation that has begun runs on.
Spec == Init /\ [][Next]_vars /\ WF_vars(Search \/ InsertColor \/ Successor \/ EraseColor)

-----------------------------------------------------------------------------
TypeOK == /\ heap \in [root : Pointers,
                       color : [Keys -> {"red", "black"}],
                       parent : [Keys -> Pointers],
                       kid : [Keys -> [Sides -> Pointers]]]
          /\ pc \in {"idle", "search", "insert_color", "successor", "erase_color"}
          /\ node \in Pointers /\ parent \in Pointers

\* The nodes that hang below a link, it included: those that are in every set that
\* the link leads into and no link leads out of.
Closed(h, S) == \A n \in S, d \in Sides : h.kid[n][d] \in S \cup {NIL}
Below(h, n) ==
    LET holding == {S \in SUBSET Keys : n \in S \cup {NIL} /\ Closed(h, S)}
    IN  {k \in Keys : \A S \in holding : k \in S}

Contents == Below(heap, heap.root)

\* A search never walks past its key: a key of the tree is below the link the
\* search has come to, so that one which falls off the tree is not in it.
SearchStaysAbove == pc = "search" /\ node \in Contents => node \in Below(heap, Link)

\* The tree is a search tree in every round of every loop: smaller keys to the
\* left, larger ones to the right, and each node's parent is the node whose
\* kid it is.  A search never loses its key in it.
SearchTree ==
    /\ TypeOK /\ SearchStaysAbove
    /\ heap.root # NIL => heap.parent[heap.root] = NIL
    /\ \A n \in Contents :
          /\ \A k \in Below(heap, heap.kid[n]["left"]) : k < n
          /\ \A k \in Below(heap, heap.kid[n]["right"]) : k > n
          /\ \A d \in Sides : heap.kid[n][d] # NIL => heap.parent[heap.kid[n][d]] = n

\* The links that lead nowhere, each the end of a path from the root.
Ends == {e \in Contents \X Sides : heap.kid[e[1]][e[2]] = NIL}

\* __rb_erase_color owes the paths through node one black node more.
Owed(e) == pc = "erase_color" /\ (IF node = NIL THEN e = <<parent, ShortSide>>
                                                ELSE e[1] \in Below(heap, node))

\* The black nodes on the paths to the ends, what is owed included.
BlackHeights ==
    LET below == [k \in Contents |-> Below(heap, k)]
    IN  {Cardinality({k \in DOMAIN below : e[1] \in below[k] /\ ~IsRed(heap, k)})
            + (IF Owed(e) THEN 1 ELSE 0) : e \in Ends}

RedBelowRed(n) == IsRed(heap, n) /\ IsRed(heap, heap.parent[n])

\* The loops follow pointers that they never compare with NULL: a red parent
\* has a parent, and a node that is short of a black one has a sibling, before
\* and after a red sibling is turned up.
NoNullPointer ==
    /\ pc = "insert_color" /\ RedParent => Grandparent # NIL
    /\ pc = "erase_color" /\ Short =>
          /\ parent # NIL
          /\ heap.kid[parent][Opposite(ShortSide)] # NIL
          /\ Sibling # NIL

\* The loop invariants of rb_insert_color and __rb_erase_color, and what they
\* leave behind: all paths have as many black nodes, no red node has a red
\* parent and the root is black, but at the one node the loop will repair.  So
\* the loops follow no null pointer.
RedBlack ==
    /\ NoNullPointer
    /\ Cardinality(BlackHeights) <= 1
    /\ \A n \in Contents : RedBelowRed(n) =>
          \/ pc = "insert_color" /\ n = node
          \/ pc = "erase_color" /\ node \in {n, heap.parent[n]}
    /\ IsRed(heap, heap.root) =>
          pc \in {"insert_color", "erase_color"} /\ node = heap.root

\* The nodes that the loop may still come to: going down, those below its link;
\* going up, those that are not below its node, and none when its test fails.
Ahead == CASE pc = "search" -> Below(heap, Link)
           [] pc = "successor" -> Below(heap, node)
           [] \/ pc = "insert_color" /\ RedParent
              \/ pc = "erase_color" /\ Short -> Contents \ Below(heap, node)
           [] OTHER -> {}

\* The loops that the operation has before it.
LoopsAhead == CASE pc = "idle" -> 0
                [] pc \in {"insert_color", "erase_color"} -> 1
                [] pc \in {"search", "successor"} -> 2

\* The step goes on to a later loop, or it is a round that leaves fewer of finitely
\* many nodes ahead.
Nearer == \/ LoopsAhead' < LoopsAhead
          \/ pc' = pc /\ IsFiniteSet(Ahead) /\ Ahead' \subseteq Ahead /\ Ahead' # Ahead

\* Every step of an operation brings its end nearer, whatever is rotated meanwhile.  So
\* no loop goes round for ever, with wmutex locked.
EveryRoundAdvances == [][pc # "idle" => Nearer]_vars

-----------------------------------------------------------------------------
Set == INSTANCE KeySet WITH keys <- Contents

\* The nodes that hang below the root are the set of KeySet: only the linking
\* of a new key and an erasure change it, no rotation and no repainting does.
ImplementsKeySet == Set!KeySetSpec

\* Every search, insertion and erasure comes to an end: the loops terminate.
OperationsEnd == pc # "idle" ~> pc = "idle"
=============================================================================
