--------------------------- MODULE RBTree_proofs ---------------------------
(***************************************************************************)
(* The red-black tree of RBTree is a search tree, its paths have as many   *)
(* black nodes each, the walks of RBTreeWalks visit every key in order,    *)
(* and it is the set of KeySet, for every set of keys and in every round   *)
(* of every loop.                                                          *)
(***************************************************************************)
EXTENDS RBTreeWalks, FiniteSetTheorems, WellFoundedInduction, TLAPS

-----------------------------------------------------------------------------
(* The inductive invariant.  T are the nodes of the tree, B[n] those of the *)
(* subtree at n, H[n] is the number of black nodes on a path down from n.   *)

Heap == [root : Pointers,
         color : [Keys -> {"red", "black"}],
         parent : [Keys -> Pointers],
         kid : [Keys -> [Sides -> Pointers]]]

\* A key k belongs on side d of n.
OnSide(k, n, d) == IF d = "left" THEN k < n ELSE k > n

Node(h, T, B, n) == \A d \in Sides :
    /\ h.kid[n][d] \in T \cup {NIL}
    /\ h.kid[n][d] # NIL => h.parent[h.kid[n][d]] = n
    /\ B[n] = {n} \cup B[h.kid[n][d]] \cup B[h.kid[n][Opposite(d)]]
    /\ \A k \in B[h.kid[n][d]] : OnSide(k, n, d)

\* Each node is the parent of its kids and has its place between their keys.
Shape(h, T, B) ==
    /\ h \in Heap
    /\ T \subseteq Keys /\ IsFiniteSet(T)
    /\ B \in [T \cup {NIL} -> SUBSET T] /\ B[NIL] = {}
    /\ h.root \in T \cup {NIL} /\ B[h.root] = T
    /\ h.root # NIL => h.parent[h.root] = NIL
    /\ \A n \in T : Node(h, T, B, n)
    /\ \A n \in Keys \ T : h.parent[n] = NIL

Weight(h, n) == IF IsRed(h, n) THEN 0 ELSE 1

\* Paths have as many black nodes on both sides of every node, where those through
\* the link of q on side s are credited with one.
Heights(h, T, H, q, s) ==
    /\ H \in [T \cup {NIL} -> Nat] /\ H[NIL] = 0
    /\ \A n \in T, d \in Sides :
          H[n] = Weight(h, n) + H[h.kid[n][d]] + (IF n = q /\ d = s THEN 1 ELSE 0)

\* A red node has a red kid only if it is up, or the kid is down.
Apart(h, T, up, down) == \A y \in T, e \in Sides :
    IsRed(h, y) /\ IsRed(h, h.kid[y][e]) => y = up \/ h.kid[y][e] = down

\* The link that a search for n has come to from p.
LinkFrom(h, n, p) == IF p = NIL THEN h.root ELSE h.kid[p][IF n < p THEN "left" ELSE "right"]

\* A search has the key on the right side of all nodes it has passed.
Searching(h, n, p, T, B) ==
    /\ n \in Keys /\ p \in T \cup {NIL} /\ p # n
    /\ \A m \in T, d \in Sides : p \in B[h.kid[m][d]] => OnSide(n, m, d)
    /\ n \in T => n \in B[LinkFrom(h, n, p)]

\* What the search for the successor of p has left behind is larger than n.
Succeeding(h, n, p, T, B) ==
    /\ p \in T /\ \A d \in Sides : h.kid[p][d] # NIL
    /\ n \in B[h.kid[p]["right"]]
    /\ \A k \in B[h.kid[p]["right"]] : k \in B[n] \/ k > n

Inserting(h, n, T) ==
    /\ n \in T /\ IsRed(h, n)
    /\ Apart(h, T, NIL, n)
    /\ IsRed(h, h.root) => n = h.root

Repairing(h, n, p, T) ==
    /\ n \in T \cup {NIL}
    /\ n # h.root => p \in T /\ h.kid[p][SideOf(h, p, n)] = n
    /\ Apart(h, T, n, n)
    /\ IsRed(h, h.root) => n = h.root

Debtor(h, c, n, p) == IF c = "erase_color" /\ n # h.root THEN p ELSE NIL

Good(h, c, n, p, T, B, H) ==
    /\ Shape(h, T, B)
    /\ Heights(h, T, H, Debtor(h, c, n, p), SideOf(h, p, n))
    /\ c \in {"idle", "search", "insert_color", "successor", "erase_color"}
    /\ n \in Pointers /\ p \in Pointers
    /\ c \in {"idle", "search", "successor"} => Apart(h, T, NIL, NIL) /\ ~IsRed(h, h.root)
    /\ c = "search" => Searching(h, n, p, T, B)
    /\ c = "successor" => Succeeding(h, n, p, T, B)
    /\ c = "insert_color" => Inserting(h, n, T)
    /\ c = "erase_color" => Repairing(h, n, p, T)

TreeInv(T, B, H) == Good(heap, pc, node, parent, T, B, H)

Inv == \E T, B, H : TreeInv(T, B, H)

-----------------------------------------------------------------------------
(* Sides and order.                                                         *)

\* There are two sides, each the opposite of the other.
LEMMA OppositeIs ==
    /\ \A d \in Sides : /\ Opposite(d) \in Sides /\ Opposite(d) # d
                        /\ Opposite(Opposite(d)) = d
    /\ \A d, e \in Sides : e # d => e = Opposite(d)
    /\ "left" \in Sides /\ "right" \in Sides /\ Opposite("right") = "left"
BY DEF Sides, Opposite

\* The sides order the keys, as strcmp does: no key is on a side of itself, two are on
\* opposite sides of each other, and the order is transitive and total.
LEMMA OnSideIs ==
    /\ \A n \in Keys, d \in Sides : ~OnSide(n, n, d)
    /\ \A k, n \in Keys, d \in Sides :
          /\ OnSide(k, n, d) => k # n /\ ~OnSide(k, n, Opposite(d)) /\ OnSide(n, k, Opposite(d))
          /\ OnSide(k, n, Opposite(d)) => OnSide(n, k, d)
    /\ \A k, m, n \in Keys, d \in Sides :
          OnSide(k, m, d) /\ OnSide(m, n, d) => OnSide(k, n, d)
    /\ \A k, n \in Keys : /\ k # n => OnSide(k, n, IF k < n THEN "left" ELSE "right")
                          /\ OnSide(k, n, "left") <=> k < n
                          /\ OnSide(k, n, "right") <=> k > n
BY TreeAssumption DEF OnSide, Sides, Opposite

-----------------------------------------------------------------------------
(* What a tree is made of.                                                  *)

\* A node of the tree, one side of it, and the subtrees at its two kids, which are apart.
LEMMA NodeFacts ==
    ASSUME NEW h, NEW T, NEW B, Shape(h, T, B), NEW n \in T, NEW d \in Sides
    PROVE  /\ n \in Keys /\ n # NIL /\ n \in B[n] /\ B[n] \subseteq T
           /\ h.kid[n][d] \in T \cup {NIL}
           /\ h.kid[n][d] # NIL => h.parent[h.kid[n][d]] = n /\ h.kid[n][d] \in B[h.kid[n][d]]
           /\ B[n] = {n} \cup B[h.kid[n][d]] \cup B[h.kid[n][Opposite(d)]]
           /\ B[h.kid[n][d]] \subseteq B[n]
           /\ \A k \in B[h.kid[n][d]] : OnSide(k, n, d)
           /\ n \notin B[h.kid[n][d]]
           /\ B[h.kid[n][d]] \cap B[h.kid[n][Opposite(d)]] = {}
<1>1. Node(h, T, B, n) /\ T \subseteq Keys /\ B \in [T \cup {NIL} -> SUBSET T]
  BY DEF Shape
<1>2. Opposite(d) \in Sides
  BY OppositeIs
<1>3. /\ h.kid[n][d] \in T \cup {NIL}
      /\ h.kid[n][Opposite(d)] \in T \cup {NIL}
      /\ h.kid[n][d] # NIL => h.parent[h.kid[n][d]] = n
      /\ B[n] = {n} \cup B[h.kid[n][d]] \cup B[h.kid[n][Opposite(d)]]
      /\ \A k \in B[h.kid[n][d]] : OnSide(k, n, d)
      /\ \A k \in B[h.kid[n][Opposite(d)]] : OnSide(k, n, Opposite(d))
  BY <1>1, <1>2 DEF Node
<1>4. ASSUME NEW c \in T  PROVE  c \in B[c]
  <2>1. Node(h, T, B, c)
    BY DEF Shape
  <2> QED
    BY <2>1, OppositeIs DEF Node
<1>5. B[n] \subseteq T /\ B[h.kid[n][d]] \subseteq T /\ B[h.kid[n][Opposite(d)]] \subseteq T
  BY <1>1, <1>3
<1>6. n \in Keys /\ n # NIL
  BY <1>1, TreeAssumption
<1>7. n \notin B[h.kid[n][d]]
  BY <1>3, <1>6, OnSideIs
<1>8. ASSUME NEW k, k \in B[h.kid[n][d]], k \in B[h.kid[n][Opposite(d)]]  PROVE  FALSE
  <2>1. k \in Keys /\ OnSide(k, n, d) /\ OnSide(k, n, Opposite(d))
    BY <1>1, <1>3, <1>5, <1>8
  <2> QED
    BY <2>1, <1>6, OnSideIs
<1> QED
  BY <1>3, <1>4, <1>5, <1>6, <1>7, <1>8

\* The same of one subtree alone: a node is in its own subtree and in no subtree of its kids.
LEMMA NodeWithin ==
    ASSUME NEW h, NEW T, NEW B, Shape(h, T, B), NEW n \in T, NEW d \in Sides
    PROVE  /\ n \in B[n] /\ B[h.kid[n][d]] \subseteq B[n] /\ n \notin B[h.kid[n][d]]
BY NodeFacts

\* Induction over a tree: of the nodes of a set, one has no kid in the set.
LEMMA Lowest ==
    ASSUME NEW h, NEW T, NEW B, Shape(h, T, B), NEW S, S \subseteq T, S # {}
    PROVE  \E x \in S : \A d \in Sides : h.kid[x][d] \notin S
<1> DEFINE Subtrees == {B[x] : x \in S}
<1>1. IsWellFoundedOn(StrictSubsetOrdering(T), SUBSET T)
  <2>1. FiniteSubsetsOf(T) = SUBSET T
    <3>1. IsFiniteSet(T)
      BY DEF Shape
    <3> QED
      BY <3>1, FS_FiniteSubsetsOfFinite
  <2> QED
    BY <2>1, FS_StrictSubsetOrderingWellFounded
<1>2. Subtrees \subseteq SUBSET T /\ Subtrees # {}
  BY NodeFacts, OppositeIs
<1>3. PICK m \in Subtrees : \A k \in Subtrees : <<k, m>> \notin StrictSubsetOrdering(T)
  <2> HIDE DEF Subtrees
  <2> QED
    BY <1>1, <1>2, WFMin
<1>4. PICK x \in S : m = B[x]
  BY <1>3
<1>5. ASSUME NEW d \in Sides, h.kid[x][d] \in S  PROVE  FALSE
  <2> DEFINE c == h.kid[x][d]
             pair == <<B[c], B[x]>>
  <2>1. B[c] \subseteq B[x] /\ B[c] # B[x] /\ B[x] \subseteq T
    BY <1>5, NodeFacts
  <2>2. pair \in (SUBSET T) \X (SUBSET T) /\ pair[1] \subseteq pair[2] /\ pair[1] # pair[2]
    BY <2>1
  <2>3. pair \in StrictSubsetOrdering(T)
    BY <2>2, Zenon DEF StrictSubsetOrdering
  <2>4. pair \notin StrictSubsetOrdering(T)
    BY <1>3, <1>4, <1>5
  <2> QED
    BY <2>3, <2>4
<1> QED
  BY <1>5

\* The subtree of a node of a subtree lies within it.
LEMMA SubtreeWithin ==
    ASSUME NEW h, NEW T, NEW B, Shape(h, T, B), NEW a \in T, NEW b \in B[a]
    PROVE  b \in T /\ B[b] \subseteq B[a]
<1> DEFINE S == {x \in T : b \in B[x] /\ ~(B[b] \subseteq B[x])}
<1>1. b \in T
  BY NodeFacts, OppositeIs
<1>2. SUFFICES ASSUME S # {}  PROVE  FALSE
  BY <1>1
<1>3. PICK x \in S : \A d \in Sides : h.kid[x][d] \notin S
  <2>1. S \subseteq T
    OBVIOUS
  <2> HIDE DEF S
  <2> QED
    BY <1>2, <2>1, Lowest
<1>4. PICK d \in Sides : b \in B[h.kid[x][d]]
  BY <1>3, NodeFacts, OppositeIs
<1>5. h.kid[x][d] # NIL /\ h.kid[x][d] \in T /\ B[h.kid[x][d]] \subseteq B[x]
  BY <1>3, <1>4, NodeFacts DEF Shape
<1> QED
  BY <1>3, <1>4, <1>5

\* A node of a subtree, but for its top, is a kid of a node of the subtree.
LEMMA ParentWithin ==
    ASSUME NEW h, NEW T, NEW B, Shape(h, T, B), NEW a \in T, NEW c \in B[a], c # a
    PROVE  /\ h.parent[c] \in B[a] /\ h.parent[c] \in T
           /\ \E d \in Sides : h.kid[h.parent[c]][d] = c
<1> DEFINE Held(x) == /\ h.parent[c] \in B[x] /\ h.parent[c] \in T
                      /\ \E d \in Sides : h.kid[h.parent[c]][d] = c
           S == {x \in T : c \in B[x] /\ c # x /\ ~Held(x)}
<1>2. SUFFICES ASSUME S # {}  PROVE  FALSE
  OBVIOUS
<1>3. PICK x \in S : \A d \in Sides : h.kid[x][d] \notin S
  <2>1. S \subseteq T
    OBVIOUS
  <2> HIDE DEF S
  <2> QED
    BY <1>2, <2>1, Lowest
<1>4. PICK d \in Sides : c \in B[h.kid[x][d]]
  BY <1>3, NodeFacts, OppositeIs
<1>5. h.kid[x][d] # NIL /\ h.kid[x][d] \in T /\ B[h.kid[x][d]] \subseteq B[x]
  <2>1. x \in T
    BY <1>3
  <2>2. h.kid[x][d] \in T \cup {NIL} /\ B[h.kid[x][d]] \subseteq B[x]
    BY <2>1, NodeFacts
  <2>3. B[NIL] = {}
    BY DEF Shape
  <2> QED
    BY <2>2, <2>3, <1>4
<1>6. CASE c = h.kid[x][d]
  <2>1. h.parent[c] = x /\ x \in T /\ x \in B[x]
    <3>1. x \in T
      BY <1>3
    <3>2. h.parent[h.kid[x][d]] = x /\ x \in B[x]
      BY <3>1, <1>5, NodeFacts
    <3> QED
      BY <3>1, <3>2, <1>6
  <2>2. Held(x)
    BY <2>1, <1>6
  <2> QED
    BY <2>2, <1>3
<1>7. CASE c # h.kid[x][d]
  <2>1. Held(h.kid[x][d])
    BY <1>3, <1>4, <1>5, <1>7
  <2> QED
    BY <2>1, <1>3, <1>5
<1> QED
  BY <1>6, <1>7

\* The root alone has no parent; any other node is a kid of its parent.
LEMMA ParentOf ==
    ASSUME NEW h, NEW T, NEW B, Shape(h, T, B), NEW c \in T
    PROVE  /\ c = h.root <=> h.parent[c] = NIL
           /\ c # h.root => /\ h.parent[c] \in T
                            /\ \E d \in Sides : h.kid[h.parent[c]][d] = c
<1>1. h.root \in T /\ T = B[h.root] /\ NIL \notin T
  BY TreeAssumption DEF Shape
<1> QED
  BY <1>1, ParentWithin DEF Shape

\* A node is a kid of one node, on one side.
LEMMA OneParent ==
    ASSUME NEW h, NEW T, NEW B, Shape(h, T, B), NEW p \in T, NEW d \in Sides,
           h.kid[p][d] # NIL
    PROVE  /\ SideOf(h, p, h.kid[p][d]) = d
           /\ \A e \in Sides : h.kid[p][e] = h.kid[p][d] => e = d
           /\ \A x \in T, e \in Sides : h.kid[x][e] = h.kid[p][d] => x = p
           /\ h.kid[p][d] # h.root
           /\ h.kid[p][d] # p
<1>1. ASSUME NEW e \in Sides, h.kid[p][e] = h.kid[p][d]  PROVE  e = d
  <2>1. h.kid[p][d] \in B[h.kid[p][d]]
    BY NodeFacts
  <2>2. B[h.kid[p][d]] \cap B[h.kid[p][Opposite(d)]] = {}
    BY NodeFacts
  <2>3. e = d \/ e = Opposite(d)
    BY OppositeIs
  <2> QED
    BY <2>1, <2>2, <2>3, <1>1
<1>2. SideOf(h, p, h.kid[p][d]) = d
  BY <1>1, OppositeIs DEF SideOf, Sides
<1>3. ASSUME NEW x \in T, NEW e \in Sides, h.kid[x][e] = h.kid[p][d]  PROVE  x = p
  BY <1>3, NodeFacts
<1>4. h.kid[p][d] # h.root
  BY NodeFacts DEF Shape
<1>5. h.kid[p][d] # p
  BY NodeFacts
<1> QED
  BY <1>1, <1>2, <1>3, <1>4, <1>5

-----------------------------------------------------------------------------
(* What the writes to the heap change.                                      *)

\* The heap g is h but for the parent of n, which may be the null pointer.
ParentSet(h, g, n, p) ==
    /\ g \in Heap /\ g.root = h.root /\ g.color = h.color /\ g.kid = h.kid
    /\ \A x \in Keys : g.parent[x] = IF x = n THEN p ELSE h.parent[x]

\* rb_set_parent changes the one link up, and nothing at NULL.
LEMMA SetParentIs ==
    ASSUME NEW h \in Heap, NEW n \in Pointers, NEW p \in Pointers
    PROVE  ParentSet(h, SetParent(h, n, p), n, p)
BY TreeAssumption DEF SetParent, Heap, Pointers, ParentSet

\* The heap g is h but for the link of n on side d.
KidSet(h, g, n, d, k) ==
    /\ g \in Heap /\ g.root = h.root /\ g.color = h.color /\ g.parent = h.parent
    /\ \A x \in Keys, e \in Sides :
          g.kid[x][e] = IF x = n /\ e = d THEN k ELSE h.kid[x][e]

\* The assignment to a link down changes that link.
LEMMA SetKidIs ==
    ASSUME NEW h \in Heap, NEW n \in Keys, NEW d \in Sides, NEW k \in Pointers
    PROVE  KidSet(h, SetKid(h, n, d, k), n, d, k)
BY DEF SetKid, Heap, KidSet

\* The heap g is h but for the colour of n.
Painted(h, g, n, c) ==
    /\ g \in Heap /\ g.root = h.root /\ g.kid = h.kid /\ g.parent = h.parent
    /\ \A x \in Keys : g.color[x] = IF x = n THEN c ELSE h.color[x]

\* rb_set_red, rb_set_black and rb_set_color change the one colour.
LEMMA PaintIs ==
    ASSUME NEW h \in Heap, NEW n \in Keys, NEW c \in {"red", "black"}
    PROVE  Painted(h, Paint(h, n, c), n, c)
BY DEF Paint, Heap, Painted

\* A node hangs on one of the two sides.
LEMMA SideOfIs ==
    ASSUME NEW h, NEW p, NEW n  PROVE  SideOf(h, p, n) \in Sides
BY DEF SideOf, Sides

\* The heap g is h but for the root, or the link of p on side d.
Relinked(h, g, p, d, to) ==
    /\ g \in Heap /\ g.color = h.color /\ g.parent = h.parent
    /\ g.root = IF p = NIL THEN to ELSE h.root
    /\ \A x \in Keys, e \in Sides :
          g.kid[x][e] = IF x = p /\ e = d THEN to ELSE h.kid[x][e]

\* The link that leads to a node, of its parent or of the root, is the one that changes.
LEMMA RelinkIs ==
    ASSUME NEW h \in Heap, NEW p \in Pointers, NEW from, NEW to \in Pointers
    PROVE  Relinked(h, Relink(h, p, from, to), p, SideOf(h, p, from), to)
<1>1. CASE p = NIL
  BY <1>1, TreeAssumption DEF Relink, Heap, Relinked
<1>2. CASE p # NIL
  <2>1. Relink(h, p, from, to) = SetKid(h, p, SideOf(h, p, from), to)
    BY <1>2 DEF Relink
  <2>2. KidSet(h, Relink(h, p, from, to), p, SideOf(h, p, from), to)
    BY <2>1, <1>2, SetKidIs, SideOfIs DEF Pointers
  <2> QED
    BY <2>2, <1>2 DEF KidSet, Relinked
<1> QED
  BY <1>1, <1>2

\* The fields of a heap have their types.
LEMMA HeapFields ==
    ASSUME NEW h \in Heap
    PROVE  /\ h.root \in Pointers
           /\ \A x \in Keys : h.parent[x] \in Pointers /\ h.color[x] \in {"red", "black"}
           /\ \A x \in Keys, d \in Sides : h.kid[x][d] \in Pointers
BY DEF Heap

\* A heap in which n has gone down on side d.
Rotated(h, h2, T, n, d) ==
    LET up == h.kid[n][Opposite(d)]
        inner == h.kid[up][d]
    IN  /\ h2 \in Heap
        /\ h2.root = IF h.root = n THEN up ELSE h.root
        /\ \A x \in Keys : h2.parent[x] = IF x = n THEN up
                                          ELSE IF x = up THEN h.parent[n]
                                          ELSE IF x = inner THEN n ELSE h.parent[x]
        /\ \A x \in T, e \in Sides :
              h2.kid[x][e] = IF x = n /\ e = Opposite(d) THEN inner
                             ELSE IF x = up /\ e = d THEN n
                             ELSE IF h.kid[x][e] = n THEN up ELSE h.kid[x][e]

\* The assignments of __rb_rotate_left and __rb_rotate_right together: what each link is
\* afterwards.
LEMMA RotateIs ==
    ASSUME NEW h, NEW T, NEW B, Shape(h, T, B), NEW n \in T, NEW d \in Sides,
           h.kid[n][Opposite(d)] # NIL
    PROVE  Rotated(h, Rotate(h, n, d), T, n, d) /\ Rotate(h, n, d).color = h.color
<1> DEFINE up == h.kid[n][Opposite(d)]
           inner == h.kid[up][d]
           p == h.parent[n]
           h0 == SetKid(h, n, Opposite(d), inner)
           h1 == SetParent(h0, inner, n)
           g == SetKid(h1, up, d, n)
           h2 == SetParent(g, up, p)
           h3 == Relink(h2, p, n, up)
           h4 == SetParent(h3, n, up)
           s == SideOf(h2, p, n)
<1>1. /\ h \in Heap /\ T \subseteq Keys /\ NIL \notin Keys /\ n \in Keys /\ up \in T /\ up \in Keys
      /\ Opposite(d) \in Sides /\ Opposite(d) # d
      /\ \A e \in Sides : e # d => e = Opposite(d)
  <2>1. h \in Heap /\ T \subseteq Keys /\ NIL \notin Keys
    BY TreeAssumption DEF Shape
  <2>2. Opposite(d) \in Sides /\ Opposite(d) # d /\ \A e \in Sides : e # d => e = Opposite(d)
    BY OppositeIs
  <2>3. up \in T
    BY <2>2, NodeFacts
  <2> QED
    BY <2>1, <2>2, <2>3
<1>2. /\ inner \in T \cup {NIL} /\ inner \in Pointers /\ p \in Pointers
      /\ n \in Pointers /\ up \in Pointers
  BY <1>1, HeapFields, NodeFacts DEF Pointers
<1>3. n # up /\ inner # n /\ inner # up
  <2>1. n # up
    BY <1>1, OneParent
  <2>2. ASSUME inner = n  PROVE  FALSE
    <3>1. n \in B[inner] /\ B[inner] \subseteq B[up] /\ n \notin B[up]
      BY <1>1, <2>2, NodeFacts
    <3> QED
      BY <3>1
  <2>3. ASSUME inner = up  PROVE  FALSE
    BY <1>1, <2>3, OneParent
  <2> QED
    BY <2>1, <2>2, <2>3
<1>4. /\ n = h.root <=> p = NIL
      /\ n # h.root => p \in T /\ \E e \in Sides : h.kid[p][e] = n
      /\ \A x \in T, e \in Sides : h.kid[x][e] = n => x = p
  BY <1>1, ParentOf, NodeFacts
<1>5. p # n /\ p # up
  <2>1. ASSUME NEW e \in Sides  PROVE  h.kid[n][e] # n /\ h.kid[up][e] # n
    <3>1. n \notin B[h.kid[n][e]] /\ n \notin B[up] /\ B[h.kid[up][e]] \subseteq B[up]
      BY <1>1, NodeFacts
    <3>2. n \in B[n]
      BY NodeFacts
    <3> QED
      BY <3>1, <3>2
  <2> QED
    BY <2>1, <1>4, <1>1 DEF Shape
<1>6. h4 = Rotate(h, n, d)
  BY DEF Rotate
<1>7. n # h.root => \A e \in Sides : h.kid[p][e] = n => SideOf(h, p, n) = e
  BY <1>1, <1>4, OneParent
<1>8. h.kid[n][Opposite(d)] = up /\ h.kid[up][d] = inner /\ h.parent[n] = p
  OBVIOUS
<1> HIDE DEF up, inner, p, h0, h1, g, h2, h3, h4, s
<1>9. KidSet(h, h0, n, Opposite(d), inner)
  BY <1>1, <1>2, SetKidIs DEF h0
<1>10. ParentSet(h0, h1, inner, n)
  <2>1. h0 \in Heap
    BY <1>9 DEF KidSet
  <2> QED
    BY <2>1, <1>2, SetParentIs DEF h1
<1>11. KidSet(h1, g, up, d, n)
  <2>1. h1 \in Heap
    BY <1>10 DEF ParentSet
  <2> QED
    BY <2>1, <1>1, <1>2, SetKidIs DEF g
<1>12. ParentSet(g, h2, up, p)
  <2>1. g \in Heap
    BY <1>11 DEF KidSet
  <2> QED
    BY <2>1, <1>2, SetParentIs DEF h2
<1>13. n # h.root => h.kid[p][s] = n /\ \A e \in Sides : h.kid[p][e] = n => e = s
  <2> SUFFICES ASSUME n # h.root
               PROVE  h.kid[p][s] = n /\ \A e \in Sides : h.kid[p][e] = n => e = s
    OBVIOUS
  <2>1. \A e \in Sides : h2.kid[p][e] = h.kid[p][e]
    BY <1>1, <1>4, <1>5, <1>9, <1>10, <1>11, <1>12 DEF KidSet, ParentSet
  <2>2. s = SideOf(h, p, n)
    BY <2>1, OppositeIs DEF SideOf, s
  <2> QED
    BY <2>2, <1>4, <1>7
<1>14. Relinked(h2, h3, p, s, up)
  <2>1. h2 \in Heap
    BY <1>12 DEF ParentSet
  <2> QED
    BY <2>1, <1>2, RelinkIs DEF h3, s
<1>15. ParentSet(h3, h4, n, up)
  <2>1. h3 \in Heap
    BY <1>14 DEF Relinked
  <2> QED
    BY <2>1, <1>2, SetParentIs DEF h4
<1>16. \A x \in Keys : h4.parent[x] = IF x = n THEN up ELSE IF x = up THEN p
                                      ELSE IF x = inner THEN n ELSE h.parent[x]
  BY <1>15, <1>14, <1>12, <1>11, <1>10, <1>9 DEF KidSet, ParentSet, Relinked
<1>17. ASSUME NEW x \in T, NEW e \in Sides
       PROVE  h4.kid[x][e] = IF x = n /\ e = Opposite(d) THEN inner
                             ELSE IF x = up /\ e = d THEN n
                             ELSE IF h.kid[x][e] = n THEN up ELSE h.kid[x][e]
  <2>1. h4.kid[x][e] = IF x = p /\ e = s THEN up
                       ELSE IF x = up /\ e = d THEN n
                       ELSE IF x = n /\ e = Opposite(d) THEN inner ELSE h.kid[x][e]
    BY <1>15, <1>14, <1>12, <1>11, <1>10, <1>9, <1>1 DEF KidSet, ParentSet, Relinked
  <2>2. x = p /\ e = s <=> h.kid[x][e] = n
    BY <1>13, <1>4, <1>1
  <2> QED
    BY <2>1, <2>2, <1>5, <1>3
<1>18. h4.root = IF h.root = n THEN up ELSE h.root
  BY <1>15, <1>14, <1>12, <1>11, <1>10, <1>9, <1>4 DEF KidSet, ParentSet, Relinked
<1>19. h4 \in Heap /\ h4.color = h.color
  BY <1>15, <1>14, <1>12, <1>11, <1>10, <1>9 DEF KidSet, ParentSet, Relinked
<1> QED
  BY <1>1, <1>6, <1>8, <1>16, <1>17, <1>18, <1>19 DEF Rotated

\* A repainting changes no subtree.
LEMMA SameShape ==
    ASSUME NEW h, NEW T, NEW B, Shape(h, T, B), NEW g \in Heap,
           g.root = h.root, g.parent = h.parent, g.kid = h.kid
    PROVE  Shape(g, T, B)
<1>1. ASSUME NEW n \in T  PROVE  Node(g, T, B, n)
  BY Node(h, T, B, n) DEF Shape, Node
<1> QED
  BY <1>1 DEF Shape

\* The links where n is about to go down on side d, and once it has.
Turning(h, g, T, n, d) ==
    LET up == h.kid[n][Opposite(d)]
        inner == h.kid[up][d]
        outer == h.kid[up][Opposite(d)]
        a == h.kid[n][d]
    IN  /\ up \in T /\ a \in T \cup {NIL} /\ inner \in T \cup {NIL} /\ outer \in T \cup {NIL}
        /\ n # up /\ a # n /\ a # up /\ inner # n /\ inner # up /\ outer # n /\ outer # up
        /\ inner # NIL => inner # outer /\ inner # a
        /\ outer # NIL => outer # a
        /\ g.kid[n][d] = a /\ g.kid[n][Opposite(d)] = inner
        /\ g.kid[up][d] = n /\ g.kid[up][Opposite(d)] = outer
        /\ \A x \in T \ {n, up}, e \in Sides :
              /\ h.kid[x][e] \in T \cup {NIL} /\ h.kid[x][e] # up
              /\ h.kid[x][e] # NIL =>
                    h.kid[x][e] # a /\ h.kid[x][e] # inner /\ h.kid[x][e] # outer
              /\ g.kid[x][e] = IF h.kid[x][e] = n THEN up ELSE h.kid[x][e]

\* The same, with names for the nodes around n: up takes its place, and inner changes sides.
TurningAt(h, g, T, n, d, up, inner, outer, a) ==
    /\ up \in T /\ a \in T \cup {NIL} /\ inner \in T \cup {NIL} /\ outer \in T \cup {NIL}
    /\ n # up /\ a # n /\ a # up /\ inner # n /\ inner # up /\ outer # n /\ outer # up
    /\ inner # NIL => inner # outer /\ inner # a
    /\ outer # NIL => outer # a
    /\ g.kid[n][d] = a /\ g.kid[n][Opposite(d)] = inner
    /\ g.kid[up][d] = n /\ g.kid[up][Opposite(d)] = outer
    /\ \A x \in T \ {n, up}, e \in Sides :
          /\ h.kid[x][e] \in T \cup {NIL} /\ h.kid[x][e] # up
          /\ h.kid[x][e] # NIL =>
                h.kid[x][e] # a /\ h.kid[x][e] # inner /\ h.kid[x][e] # outer
          /\ g.kid[x][e] = IF h.kid[x][e] = n THEN up ELSE h.kid[x][e]

\* The names are those of the nodes where they hang.
LEMMA TurningNames ==
    ASSUME NEW h, NEW g, NEW T, NEW n, NEW d, NEW up, NEW inner, NEW outer, NEW a,
           up = h.kid[n][Opposite(d)], inner = h.kid[up][d], outer = h.kid[up][Opposite(d)],
           a = h.kid[n][d]
    PROVE  Turning(h, g, T, n, d) <=> TurningAt(h, g, T, n, d, up, inner, outer, a)
BY DEF Turning, TurningAt

\* What a rotation does to the links down, seen from a node and from the place it hangs in.
LEMMA TurningIs ==
    ASSUME NEW h, NEW T, NEW B, Shape(h, T, B), NEW n \in T, NEW d \in Sides,
           h.kid[n][Opposite(d)] # NIL, NEW g, Rotated(h, g, T, n, d)
    PROVE  Turning(h, g, T, n, d)
<1> DEFINE up == h.kid[n][Opposite(d)]
           inner == h.kid[up][d]
           outer == h.kid[up][Opposite(d)]
           a == h.kid[n][d]
<1>1. /\ Opposite(d) \in Sides /\ Opposite(d) # d /\ Opposite(Opposite(d)) = d
      /\ \A e \in Sides : e = d \/ e = Opposite(d)
  BY OppositeIs
<1>2. up \in T /\ NIL \notin T
  BY <1>1, NodeFacts
<1>3. /\ a \in T \cup {NIL} /\ inner \in T \cup {NIL} /\ outer \in T \cup {NIL}
      /\ (a # NIL => h.parent[a] = n) /\ h.parent[up] = n
      /\ inner # NIL => h.parent[inner] = up
      /\ outer # NIL => h.parent[outer] = up
  BY <1>1, <1>2, NodeFacts
<1>4. /\ n # up /\ a # n /\ a # up /\ inner # n /\ inner # up /\ outer # n /\ outer # up
      /\ inner # NIL => inner # outer
  <2>1. n # up
    BY <1>1, OneParent
  <2>2. \A e \in Sides : h.kid[up][e] # n
    <3>1. n \notin B[up] /\ n \in B[n]
      BY <1>1, NodeFacts
    <3>2. ASSUME NEW e \in Sides  PROVE  B[h.kid[up][e]] \subseteq B[up]
      BY <1>2, NodeFacts
    <3> QED
      BY <3>1, <3>2
  <2>3. ASSUME NEW x \in T, NEW e \in Sides  PROVE  h.kid[x][e] # x
    BY <2>3, <1>2, OneParent
  <2>4. ASSUME NEW x \in T, h.kid[x][d] = h.kid[x][Opposite(d)]  PROVE  h.kid[x][d] = NIL
    BY <2>4, <1>1, OneParent
  <2>5. inner # n /\ outer # n /\ inner # up /\ outer # up /\ a # n
    BY <2>2, <2>3, <1>1, <1>2
  <2>6. a # up /\ (inner # NIL => inner # outer)
    BY <2>4, <1>2
  <2> QED
    BY <2>1, <2>5, <2>6
<1>5. \A x \in T, e \in Sides :
         g.kid[x][e] = IF x = n /\ e = Opposite(d) THEN inner
                       ELSE IF x = up /\ e = d THEN n
                       ELSE IF h.kid[x][e] = n THEN up ELSE h.kid[x][e]
  BY DEF Rotated
<1>6. ASSUME NEW x \in T \ {n, up}, NEW e \in Sides
      PROVE  /\ h.kid[x][e] \in T \cup {NIL}
             /\ h.kid[x][e] # NIL => h.parent[h.kid[x][e]] = x
  BY NodeFacts
<1> HIDE DEF up, inner, outer, a
<1>7. /\ g.kid[n][d] = a /\ g.kid[n][Opposite(d)] = inner
      /\ g.kid[up][d] = n /\ g.kid[up][Opposite(d)] = outer
  <2>1. h.kid[n][d] = a /\ h.kid[up][Opposite(d)] = outer
    BY DEF a, outer, up
  <2> QED
    BY <2>1, <1>1, <1>2, <1>4, <1>5
<1>8. (inner # NIL => inner # a) /\ (outer # NIL => outer # a)
  BY <1>3, <1>4
<1>9. ASSUME NEW x \in T \ {n, up}, NEW e \in Sides
      PROVE  /\ h.kid[x][e] \in T \cup {NIL} /\ h.kid[x][e] # up
             /\ h.kid[x][e] # NIL =>
                   h.kid[x][e] # a /\ h.kid[x][e] # inner /\ h.kid[x][e] # outer
             /\ g.kid[x][e] = IF h.kid[x][e] = n THEN up ELSE h.kid[x][e]
  BY <1>2, <1>3, <1>5, <1>6
<1> QED
  BY <1>2, <1>3, <1>4, <1>7, <1>8, <1>9 DEF Turning, up, inner, outer, a

\* The subtrees after n has gone down on side d.
Turned(h, B, n, d) ==
    LET up == h.kid[n][Opposite(d)]
    IN  [B EXCEPT ![up] = B[n], ![n] = {n} \cup B[h.kid[n][d]] \cup B[h.kid[up][d]]]

\* __rb_rotate_left and __rb_rotate_right keep the order, the parent links and the nodes of
\* the tree.
LEMMA RotatedShape ==
    ASSUME NEW h, NEW T, NEW B, Shape(h, T, B), NEW n \in T, NEW d \in Sides,
           h.kid[n][Opposite(d)] # NIL, NEW g, Rotated(h, g, T, n, d)
    PROVE  Shape(g, T, Turned(h, B, n, d))
<1> DEFINE up == h.kid[n][Opposite(d)]
           inner == h.kid[up][d]
           outer == h.kid[up][Opposite(d)]
           a == h.kid[n][d]
           C == Turned(h, B, n, d)
<1>0. /\ up = h.kid[n][Opposite(d)] /\ a = h.kid[n][d]
      /\ inner = h.kid[up][d] /\ outer = h.kid[up][Opposite(d)]
  OBVIOUS
<1>8. C = [B EXCEPT ![up] = B[n], ![n] = {n} \cup B[a] \cup B[inner]]
  BY DEF Turned
<1> HIDE DEF up, inner, outer, a, C
<1>t. TurningAt(h, g, T, n, d, up, inner, outer, a)
  BY <1>0, TurningIs, TurningNames
<1>1. /\ T \subseteq Keys /\ NIL \notin T /\ NIL \notin Keys /\ IsFiniteSet(T)
      /\ n \in Keys /\ up \in Keys
      /\ B \in [T \cup {NIL} -> SUBSET T] /\ B[NIL] = {}
      /\ h.root \in T \cup {NIL} /\ B[h.root] = T
      /\ h.root # NIL => h.parent[h.root] = NIL
      /\ \A x \in Keys \ T : h.parent[x] = NIL
  <2>1. up \in T
    BY <1>t DEF TurningAt
  <2> QED
    BY <2>1, TreeAssumption DEF Shape
<1>2. /\ Opposite(d) \in Sides /\ Opposite(d) # d /\ Opposite(Opposite(d)) = d
      /\ \A e \in Sides : e = d \/ e = Opposite(d)
  BY OppositeIs
<1>3. /\ up \in T /\ a \in T \cup {NIL} /\ inner \in T \cup {NIL} /\ outer \in T \cup {NIL}
      /\ n # up /\ a # n /\ a # up /\ inner # n /\ inner # up /\ outer # n /\ outer # up
      /\ inner # NIL => inner # outer /\ inner # a
      /\ outer # NIL => outer # a
      /\ g.kid[n][d] = a /\ g.kid[n][Opposite(d)] = inner
      /\ g.kid[up][d] = n /\ g.kid[up][Opposite(d)] = outer
  BY <1>t DEF TurningAt
<1>4. \A x \in T \ {n, up}, e \in Sides :
            /\ h.kid[x][e] \in T \cup {NIL} /\ h.kid[x][e] # up
            /\ h.kid[x][e] # NIL =>
                  h.kid[x][e] # a /\ h.kid[x][e] # inner /\ h.kid[x][e] # outer
            /\ g.kid[x][e] = IF h.kid[x][e] = n THEN up ELSE h.kid[x][e]
  BY <1>t DEF TurningAt
<1>p. ASSUME NEW x \in T, NEW e \in Sides
      PROVE  h.kid[x][e] # NIL => h.parent[h.kid[x][e]] = x
  BY NodeFacts
<1>b. ASSUME NEW x \in T, NEW e \in Sides
      PROVE  B[x] = {x} \cup B[h.kid[x][e]] \cup B[h.kid[x][Opposite(e)]] /\ B[x] \subseteq T
  BY NodeFacts
<1>7. ASSUME NEW x \in T, NEW e \in Sides
      PROVE  /\ h.kid[x][e] \in T \cup {NIL}
             /\ h.kid[x][e] # NIL => h.parent[h.kid[x][e]] = x
             /\ B[x] = {x} \cup B[h.kid[x][e]] \cup B[h.kid[x][Opposite(e)]]
             /\ \A k \in B[h.kid[x][e]] : k \in Keys /\ OnSide(k, x, e)
  BY <1>1, NodeFacts
<1>5. /\ h.parent[up] = n /\ B[n] = {n} \cup B[a] \cup B[up] /\ B[up] = {up} \cup B[inner] \cup B[outer]
      /\ a # NIL => h.parent[a] = n
      /\ inner # NIL => h.parent[inner] = up
      /\ outer # NIL => h.parent[outer] = up
      /\ B[up] \subseteq T /\ B[n] \subseteq T
  <2>1. a # NIL => h.parent[a] = n
    BY <1>p, <1>0
  <2>2. h.parent[up] = n
    BY <1>p, <1>0, <1>1, <1>2, <1>3
  <2>3. (inner # NIL => h.parent[inner] = up) /\ (outer # NIL => h.parent[outer] = up)
    BY <1>p, <1>0, <1>2, <1>3
  <2>4. B[n] = {n} \cup B[a] \cup B[up] /\ B[n] \subseteq T
    BY <1>b, <1>0
  <2>5. B[up] = {up} \cup B[inner] \cup B[outer] /\ B[up] \subseteq T
    BY <1>b, <1>0, <1>3
  <2> QED
    BY <2>1, <2>2, <2>3, <2>4, <2>5
<1>6. /\ g \in Heap
      /\ g.root = IF h.root = n THEN up ELSE h.root
      /\ \A x \in Keys : g.parent[x] = IF x = n THEN up
                                       ELSE IF x = up THEN h.parent[n]
                                       ELSE IF x = inner THEN n ELSE h.parent[x]
  BY DEF Rotated, up, inner
<1>9. h.root # up /\ (inner # NIL => h.root # inner) /\ h.root # NIL
  <2>1. h.root # NIL
    BY <1>1
  <2> QED
    BY <2>1, <1>1, <1>3, <1>5
<1>10. /\ C \in [T \cup {NIL} -> SUBSET T]
      /\ C[up] = B[n] /\ C[n] = {n} \cup B[a] \cup B[inner]
      /\ \A x \in T \cup {NIL} : x # up /\ x # n => C[x] = B[x]
  BY <1>1, <1>3, <1>5, <1>8
<1>11. g.root \in T \cup {NIL} /\ C[g.root] = T /\ (g.root # NIL => g.parent[g.root] = NIL)
  BY <1>1, <1>3, <1>5, <1>6, <1>9, <1>10
<1>12. ASSUME NEW x \in Keys \ T  PROVE  g.parent[x] = NIL
  BY <1>1, <1>3, <1>6, <1>12
<1>13. Node(g, T, C, n)
  <2>1. g.kid[n][d] = a /\ g.kid[n][Opposite(d)] = inner
    BY <1>3
  <2>2. C[a] = B[a] /\ C[inner] = B[inner]
    BY <1>3, <1>10
  <2>3. (a # NIL => g.parent[a] = n) /\ (inner # NIL => g.parent[inner] = n)
    BY <1>1, <1>3, <1>5, <1>6
  <2>4. (\A k \in B[a] : OnSide(k, n, d)) /\ \A k \in B[inner] : OnSide(k, n, Opposite(d))
    <3>1. B[inner] \subseteq B[up]
      BY <1>5
    <3> QED
      BY <3>1, <1>7, <1>2 DEF a, up
  <2> QED
    BY <2>1, <2>2, <2>3, <2>4, <1>2, <1>3, <1>10 DEF Node
<1>14. Node(g, T, C, up)
  <2>1. g.kid[up][d] = n /\ g.kid[up][Opposite(d)] = outer
    BY <1>3
  <2>2. C[outer] = B[outer] /\ C[up] = {up} \cup C[n] \cup C[outer]
    BY <1>3, <1>5, <1>10
  <2>3. (outer # NIL => g.parent[outer] = up) /\ g.parent[n] = up
    BY <1>1, <1>3, <1>5, <1>6
  <2>4. \A k \in C[n] : OnSide(k, up, d)
    <3>1. up \in B[up] /\ OnSide(up, n, Opposite(d))
      BY <1>3, <1>7, <1>2 DEF up
    <3>2. OnSide(n, up, d)
      BY <3>1, <1>1, OnSideIs
    <3>3. \A k \in B[a] : k \in Keys /\ OnSide(k, n, d)
      BY <1>7 DEF a
    <3>4. \A k \in B[a] : OnSide(k, up, d)
      BY <3>2, <3>3, <1>1, OnSideIs
    <3>5. \A k \in B[inner] : OnSide(k, up, d)
      BY <1>7, <1>2, <1>3 DEF inner
    <3> QED
      BY <3>2, <3>4, <3>5, <1>10
  <2>5. \A k \in B[outer] : OnSide(k, up, Opposite(d))
    BY <1>7, <1>2, <1>3 DEF outer
  <2> QED
    BY <2>1, <2>2, <2>3, <2>4, <2>5, <1>1, <1>2, <1>3 DEF Node
<1>15. ASSUME NEW x \in T, x # n, x # up  PROVE  Node(g, T, C, x)
  <2>1. ASSUME NEW e \in Sides
        PROVE  /\ g.kid[x][e] \in T \cup {NIL}
               /\ g.kid[x][e] # NIL => g.parent[g.kid[x][e]] = x
               /\ C[g.kid[x][e]] = B[h.kid[x][e]]
    <3>1. CASE h.kid[x][e] = n
      <4>1. g.kid[x][e] = up /\ h.parent[n] = x
        BY <3>1, <1>1, <1>7, <1>15, <1>4
      <4> QED
        BY <4>1, <3>1, <1>1, <1>5, <1>6, <1>10
    <3>2. CASE h.kid[x][e] # n
      <4>1. g.kid[x][e] = h.kid[x][e] /\ h.kid[x][e] # up
            /\ (h.kid[x][e] # NIL => h.kid[x][e] # inner)
        BY <3>2, <1>15, <1>4
      <4> QED
        BY <4>1, <3>2, <1>1, <1>3, <1>6, <1>7, <1>10, <1>15
    <3> QED
      BY <3>1, <3>2
  <2>2. C[x] = B[x]
    BY <1>10, <1>15
  <2>3. ASSUME NEW e \in Sides
        PROVE  /\ C[x] = {x} \cup C[g.kid[x][e]] \cup C[g.kid[x][Opposite(e)]]
               /\ \A k \in C[g.kid[x][e]] : OnSide(k, x, e)
    <3>1. Opposite(e) \in Sides
      BY OppositeIs
    <3> QED
      BY <3>1, <2>1, <2>2, <1>7
  <2> QED
    BY <2>1, <2>3 DEF Node
<1>16. Shape(g, T, C)
  BY <1>1, <1>6, <1>10, <1>11, <1>12, <1>13, <1>14, <1>15 DEF Shape
<1> QED
  BY <1>16 DEF C

-----------------------------------------------------------------------------
(* Colours and heights.                                                     *)

\* The heap g is h in other colours.
Repainted(h, g) == g \in Heap /\ g.root = h.root /\ g.parent = h.parent /\ g.kid = h.kid

Blackened(h, g, n) == Repainted(h, g) /\ \A x \in Pointers : IsRed(g, x) <=> x # n /\ IsRed(h, x)
Reddened(h, g, n) == Repainted(h, g) /\ \A x \in Pointers : IsRed(g, x) <=> x = n \/ IsRed(h, x)
ColoredLike(h, g, n, m) ==
    Repainted(h, g) /\ \A x \in Pointers : IsRed(g, x) <=> IsRed(h, IF x = n THEN m ELSE x)

\* What painting a node black, red, or in the colour of another one does to the reds.
LEMMA PaintsAre ==
    ASSUME NEW h \in Heap, NEW n \in Keys
    PROVE  /\ Blackened(h, Paint(h, n, "black"), n)
           /\ Reddened(h, Paint(h, n, "red"), n)
           /\ \A m \in Keys : ColoredLike(h, Paint(h, n, h.color[m]), n, m)
<1>1. Painted(h, Paint(h, n, "black"), n, "black") /\ Painted(h, Paint(h, n, "red"), n, "red")
  BY PaintIs
<1>2. Blackened(h, Paint(h, n, "black"), n)
  BY <1>1, TreeAssumption DEF Painted, Blackened, Repainted, IsRed, Pointers
<1>3. Reddened(h, Paint(h, n, "red"), n)
  BY <1>1, TreeAssumption DEF Painted, Reddened, Repainted, IsRed, Pointers
<1>4. ASSUME NEW m \in Keys  PROVE  ColoredLike(h, Paint(h, n, h.color[m]), n, m)
  <2>1. h.color[m] \in {"red", "black"}
    BY HeapFields
  <2>2. Painted(h, Paint(h, n, h.color[m]), n, h.color[m])
    BY <2>1, PaintIs
  <2> QED
    BY <2>2, TreeAssumption DEF Painted, ColoredLike, Repainted, IsRed, Pointers
<1> QED
  BY <1>2, <1>3, <1>4

\* Heap r is heap h, repainted as g, where n has gone down on side d.
TurnsTo(h, g, r, T, n, d) ==
    /\ r \in Heap /\ Turning(h, r, T, n, d)
    /\ r.root = IF h.root = n THEN h.kid[n][Opposite(d)] ELSE h.root
    /\ \A x \in Pointers : IsRed(r, x) <=> IsRed(g, x)

\* A rotation after some repainting, as the loops make them, is a rotation of the tree.
LEMMA RotateTurns ==
    ASSUME NEW h, NEW T, NEW B, Shape(h, T, B), NEW g, Repainted(h, g),
           NEW n \in T, NEW d \in Sides, h.kid[n][Opposite(d)] # NIL
    PROVE  /\ TurnsTo(h, g, Rotate(g, n, d), T, n, d)
           /\ \E C : Shape(Rotate(g, n, d), T, C)
<1> DEFINE r == Rotate(g, n, d)
<1>1. Shape(g, T, B) /\ g.kid = h.kid /\ g.root = h.root
  BY SameShape DEF Repainted
<1>2. Rotated(g, r, T, n, d) /\ r.color = g.color
  BY <1>1, RotateIs
<1>3. Shape(r, T, Turned(g, B, n, d)) /\ Turning(g, r, T, n, d)
  <2> HIDE DEF r
  <2> QED
    BY <1>1, <1>2, RotatedShape, TurningIs
<1> HIDE DEF r
<1>4. Turning(h, r, T, n, d)
  <2> DEFINE up == h.kid[n][Opposite(d)]
             inner == h.kid[up][d]
             outer == h.kid[up][Opposite(d)]
             a == h.kid[n][d]
  <2>1. /\ up = h.kid[n][Opposite(d)] /\ a = h.kid[n][d]
        /\ inner = h.kid[up][d] /\ outer = h.kid[up][Opposite(d)]
    OBVIOUS
  <2> HIDE DEF up, inner, outer, a
  <2>2. TurningAt(g, r, T, n, d, up, inner, outer, a)
    BY <1>1, <1>3, <2>1, TurningNames
  <2>3. TurningAt(h, r, T, n, d, up, inner, outer, a)
    BY <1>1, <2>2 DEF TurningAt
  <2> QED
    BY <2>1, <2>3, TurningNames
<1>5. r \in Heap /\ r.root = IF h.root = n THEN h.kid[n][Opposite(d)] ELSE h.root
  BY <1>1, <1>2 DEF Rotated
<1>6. \A x \in Pointers : IsRed(r, x) <=> IsRed(g, x)
  BY <1>2 DEF IsRed
<1>7. TurnsTo(h, g, r, T, n, d)
  BY <1>4, <1>5, <1>6 DEF TurnsTo
<1> QED
  BY <1>3, <1>7 DEF r

\* Heap g is heap h where n has gone down on side d and exchanged its colour with
\* the kid that took its place.
Swapped(h, g, T, n, d) ==
    /\ Turning(h, g, T, n, d)
    /\ IsRed(h, h.kid[n][Opposite(d)])
    /\ \A x \in T : IsRed(g, x) <=> \/ x = n
                                    \/ x = h.kid[n][Opposite(d)] /\ IsRed(h, n)
                                    \/ x # n /\ x # h.kid[n][Opposite(d)] /\ IsRed(h, x)

\* Where a red kid takes its parent's place and colour, no path gets longer.
LEMMA SwapHeights ==
    ASSUME NEW h, NEW T, NEW n \in T, NEW d \in Sides, NEW g, Swapped(h, g, T, n, d), NIL \notin T,
           NEW H, NEW q, NEW s, Heights(h, T, H, q, s),
           q # h.kid[n][Opposite(d)], ~(q = n /\ s = Opposite(d))
    PROVE  Heights(g, T, [H EXCEPT ![n] = H[h.kid[n][Opposite(d)]],
                                   ![h.kid[n][Opposite(d)]] = H[n]], q, s)
<1> DEFINE up == h.kid[n][Opposite(d)]
           inner == h.kid[up][d]
           outer == h.kid[up][Opposite(d)]
           a == h.kid[n][d]
           G == [H EXCEPT ![n] = H[up], ![up] = H[n]]
<1>1. /\ up \in T /\ a \in T \cup {NIL} /\ inner \in T \cup {NIL} /\ outer \in T \cup {NIL}
      /\ n # up /\ a # n /\ a # up /\ inner # n /\ inner # up /\ outer # n /\ outer # up
      /\ g.kid[n][d] = a /\ g.kid[n][Opposite(d)] = inner
      /\ g.kid[up][d] = n /\ g.kid[up][Opposite(d)] = outer
  BY DEF Swapped, Turning
<1>2. \A x \in T \ {n, up}, e \in Sides :
         /\ h.kid[x][e] \in T \cup {NIL} /\ h.kid[x][e] # up
         /\ g.kid[x][e] = IF h.kid[x][e] = n THEN up ELSE h.kid[x][e]
  BY DEF Swapped, Turning
<1>3. /\ IsRed(h, up) /\ IsRed(g, n)
      /\ IsRed(g, up) <=> IsRed(h, n)
      /\ \A x \in T : x # n /\ x # up => (IsRed(g, x) <=> IsRed(h, x))
  BY <1>1 DEF Swapped
<1>4. /\ Opposite(d) \in Sides /\ Opposite(d) # d
      /\ \A e \in Sides : e = d \/ e = Opposite(d)
  BY OppositeIs
<1> DEFINE Owe(x, e) == IF x = q /\ e = s THEN 1 ELSE 0
           W(x) == IF IsRed(h, x) THEN 0 ELSE 1
<1>5. /\ H \in [T \cup {NIL} -> Nat] /\ H[NIL] = 0
      /\ \A x \in T, e \in Sides : H[x] = W(x) + H[h.kid[x][e]] + Owe(x, e)
  BY DEF Heights, Weight
<1>6. /\ H[up] = H[a] + Owe(n, d) /\ H[n] = W(n) + H[up]
      /\ H[up] = H[inner] /\ H[up] = H[outer]
      /\ Owe(up, d) = 0 /\ Owe(up, Opposite(d)) = 0 /\ Owe(n, Opposite(d)) = 0
      /\ H[up] \in Nat /\ H[n] \in Nat /\ H[a] \in Nat /\ H[inner] \in Nat /\ H[outer] \in Nat
  <2>1. Owe(up, d) = 0 /\ Owe(up, Opposite(d)) = 0 /\ Owe(n, Opposite(d)) = 0 /\ W(up) = 0
    BY <1>3
  <2>2. /\ W(n) \in {0, 1} /\ Owe(n, d) \in {0, 1} /\ H[up] \in Nat /\ H[n] \in Nat
        /\ H[a] \in Nat /\ H[inner] \in Nat /\ H[outer] \in Nat
    BY <1>1, <1>5
  <2>3. /\ H[n] = W(n) + H[a] + Owe(n, d)
        /\ H[n] = W(n) + H[up] + Owe(n, Opposite(d))
        /\ H[up] = W(up) + H[inner] + Owe(up, d)
        /\ H[up] = W(up) + H[outer] + Owe(up, Opposite(d))
    BY <1>1, <1>4, <1>5
  <2> HIDE DEF up, inner, outer, a, G, Owe, W
  <2> QED
    BY <2>1, <2>2, <2>3
<1> HIDE DEF up, inner, outer, a, G, Owe
<1>7. /\ G \in [T \cup {NIL} -> Nat] /\ G[NIL] = 0 /\ G[n] = H[up] /\ G[up] = H[n]
      /\ \A x \in T \cup {NIL} : x # n /\ x # up => G[x] = H[x]
  BY <1>1, <1>5 DEF G
<1>8. ASSUME NEW x \in T, NEW e \in Sides
      PROVE  G[x] = (IF IsRed(g, x) THEN 0 ELSE 1) + G[g.kid[x][e]] + Owe(x, e)
  <2>1. CASE x = n
    <3>1. CASE e = d
      BY <3>1, <2>1, <1>1, <1>3, <1>6, <1>7
    <3>2. CASE e = Opposite(d)
      <4>1. G[g.kid[n][Opposite(d)]] = H[inner]
        BY <1>1, <1>7
      <4> QED
        BY <4>1, <3>2, <2>1, <1>3, <1>6, <1>7
    <3> QED
      BY <3>1, <3>2, <1>4
  <2>2. CASE x = up
    <3>1. CASE e = d
      BY <3>1, <2>2, <1>1, <1>3, <1>6, <1>7
    <3>2. CASE e = Opposite(d)
      BY <3>2, <2>2, <1>1, <1>3, <1>6, <1>7
    <3> QED
      BY <3>1, <3>2, <1>4
  <2>3. CASE x # n /\ x # up
    <3>1. G[g.kid[x][e]] = H[h.kid[x][e]]
      BY <2>3, <1>1, <1>2, <1>7
    <3> QED
      BY <3>1, <2>3, <1>3, <1>5, <1>7
  <2> QED
    BY <2>1, <2>2, <2>3
<1>9. Heights(g, T, G, q, s)
  BY <1>7, <1>8 DEF Heights, Weight, Owe
<1> QED
  BY <1>9 DEF G, up

\* Heap g is heap h where n has gone down on side d and given its colour to its kid,
\* and both n and that kid's outer kid are black now.
Paid(h, g, T, n, d) ==
    LET up == h.kid[n][Opposite(d)]
        outer == h.kid[up][Opposite(d)]
    IN  /\ Turning(h, g, T, n, d)
        /\ ~IsRed(h, up) /\ outer \in T /\ IsRed(h, outer)
        /\ \A x \in T : IsRed(g, x) <=> \/ x = up /\ IsRed(h, n)
                                        \/ x # n /\ x # up /\ x # outer /\ IsRed(h, x)

\* A function changed at three places.
LEMMA ThreeChanged ==
    ASSUME NEW S, NEW H \in [S -> Nat], NEW p \in S, NEW q \in S, NEW r \in S,
           p # q, p # r, q # r, NEW a \in Nat, NEW b \in Nat, NEW c \in Nat
    PROVE  LET G == [H EXCEPT ![p] = a, ![q] = b, ![r] = c]
           IN  /\ G \in [S -> Nat] /\ G[p] = a /\ G[q] = b /\ G[r] = c
               /\ \A x \in S : x # p /\ x # q /\ x # r => G[x] = H[x]
OBVIOUS

\* The rotation that ends __rb_erase_color gives the short paths a black node more.
LEMMA PaidHeights ==
    ASSUME NEW h, NEW T, NEW n \in T, NEW d \in Sides, NEW g, Paid(h, g, T, n, d), NIL \notin T,
           NEW H, Heights(h, T, H, n, d), NEW s,
           NEW up, up = h.kid[n][Opposite(d)], NEW outer, outer = h.kid[up][Opposite(d)]
    PROVE  Heights(g, T, [H EXCEPT ![n] = H[up], ![up] = H[n], ![outer] = H[outer] + 1], NIL, s)
<1> DEFINE inner == h.kid[up][d]
           a == h.kid[n][d]
           G == [H EXCEPT ![n] = H[up], ![up] = H[n], ![outer] = H[outer] + 1]
<1>0. inner = h.kid[up][d] /\ a = h.kid[n][d]
  OBVIOUS
<1> HIDE DEF inner, a, G
<1>t. TurningAt(h, g, T, n, d, up, inner, outer, a)
  BY <1>0, TurningNames DEF Paid
<1>1. /\ up \in T /\ a \in T \cup {NIL} /\ inner \in T \cup {NIL} /\ outer \in T
      /\ n # up /\ a # n /\ a # up /\ inner # n /\ inner # up /\ outer # n /\ outer # up
      /\ inner # outer /\ outer # a
      /\ g.kid[n][d] = a /\ g.kid[n][Opposite(d)] = inner
      /\ g.kid[up][d] = n /\ g.kid[up][Opposite(d)] = outer
  <2>1. outer \in T
    BY DEF Paid
  <2> QED
    BY <1>t, <2>1 DEF TurningAt
<1>2. \A x \in T \ {n, up}, e \in Sides :
         /\ h.kid[x][e] \in T \cup {NIL} /\ h.kid[x][e] # up /\ h.kid[x][e] # outer
         /\ g.kid[x][e] = IF h.kid[x][e] = n THEN up ELSE h.kid[x][e]
  <2>1. ASSUME NEW x \in T \ {n, up}, NEW e \in Sides
        PROVE  /\ h.kid[x][e] \in T \cup {NIL} /\ h.kid[x][e] # up
               /\ h.kid[x][e] # NIL => h.kid[x][e] # outer
               /\ g.kid[x][e] = IF h.kid[x][e] = n THEN up ELSE h.kid[x][e]
    BY <1>t DEF TurningAt
  <2>2. outer # NIL
    BY <1>1
  <2> QED
    BY <2>1, <2>2
<1>3. /\ ~IsRed(h, up) /\ IsRed(h, outer) /\ ~IsRed(g, n) /\ ~IsRed(g, outer)
      /\ IsRed(g, up) <=> IsRed(h, n)
      /\ \A x \in T : x # n /\ x # up /\ x # outer => (IsRed(g, x) <=> IsRed(h, x))
  BY <1>1 DEF Paid
<1>4. /\ Opposite(d) \in Sides /\ Opposite(d) # d
      /\ \A e \in Sides : e = d \/ e = Opposite(d)
  BY OppositeIs
<1> DEFINE Owe(x, e) == IF x = n /\ e = d THEN 1 ELSE 0
           W(x) == IF IsRed(h, x) THEN 0 ELSE 1
<1>h. H \in [T \cup {NIL} -> Nat] /\ H[NIL] = 0
  BY DEF Heights
<1>5. /\ H \in [T \cup {NIL} -> Nat] /\ H[NIL] = 0
      /\ \A x \in T, e \in Sides : H[x] = W(x) + H[h.kid[x][e]] + Owe(x, e)
  BY DEF Heights, Weight
<1>6. /\ H[up] = H[a] + 1 /\ H[n] = W(n) + H[up]
      /\ H[up] = 1 + H[inner] /\ H[up] = 1 + H[outer]
      /\ H[up] \in Nat /\ H[n] \in Nat /\ H[a] \in Nat /\ H[inner] \in Nat /\ H[outer] \in Nat
  <2>1. /\ Owe(up, d) = 0 /\ Owe(up, Opposite(d)) = 0 /\ Owe(n, Opposite(d)) = 0 /\ Owe(n, d) = 1
        /\ W(up) = 1
    BY <1>1, <1>3, <1>4
  <2>2. /\ W(n) \in {0, 1} /\ H[up] \in Nat /\ H[n] \in Nat
        /\ H[a] \in Nat /\ H[inner] \in Nat /\ H[outer] \in Nat
    BY <1>1, <1>5
  <2>3. /\ H[n] = W(n) + H[a] + Owe(n, d)
        /\ H[n] = W(n) + H[up] + Owe(n, Opposite(d))
        /\ H[up] = W(up) + H[inner] + Owe(up, d)
        /\ H[up] = W(up) + H[outer] + Owe(up, Opposite(d))
    <3> HIDE DEF W, Owe
    <3> QED
      BY <1>0, <1>1, <1>4, <1>5
  <2> HIDE DEF W, Owe
  <2> QED
    BY <2>1, <2>2, <2>3
<1>7. /\ G \in [T \cup {NIL} -> Nat] /\ G[NIL] = 0 /\ G[n] = H[up] /\ G[up] = H[n]
      /\ G[outer] = H[outer] + 1
      /\ \A x \in T \cup {NIL} : x # n /\ x # up /\ x # outer => G[x] = H[x]
  <2>1. H[outer] + 1 \in Nat
    BY <1>6
  <2>2. /\ G \in [T \cup {NIL} -> Nat] /\ G[n] = H[up] /\ G[up] = H[n]
        /\ G[outer] = H[outer] + 1
        /\ \A x \in T \cup {NIL} : x # n /\ x # up /\ x # outer => G[x] = H[x]
    BY <2>1, <1>h, <1>1, <1>6, ThreeChanged DEF G
  <2>3. NIL # n /\ NIL # up /\ NIL # outer
    BY <1>1
  <2> QED
    BY <2>2, <2>3, <1>h
<1>8. ASSUME NEW x \in T, NEW e \in Sides
      PROVE  G[x] = (IF IsRed(g, x) THEN 0 ELSE 1) + G[g.kid[x][e]]
  <2>1. CASE x = n
    <3>1. G[g.kid[n][d]] = H[a] /\ G[g.kid[n][Opposite(d)]] = H[inner]
      BY <1>1, <1>7
    <3> QED
      <4> HIDE DEF W, Owe
      <4>1. ~IsRed(g, n) /\ G[n] = H[up] /\ x = n
        BY <2>1, <1>3, <1>7
      <4>2. G[g.kid[n][e]] = H[a] \/ G[g.kid[n][e]] = H[inner]
        BY <3>1, <1>4
      <4> QED
        BY <4>1, <4>2, <1>6
  <2>2. CASE x = up
    <3>1. G[g.kid[up][d]] = H[up] /\ G[g.kid[up][Opposite(d)]] = H[outer] + 1
      BY <1>1, <1>7
    <3> QED
      <4>1. (IF IsRed(g, up) THEN 0 ELSE 1) = W(n) /\ W(n) \in {0, 1}
        BY <1>3
      <4>2. G[g.kid[up][e]] = H[up] \/ G[g.kid[up][e]] = H[outer] + 1
        BY <3>1, <1>4
      <4>3. G[up] = H[n] /\ x = up
        BY <2>2, <1>7
      <4> HIDE DEF W, Owe
      <4> QED
        BY <4>1, <4>2, <4>3, <1>6
  <2>3. CASE x # n /\ x # up
    <3>0. /\ h.kid[x][e] \in T \cup {NIL} /\ h.kid[x][e] # up /\ h.kid[x][e] # outer
          /\ g.kid[x][e] = IF h.kid[x][e] = n THEN up ELSE h.kid[x][e]
      BY <2>3, <1>2
    <3>1. G[g.kid[x][e]] = H[h.kid[x][e]] /\ H[h.kid[x][e]] \in Nat
      <4>1. H[h.kid[x][e]] \in Nat
        BY <3>0, <1>h
      <4>2. CASE h.kid[x][e] = n
        <5>1. g.kid[x][e] = up
          BY <4>2, <3>0
        <5>2. G[up] = H[n]
          BY <1>7
        <5> QED
          BY <4>1, <4>2, <5>1, <5>2, Zenon
      <4>3. CASE h.kid[x][e] # n
        <5>1. g.kid[x][e] = h.kid[x][e]
          BY <4>3, <3>0
        <5>2. \A y \in T \cup {NIL} : y # n /\ y # up /\ y # outer => G[y] = H[y]
          BY <1>7
        <5> QED
          BY <4>1, <4>3, <5>1, <5>2, <3>0, Zenon
      <4> QED
        BY <4>1, <4>2, <4>3
    <3>2. H[x] = W(x) + H[h.kid[x][e]]
      <4>1. H[x] = W(x) + H[h.kid[x][e]] + Owe(x, e) /\ Owe(x, e) = 0
        BY <2>3, <1>5
      <4>2. W(x) \in {0, 1}
        OBVIOUS
      <4> HIDE DEF W, Owe
      <4> QED
        BY <4>1, <4>2, <3>1
    <3>3. CASE x = outer
      <4>1. H[outer] = H[h.kid[x][e]] /\ ~IsRed(g, x) /\ G[x] = H[outer] + 1
        <5>1. W(x) = 0 /\ ~IsRed(g, x)
          BY <3>3, <1>3
        <5>2. G[x] = H[outer] + 1
          BY <3>3, <1>7
        <5> HIDE DEF W
        <5>3. H[x] = H[h.kid[x][e]]
          BY <5>1, <3>1, <3>2
        <5> QED
          BY <5>1, <5>2, <5>3, <3>3
      <4> QED
        BY <4>1, <3>1
    <3>4. CASE x # outer
      BY <3>1, <3>2, <3>4, <2>3, <1>3, <1>7
    <3> QED
      BY <3>3, <3>4
  <2> QED
    BY <2>1, <2>2, <2>3
<1>9. Heights(g, T, G, NIL, s)
  <2>1. \A x \in T : x # NIL
    OBVIOUS
  <2>2. \A x \in T, e \in Sides : g.kid[x][e] \in T \cup {NIL}
    BY <1>1, <1>2, <1>4
  <2>3. ASSUME NEW x \in T, NEW e \in Sides
        PROVE  G[x] = Weight(g, x) + G[g.kid[x][e]] + (IF x = NIL /\ e = s THEN 1 ELSE 0)
    <3>1. G[g.kid[x][e]] \in Nat
      BY <2>2, <1>7
    <3> QED
      BY <3>1, <2>1, <1>8 DEF Weight
  <2> QED
    BY <2>3, <1>7 DEF Heights
<1> QED
  BY <1>9 DEF G

-----------------------------------------------------------------------------
(* rb_insert_color                                                          *)

\* Around a red node n with a red parent p: the grandparent g is black and n hangs
\* on side e of p, p on side d of g.
Clash(h, T, n, p, g, d) ==
    /\ n \in T /\ p \in T /\ g \in T /\ d \in Sides
    /\ h.kid[g][d] = p /\ (\E e \in Sides : h.kid[p][e] = n)
    /\ IsRed(h, n) /\ IsRed(h, p) /\ ~IsRed(h, g)
    /\ Apart(h, T, NIL, n) /\ ~IsRed(h, h.root)
    /\ n # p /\ n # g /\ p # g

\* Where rb_insert_color goes on, a red node has a red parent: the grandparent is there and
\* black, and no other two red nodes meet.
LEMMA ClashIs ==
    ASSUME NEW h, NEW T, NEW B, Shape(h, T, B), NEW n, Inserting(h, n, T), IsRed(h, h.parent[n])
    PROVE  Clash(h, T, n, h.parent[n], h.parent[h.parent[n]],
                 SideOf(h, h.parent[h.parent[n]], h.parent[n]))
<1> DEFINE p == h.parent[n]
           g == h.parent[p]
<1>1. n \in T /\ IsRed(h, n) /\ Apart(h, T, NIL, n) /\ NIL \notin T
  BY TreeAssumption DEF Inserting, Shape
<1>2. p \in T /\ n # h.root /\ \E e \in Sides : h.kid[p][e] = n
  BY <1>1, ParentOf DEF IsRed
<1>3. ~IsRed(h, h.root)
  BY <1>2 DEF Inserting
<1>4. g \in T /\ \E e \in Sides : h.kid[g][e] = p
  BY <1>2, <1>3, ParentOf
<1>5. h.kid[g][SideOf(h, g, p)] = p /\ SideOf(h, g, p) \in Sides
  <2>1. PICK e \in Sides : h.kid[g][e] = p
    BY <1>4
  <2>2. SideOf(h, g, p) = e
    BY <2>1, <1>1, <1>2, <1>4, OneParent
  <2> QED
    BY <2>1, <2>2
<1>6. n # p /\ p # g
  BY <1>1, <1>2, <1>4, OneParent
<1>7. n # g
  <2>1. PICK e1 \in Sides : h.kid[p][e1] = n
    BY <1>2
  <2>2. PICK e2 \in Sides : h.kid[g][e2] = p
    BY <1>4
  <2>3. B[n] \subseteq B[p] /\ g \notin B[p]
    <3> HIDE DEF p, g
    <3>1. B[h.kid[p][e1]] \subseteq B[p]
      BY <1>2, NodeFacts
    <3>2. g \notin B[h.kid[g][e2]]
      BY <1>4, NodeFacts
    <3> QED
      BY <3>1, <3>2, <2>1, <2>2
  <2>4. n \in B[n]
    BY <1>1, NodeFacts
  <2> QED
    BY <2>3, <2>4
<1>8. ~IsRed(h, g)
  BY <1>1, <1>2, <1>4, <1>6 DEF Apart
<1> QED
  BY <1>1, <1>2, <1>3, <1>4, <1>5, <1>6, <1>7, <1>8 DEF Clash

\* A red uncle: the recolouring moves the clash to the grandparent.
LEMMA RecolorKeeps ==
    ASSUME NEW h, NEW T, NEW B, Shape(h, T, B), NEW H, NEW s, Heights(h, T, H, NIL, s),
           NEW n, NEW p, NEW g, NEW d, Clash(h, T, n, p, g, d), IsRed(h, h.kid[g][Opposite(d)])
    PROVE  LET r == Paint(Paint(Paint(h, h.kid[g][Opposite(d)], "black"), p, "black"), g, "red")
           IN  /\ Shape(r, T, B) /\ Inserting(r, g, T)
               /\ \E G : \A s1 : Heights(r, T, G, NIL, s1)
<1> DEFINE u == h.kid[g][Opposite(d)]
           h1 == Paint(h, u, "black")
           h2 == Paint(h1, p, "black")
           r == Paint(h2, g, "red")
           G == [H EXCEPT ![u] = H[u] + 1, ![p] = H[p] + 1]
<1>1. /\ n \in T /\ p \in T /\ g \in T /\ d \in Sides /\ h.kid[g][d] = p
      /\ IsRed(h, p) /\ ~IsRed(h, g) /\ n # p /\ p # g
      /\ Apart(h, T, NIL, n) /\ ~IsRed(h, h.root)
  BY DEF Clash
<1>2. /\ Opposite(d) \in Sides /\ Opposite(d) # d
      /\ \A e \in Sides : e = d \/ e = Opposite(d)
  BY <1>1, OppositeIs
<1>3. /\ NIL \notin T /\ T \subseteq Keys /\ h \in Heap /\ T \cup {NIL} \subseteq Pointers
      /\ h.root \in T \cup {NIL}
  BY TreeAssumption DEF Shape, Pointers
<1>4. /\ u \in T /\ u # p /\ u # g /\ u # NIL
      /\ \A x \in T, e \in Sides : /\ h.kid[x][e] \in T \cup {NIL}
                                   /\ h.kid[x][e] = u => x = g
                                   /\ h.kid[x][e] = p => x = g
  <2>1. u # NIL
    BY DEF IsRed
  <2>2. u \in T /\ u # g
    BY <2>1, <1>1, <1>2, NodeFacts, OneParent
  <2>3. u # p
    BY <2>1, <1>1, <1>2, OneParent
  <2>4. \A x \in T, e \in Sides : h.kid[x][e] \in T \cup {NIL}
    BY NodeFacts
  <2>5. \A x \in T, e \in Sides : h.kid[x][e] = u => x = g
    BY <2>1, <1>1, <1>2, OneParent
  <2>6. \A x \in T, e \in Sides : h.kid[x][e] = p => x = g
    BY <1>1, <1>3, OneParent
  <2> QED
    BY <2>1, <2>2, <2>3, <2>4, <2>5, <2>6
<1> HIDE DEF u, h1, h2, r, G
<1>5. Blackened(h, h1, u)
  BY <1>3, <1>4, PaintsAre DEF h1
<1>6. Blackened(h1, h2, p)
  <2>1. h1 \in Heap
    BY <1>5 DEF Blackened, Repainted
  <2> QED
    BY <2>1, <1>1, <1>3, PaintsAre DEF h2
<1>7. Reddened(h2, r, g)
  <2>1. h2 \in Heap
    BY <1>6 DEF Blackened, Repainted
  <2> QED
    BY <2>1, <1>1, <1>3, PaintsAre DEF r
<1>8. /\ r \in Heap /\ r.root = h.root /\ r.parent = h.parent /\ r.kid = h.kid
      /\ \A x \in Pointers : IsRed(r, x) <=> x = g \/ (x # p /\ x # u /\ IsRed(h, x))
  BY <1>5, <1>6, <1>7 DEF Blackened, Reddened, Repainted
<1>9. Shape(r, T, B)
  BY <1>8, SameShape
<1>10. Inserting(r, g, T)
  <2>1. g \in T /\ IsRed(r, g)
    BY <1>1, <1>3, <1>8
  <2>2. ASSUME NEW y \in T, NEW e \in Sides, IsRed(r, y), IsRed(r, r.kid[y][e])
        PROVE  r.kid[y][e] = g
    <3>1. h.kid[y][e] \in T \cup {NIL} /\ r.kid[y][e] = h.kid[y][e] /\ h.kid[y][e] # NIL
      BY <2>2, <1>4, <1>8 DEF IsRed
    <3>2. CASE y = g
      <4>1. h.kid[y][e] = p \/ h.kid[y][e] = u
        BY <3>2, <1>1, <1>2 DEF u
      <4> QED
        BY <4>1, <3>1, <2>2, <1>1, <1>3, <1>4, <1>8
    <3>3. CASE y # g /\ h.kid[y][e] # g
      <4>1. IsRed(h, y) /\ IsRed(h, h.kid[y][e]) /\ y # p
        BY <3>1, <3>3, <2>2, <1>3, <1>8
      <4>2. h.kid[y][e] = n /\ y # NIL
        BY <4>1, <1>1, <1>3 DEF Apart
      <4>3. PICK e1 \in Sides : h.kid[p][e1] = n
        BY DEF Clash
      <4>4. y = p
        BY <4>2, <4>3, <1>1, <1>3, OneParent
      <4> QED
        BY <4>1, <4>4
    <3> QED
      BY <3>1, <3>2, <3>3
  <2>3. IsRed(r, r.root) => g = r.root
    BY <1>1, <1>3, <1>8
  <2> QED
    BY <2>1, <2>2, <2>3 DEF Inserting, Apart
<1>11. ASSUME NEW s1  PROVE  Heights(r, T, G, NIL, s1)
  <2>1. /\ H \in [T \cup {NIL} -> Nat] /\ H[NIL] = 0
        /\ \A x \in T, e \in Sides : H[x] = (IF IsRed(h, x) THEN 0 ELSE 1) + H[h.kid[x][e]]
    <3>1. ASSUME NEW x \in T, NEW e \in Sides
          PROVE  H[x] = (IF IsRed(h, x) THEN 0 ELSE 1) + H[h.kid[x][e]]
      <4>1. H[h.kid[x][e]] \in Nat /\ x # NIL
        BY <1>3, <1>4 DEF Heights
      <4> QED
        BY <4>1 DEF Heights, Weight
    <3> QED
      BY <3>1 DEF Heights
  <2>2. /\ G \in [T \cup {NIL} -> Nat] /\ G[NIL] = 0
        /\ G[p] = H[p] + 1 /\ G[u] = H[u] + 1
        /\ \A x \in T \cup {NIL} : x # p /\ x # u => G[x] = H[x]
    BY <2>1, <1>1, <1>3, <1>4 DEF G
  <2>3. ASSUME NEW x \in T, NEW e \in Sides
        PROVE  G[x] = (IF IsRed(r, x) THEN 0 ELSE 1) + G[r.kid[x][e]]
    <3>1. /\ H[x] = (IF IsRed(h, x) THEN 0 ELSE 1) + H[h.kid[x][e]]
          /\ r.kid[x][e] = h.kid[x][e] /\ H[h.kid[x][e]] \in Nat
          /\ IsRed(r, x) <=> x = g \/ (x # p /\ x # u /\ IsRed(h, x))
          /\ h.kid[x][e] \in T \cup {NIL}
      BY <2>1, <1>3, <1>4, <1>8
    <3>2. CASE x = g
      <4>1. h.kid[x][e] = p \/ h.kid[x][e] = u
        BY <3>2, <1>1, <1>2 DEF u
      <4>2. G[h.kid[x][e]] = H[h.kid[x][e]] + 1
        BY <4>1, <2>2
      <4> QED
        BY <4>2, <3>1, <3>2, <2>2, <1>1, <1>4
    <3>3. CASE x # g
      <4>1. G[h.kid[x][e]] = H[h.kid[x][e]]
        BY <3>1, <3>3, <2>2, <1>4
      <4>2. IsRed(h, p) /\ IsRed(h, u)
        BY <1>1 DEF u
      <4>3. CASE x = p \/ x = u
        BY <4>1, <4>2, <4>3, <3>1, <3>3, <2>2
      <4>4. CASE x # p /\ x # u
        BY <4>1, <4>4, <3>1, <3>3, <2>2
      <4> QED
        BY <4>3, <4>4
    <3> QED
      BY <3>2, <3>3
  <2>4. ASSUME NEW x \in T, NEW e \in Sides
        PROVE  G[x] = Weight(r, x) + G[r.kid[x][e]] + (IF x = NIL /\ e = s1 THEN 1 ELSE 0)
    <3>1. x # NIL /\ G[r.kid[x][e]] \in Nat
      BY <2>2, <1>3, <1>4, <1>8
    <3> QED
      BY <3>1, <2>3 DEF Weight
  <2> QED
    BY <2>2, <2>4 DEF Heights
<1> QED
  BY <1>9, <1>10, <1>11 DEF r, h2, h1, u

\* A black uncle and an outer node: turning the grandparent down ends the clash.
LEMMA TurnEndsClash ==
    ASSUME NEW h, NEW T, NEW B, Shape(h, T, B), NEW H, NEW s, Heights(h, T, H, NIL, s),
           NEW n, NEW p, NEW g, NEW d, Clash(h, T, n, p, g, d), ~IsRed(h, h.kid[g][Opposite(d)]),
           h.kid[p][d] = n
    PROVE  LET r == Rotate(Paint(Paint(h, p, "black"), g, "red"), g, Opposite(d))
           IN  /\ Inserting(r, n, T) /\ ~IsRed(r, r.parent[n])
               /\ \E C : Shape(r, T, C)
               /\ \E G : \A s1 : Heights(r, T, G, NIL, s1)
<1> DEFINE h1 == Paint(h, p, "black")
           h2 == Paint(h1, g, "red")
           r == Rotate(h2, g, Opposite(d))
           G == [H EXCEPT ![g] = H[p], ![p] = H[g]]
<1>1. /\ n \in T /\ p \in T /\ g \in T /\ d \in Sides /\ h.kid[g][d] = p
      /\ IsRed(h, n) /\ IsRed(h, p) /\ ~IsRed(h, g) /\ n # p /\ n # g /\ p # g
      /\ Apart(h, T, NIL, n) /\ ~IsRed(h, h.root)
  BY DEF Clash
<1>2. /\ Opposite(d) \in Sides /\ Opposite(d) # d /\ Opposite(Opposite(d)) = d
      /\ \A e \in Sides : e = d \/ e = Opposite(d)
  BY <1>1, OppositeIs
<1>3. /\ NIL \notin T /\ T \subseteq Keys /\ h \in Heap /\ T \subseteq Pointers /\ NIL \in Pointers
      /\ h.root \in T \cup {NIL}
  BY TreeAssumption DEF Shape, Pointers
<1> HIDE DEF h1, h2, r, G
<1>4. Blackened(h, h1, p)
  BY <1>1, <1>3, PaintsAre DEF h1
<1>5. Reddened(h1, h2, g)
  <2>1. h1 \in Heap
    BY <1>4 DEF Blackened, Repainted
  <2> QED
    BY <2>1, <1>1, <1>3, PaintsAre DEF h2
<1>6. /\ Repainted(h, h2)
      /\ \A x \in Pointers : IsRed(h2, x) <=> x = g \/ (x # p /\ IsRed(h, x))
  BY <1>4, <1>5 DEF Blackened, Reddened, Repainted
<1>7. TurnsTo(h, h2, r, T, g, Opposite(d)) /\ \E C : Shape(r, T, C)
  BY <1>1, <1>2, <1>3, <1>6, RotateTurns DEF r
<1>8. \A x \in T \cup {NIL} : IsRed(r, x) <=> x = g \/ (x # p /\ IsRed(h, x))
  BY <1>3, <1>6, <1>7 DEF TurnsTo
<1>9. Turning(h, r, T, g, Opposite(d)) /\ r.root = IF h.root = g THEN p ELSE h.root
  BY <1>1, <1>2, <1>7 DEF TurnsTo
<1>10. Swapped(h, r, T, g, Opposite(d))
  BY <1>1, <1>2, <1>8, <1>9 DEF Swapped
<1>11. Heights(r, T, G, NIL, s)
  BY <1>1, <1>2, <1>3, <1>10, SwapHeights DEF G
<1>12. ASSUME NEW s1  PROVE  Heights(r, T, G, NIL, s1)
  BY <1>3, <1>11 DEF Heights
<1>13. Inserting(r, n, T)
  <2>1. IsRed(r, n)
    BY <1>1, <1>8
  <2> DEFINE inner == h.kid[p][Opposite(d)]
             a == h.kid[g][Opposite(d)]
  <2>t. TurningAt(h, r, T, g, Opposite(d), p, inner, n, a)
    BY <1>1, <1>2, <1>9, TurningNames
  <2>2. /\ r.kid[g][Opposite(d)] = a /\ r.kid[g][d] = inner
        /\ r.kid[p][Opposite(d)] = g /\ r.kid[p][d] = n
        /\ inner \in T \cup {NIL} /\ a \in T \cup {NIL}
        /\ inner # p /\ inner # g /\ a # p /\ a # g
        /\ inner # NIL => inner # n
    BY <2>t, <1>2 DEF TurningAt
  <2>3. \A x \in T \ {g, p}, e \in Sides :
           /\ h.kid[x][e] \in T \cup {NIL} /\ h.kid[x][e] # p
           /\ h.kid[x][e] # NIL => h.kid[x][e] # n
           /\ r.kid[x][e] = IF h.kid[x][e] = g THEN p ELSE h.kid[x][e]
    BY <2>t DEF TurningAt
  <2>4. ~IsRed(h, inner) /\ ~IsRed(h, a)
    <3>1. IsRed(h, inner) => inner = n /\ inner # NIL
      BY <1>1, <1>2, <1>3 DEF Apart, IsRed
    <3> QED
      BY <3>1, <2>2
  <2> HIDE DEF inner, a
  <2>5. ASSUME NEW y \in T, NEW e \in Sides, IsRed(r, y), IsRed(r, r.kid[y][e])
        PROVE  FALSE
    <3>1. CASE y = g
      BY <3>1, <2>2, <2>4, <2>5, <1>2, <1>8
    <3>2. CASE y = p
      BY <3>2, <2>5, <1>1, <1>8
    <3>3. CASE y # g /\ y # p
      <4>1. h.kid[y][e] # g /\ r.kid[y][e] = h.kid[y][e] /\ h.kid[y][e] \in T \cup {NIL}
        BY <3>3, <2>3, <2>5, <1>1, <1>8
      <4>2. IsRed(h, y) /\ IsRed(h, h.kid[y][e])
        BY <4>1, <3>3, <2>3, <2>5, <1>8
      <4>3. h.kid[y][e] = n /\ h.kid[y][e] # NIL
        BY <4>2, <1>1, <1>3 DEF Apart
      <4> QED
        BY <4>3, <3>3, <2>3
    <3> QED
      BY <3>1, <3>2, <3>3
  <2>6. ~IsRed(r, r.root)
    <3>1. CASE h.root = g
      BY <3>1, <1>1, <1>8, <1>9
    <3>2. CASE h.root # g
      BY <3>2, <1>1, <1>3, <1>8, <1>9
    <3> QED
      BY <3>1, <3>2
  <2> QED
    BY <2>1, <2>5, <2>6, <1>1 DEF Inserting, Apart
<1>14. ~IsRed(r, r.parent[n])
  <2>1. r.kid[p][d] = n /\ ~IsRed(r, p)
    BY <1>1, <1>2, <1>8, <1>9 DEF Turning
  <2>2. r.parent[n] = p
    BY <2>1, <1>1, <1>3, <1>7, NodeFacts
  <2> QED
    BY <2>1, <2>2
<1> QED
  BY <1>7, <1>12, <1>13, <1>14 DEF r, h2, h1

\* A black uncle and an inner node: the parent is turned down first, which makes it
\* the outer node of the clash.
LEMMA TurnOutwards ==
    ASSUME NEW h, NEW T, NEW B, Shape(h, T, B), NEW H, NEW s, Heights(h, T, H, NIL, s),
           NEW n, NEW p, NEW g, NEW d, Clash(h, T, n, p, g, d), ~IsRed(h, h.kid[g][Opposite(d)]),
           h.kid[p][Opposite(d)] = n
    PROVE  LET r == Rotate(h, p, d)
           IN  /\ Clash(r, T, p, n, g, d) /\ r.kid[n][d] = p
               /\ ~IsRed(r, r.kid[g][Opposite(d)])
               /\ \E C : Shape(r, T, C)
               /\ \E G : Heights(r, T, G, NIL, s)
<1> DEFINE r == Rotate(h, p, d)
           G == [H EXCEPT ![p] = H[n], ![n] = H[p]]
<1>1. /\ n \in T /\ p \in T /\ g \in T /\ d \in Sides /\ h.kid[g][d] = p
      /\ IsRed(h, n) /\ IsRed(h, p) /\ ~IsRed(h, g) /\ n # p /\ n # g /\ p # g
      /\ Apart(h, T, NIL, n) /\ ~IsRed(h, h.root)
  BY DEF Clash
<1>2. /\ Opposite(d) \in Sides /\ Opposite(d) # d /\ Opposite(Opposite(d)) = d
      /\ \A e \in Sides : e = d \/ e = Opposite(d)
  BY <1>1, OppositeIs
<1>3. /\ NIL \notin T /\ T \subseteq Keys /\ h \in Heap /\ T \subseteq Pointers /\ NIL \in Pointers
      /\ h.root \in T \cup {NIL} /\ Repainted(h, h)
  BY TreeAssumption DEF Shape, Pointers, Repainted
<1> HIDE DEF r, G
<1>4. TurnsTo(h, h, r, T, p, d) /\ \E C : Shape(r, T, C)
  BY <1>1, <1>3, RotateTurns DEF r
<1>5. /\ Turning(h, r, T, p, d) /\ r.root = IF h.root = p THEN n ELSE h.root
      /\ \A x \in T \cup {NIL} : IsRed(r, x) <=> IsRed(h, x)
  BY <1>3, <1>4 DEF TurnsTo
<1>6. Swapped(h, r, T, p, d)
  BY <1>1, <1>5 DEF Swapped
<1>7. Heights(r, T, G, NIL, s)
  BY <1>1, <1>3, <1>6, SwapHeights DEF G
<1> DEFINE inner == h.kid[n][d]
           outer == h.kid[n][Opposite(d)]
           a == h.kid[p][d]
<1>8. /\ r.kid[p][d] = a /\ r.kid[p][Opposite(d)] = inner
      /\ r.kid[n][d] = p /\ r.kid[n][Opposite(d)] = outer
      /\ inner \in T \cup {NIL} /\ a \in T \cup {NIL} /\ outer \in T \cup {NIL}
      /\ inner # p /\ inner # n /\ a # p /\ a # n /\ outer # n /\ outer # p
  BY <1>1, <1>5 DEF Turning
<1>9. \A x \in T \ {p, n}, e \in Sides :
         /\ h.kid[x][e] \in T \cup {NIL} /\ h.kid[x][e] # n
         /\ r.kid[x][e] = IF h.kid[x][e] = p THEN n ELSE h.kid[x][e]
  BY <1>1, <1>5 DEF Turning
<1>10. ~IsRed(h, inner) /\ ~IsRed(h, outer) /\ ~IsRed(h, a)
  BY <1>1, <1>2, <1>3, <1>8 DEF Apart
<1> HIDE DEF inner, outer, a
<1>11. Apart(r, T, NIL, p)
  <2>1. ASSUME NEW y \in T, NEW e \in Sides, IsRed(r, y), IsRed(r, r.kid[y][e])
        PROVE  r.kid[y][e] = p
    <3>1. CASE y = p
      BY <3>1, <2>1, <1>2, <1>5, <1>8, <1>10
    <3>2. CASE y = n
      BY <3>2, <2>1, <1>2, <1>5, <1>8, <1>10
    <3>3. CASE y # p /\ y # n
      <4>1. IsRed(h, y) /\ h.kid[y][e] \in T \cup {NIL} /\ h.kid[y][e] # n
        BY <3>3, <2>1, <1>5, <1>9
      <4>2. IsRed(h, h.kid[y][e])
        BY <4>1, <3>3, <2>1, <1>1, <1>5, <1>9
      <4> QED
        BY <4>1, <4>2, <1>1, <1>3 DEF Apart
    <3> QED
      BY <3>1, <3>2, <3>3
  <2> QED
    BY <2>1 DEF Apart
<1>12. r.kid[g][d] = n /\ r.kid[g][Opposite(d)] = h.kid[g][Opposite(d)]
  <2>1. h.kid[g][Opposite(d)] # p
    BY <1>1, <1>2, <1>3, OneParent
  <2> QED
    BY <2>1, <1>1, <1>2, <1>9
<1>13. ~IsRed(r, r.kid[g][Opposite(d)])
  BY <1>1, <1>2, <1>5, <1>9, <1>12
<1>14. ~IsRed(r, r.root)
  <2>1. h.root # p
    BY <1>1
  <2> QED
    BY <2>1, <1>1, <1>3, <1>5
<1>15. Clash(r, T, p, n, g, d)
  BY <1>1, <1>5, <1>8, <1>11, <1>12, <1>14 DEF Clash
<1> QED
  BY <1>4, <1>7, <1>8, <1>13, <1>15 DEF r

\* Once no red node but n has a red parent or kid, painting n black parts all of them.
LEMMA BlackeningParts ==
    ASSUME NEW h, NEW g, NEW T, NEW B, Shape(h, T, B), NEW n \in T, Blackened(h, g, n), Apart(h, T, n, n)
    PROVE  Apart(g, T, NIL, NIL)
<1>1. T \cup {NIL} \subseteq Pointers /\ g.kid = h.kid
  BY TreeAssumption DEF Shape, Pointers, Blackened, Repainted
<1>2. ASSUME NEW y \in T, NEW e \in Sides, IsRed(g, y), IsRed(g, g.kid[y][e])
      PROVE  FALSE
  <2>1. h.kid[y][e] \in T \cup {NIL}
    BY NodeFacts
  <2>2. y # n /\ IsRed(h, y) /\ h.kid[y][e] # n /\ IsRed(h, h.kid[y][e])
    BY <2>1, <1>1, <1>2 DEF Blackened
  <2> QED
    BY <2>2 DEF Apart
<1> QED
  BY <1>2 DEF Apart

\* Both repairs end by painting a node black.  Where it is the root, all paths get
\* longer by as much; a red one whose link owed a black node has paid for it then.
LEMMA BlackenedHeights ==
    ASSUME NEW h, NEW g, NEW T, NEW B, Shape(h, T, B), NEW n \in T, Blackened(h, g, n),
           NEW H, NEW q, NEW s, Heights(h, T, H, q, s),
           \/ n = h.root /\ q = NIL
           \/ IsRed(h, n) /\ q \in T /\ s \in Sides /\ h.kid[q][s] = n
    PROVE  \E G : \A s1 : Heights(g, T, G, NIL, s1)
<1> DEFINE G == [H EXCEPT ![n] = (IF IsRed(h, n) THEN 1 ELSE 0) + H[n]]
<1>1. /\ T \cup {NIL} \subseteq Pointers /\ g.kid = h.kid /\ n # NIL /\ NIL \notin T
      /\ \A x \in Pointers : IsRed(g, x) <=> x # n /\ IsRed(h, x)
  BY TreeAssumption DEF Shape, Pointers, Blackened, Repainted
<1>2. ASSUME NEW x \in T, NEW e \in Sides
      PROVE  /\ h.kid[x][e] \in T \cup {NIL}
             /\ h.kid[x][e] = n <=> q # NIL /\ x = q /\ e = s
             /\ q # NIL => IsRed(h, n)
  <2>1. h.kid[x][e] \in T \cup {NIL}
    BY NodeFacts
  <2>2. CASE n = h.root /\ q = NIL
    BY <2>1, <2>2, <1>1, OneParent
  <2>3. CASE IsRed(h, n) /\ q \in T /\ s \in Sides /\ h.kid[q][s] = n
    BY <2>1, <2>3, <1>1, OneParent
  <2> QED
    BY <2>1, <2>2, <2>3
<1>3. /\ H \in [T \cup {NIL} -> Nat] /\ H[NIL] = 0
      /\ \A x \in T, e \in Sides :
            H[x] = (IF IsRed(h, x) THEN 0 ELSE 1) + H[h.kid[x][e]]
                   + (IF x = q /\ e = s THEN 1 ELSE 0)
  BY DEF Heights, Weight
<1> HIDE DEF G
<1>4. /\ G \in [T \cup {NIL} -> Nat] /\ G[NIL] = 0
      /\ G[n] = (IF IsRed(h, n) THEN 1 ELSE 0) + H[n]
      /\ \A x \in T \cup {NIL} : x # n => G[x] = H[x]
  BY <1>1, <1>3 DEF G
<1>5. ASSUME NEW x \in T, NEW e \in Sides
      PROVE  G[x] = (IF IsRed(g, x) THEN 0 ELSE 1) + G[g.kid[x][e]]
  <2>1. /\ H[x] = (IF IsRed(h, x) THEN 0 ELSE 1) + H[h.kid[x][e]]
                  + (IF x = q /\ e = s THEN 1 ELSE 0)
        /\ g.kid[x][e] = h.kid[x][e] /\ H[h.kid[x][e]] \in Nat
        /\ IsRed(g, x) <=> x # n /\ IsRed(h, x)
    BY <1>1, <1>2, <1>3
  <2>2. G[g.kid[x][e]] = H[h.kid[x][e]] + (IF x = q /\ e = s THEN 1 ELSE 0)
    <3>1. CASE h.kid[x][e] = n
      BY <3>1, <2>1, <1>1, <1>2, <1>4
    <3>2. CASE h.kid[x][e] # n
      <4>1. ~(x = q /\ e = s)
        BY <3>2, <1>1, <1>2
      <4> QED
        BY <4>1, <3>2, <2>1, <1>2, <1>4
    <3> QED
      BY <3>1, <3>2
  <2>3. CASE x = n
    <3>1. G[x] = H[x] + (IF IsRed(h, x) THEN 1 ELSE 0) /\ ~IsRed(g, x)
      BY <2>1, <2>3, <1>3, <1>4
    <3> QED
      BY <3>1, <2>1, <2>2
  <2>4. CASE x # n
    BY <2>1, <2>2, <2>4, <1>4
  <2> QED
    BY <2>3, <2>4
<1>6. ASSUME NEW s1  PROVE  Heights(g, T, G, NIL, s1)
  <2>1. ASSUME NEW x \in T, NEW e \in Sides
        PROVE  G[x] = Weight(g, x) + G[g.kid[x][e]] + (IF x = NIL /\ e = s1 THEN 1 ELSE 0)
    <3>1. x # NIL /\ G[g.kid[x][e]] \in Nat
      BY <1>1, <1>2, <1>4
    <3> QED
      BY <3>1, <1>5 DEF Weight
  <2> QED
    BY <2>1, <1>4 DEF Heights
<1> QED
  BY <1>6

-----------------------------------------------------------------------------
(* __rb_erase_color                                                         *)

\* The paths through the link of p on side d, to n, lack a black node.
Lacking(h, T, n, p, d) ==
    /\ p \in T /\ d \in Sides /\ h.kid[p][d] = n /\ ~IsRed(h, n)
    /\ Apart(h, T, NIL, NIL) /\ ~IsRed(h, h.root)

\* Where __rb_erase_color goes on, the paths through a black node, or through no node, lack
\* one, and there is a parent.
LEMMA LackingIs ==
    ASSUME NEW h, NEW T, NEW B, Shape(h, T, B), NEW n, NEW p, Repairing(h, n, p, T),
           ~IsRed(h, n), n # h.root
    PROVE  Lacking(h, T, n, p, SideOf(h, p, n))
<1>1. NIL \notin T
  BY TreeAssumption DEF Shape
<1>2. Apart(h, T, NIL, NIL)
  BY NodeFacts DEF Repairing, Apart
<1> QED
  BY <1>1, <1>2, SideOfIs DEF Repairing, Lacking

\* The sibling is there, for its paths have a black node more than those through n.
LEMMA SiblingThere ==
    ASSUME NEW h, NEW T, NEW B, Shape(h, T, B), NEW n, NEW p, NEW d, Lacking(h, T, n, p, d),
           NEW H, Heights(h, T, H, p, d)
    PROVE  /\ h.kid[p][Opposite(d)] \in T
           /\ H[h.kid[p][Opposite(d)]] = H[n] + 1 /\ H[n] \in Nat
<1> DEFINE o == h.kid[p][Opposite(d)]
<1>1. /\ p \in T /\ d \in Sides /\ h.kid[p][d] = n
      /\ Opposite(d) \in Sides /\ Opposite(d) # d
  BY OppositeIs DEF Lacking
<1>2. n \in T \cup {NIL} /\ o \in T \cup {NIL}
  BY <1>1, NodeFacts
<1>3. /\ H[p] = Weight(h, p) + H[n] + 1 /\ H[p] = Weight(h, p) + H[o] + 0
      /\ H[n] \in Nat /\ H[o] \in Nat /\ H[NIL] = 0 /\ Weight(h, p) \in {0, 1}
  BY <1>1, <1>2 DEF Heights, Weight
<1>4. H[o] = H[n] + 1
  BY <1>3
<1> QED
  BY <1>2, <1>3, <1>4

\* A red sibling is turned up.
LEMMA SiblingTurnsUp ==
    ASSUME NEW h, NEW T, NEW B, Shape(h, T, B), NEW n, NEW p, NEW d, Lacking(h, T, n, p, d),
           NEW H, Heights(h, T, H, p, d), IsRed(h, h.kid[p][Opposite(d)])
    PROVE  LET r == Rotate(Paint(Paint(h, h.kid[p][Opposite(d)], "black"), p, "red"), p, d)
           IN  /\ Lacking(r, T, n, p, d)
               /\ \E C : Shape(r, T, C)
               /\ \E G : Heights(r, T, G, p, d)
               /\ ~IsRed(r, r.kid[p][Opposite(d)])
               /\ \A y \in B[n], e \in Sides : r.kid[y][e] = h.kid[y][e]
<1> DEFINE o == h.kid[p][Opposite(d)]
           h1 == Paint(h, o, "black")
           h2 == Paint(h1, p, "red")
           r == Rotate(h2, p, d)
           inner == h.kid[o][d]
           outer == h.kid[o][Opposite(d)]
           G == [H EXCEPT ![p] = H[o], ![o] = H[p]]
<1>1. /\ p \in T /\ d \in Sides /\ h.kid[p][d] = n /\ ~IsRed(h, n)
      /\ Apart(h, T, NIL, NIL) /\ ~IsRed(h, h.root)
  BY DEF Lacking
<1>2. /\ Opposite(d) \in Sides /\ Opposite(d) # d /\ Opposite(Opposite(d)) = d
      /\ \A e \in Sides : e = d \/ e = Opposite(d)
  BY <1>1, OppositeIs
<1>3. /\ NIL \notin T /\ T \subseteq Keys /\ h \in Heap /\ T \subseteq Pointers /\ NIL \in Pointers
      /\ h.root \in T \cup {NIL}
  BY TreeAssumption DEF Shape, Pointers
<1>4. o \in T /\ o # p /\ IsRed(h, o) /\ ~IsRed(h, p) /\ h.root # o
  <2>1. o \in T /\ o # NIL
    BY <1>3, SiblingThere
  <2>2. o # p /\ h.root # o
    BY <2>1, <1>1, <1>2, OneParent
  <2>3. ~IsRed(h, p)
    BY <2>1, <1>1, <1>2, <1>3 DEF Apart
  <2> QED
    BY <2>1, <2>2, <2>3
<1>5. o = h.kid[p][Opposite(d)] /\ inner = h.kid[o][d] /\ outer = h.kid[o][Opposite(d)]
  OBVIOUS
<1> HIDE DEF h1, h2, r, G, o, inner, outer
<1>6. Blackened(h, h1, o)
  BY <1>3, <1>4, PaintsAre DEF h1
<1>7. Reddened(h1, h2, p)
  <2>1. h1 \in Heap
    BY <1>6 DEF Blackened, Repainted
  <2> QED
    BY <2>1, <1>1, <1>3, PaintsAre DEF h2
<1>8. /\ Repainted(h, h2)
      /\ \A x \in Pointers : IsRed(h2, x) <=> x = p \/ (x # o /\ IsRed(h, x))
  BY <1>6, <1>7, <1>4 DEF Blackened, Reddened, Repainted
<1>9. TurnsTo(h, h2, r, T, p, d) /\ \E C : Shape(r, T, C)
  BY <1>1, <1>3, <1>4, <1>5, <1>8, RotateTurns DEF r
<1>10. /\ Turning(h, r, T, p, d) /\ r.root = IF h.root = p THEN o ELSE h.root
       /\ \A x \in T \cup {NIL} : IsRed(r, x) <=> x = p \/ (x # o /\ IsRed(h, x))
  BY <1>3, <1>5, <1>8, <1>9 DEF TurnsTo
<1>11. Swapped(h, r, T, p, d)
  BY <1>4, <1>5, <1>10 DEF Swapped
<1>12. Heights(r, T, G, p, d)
  <2>1. p # o /\ ~(p = p /\ d = Opposite(d))
    BY <1>2, <1>4
  <2> QED
    BY <2>1, <1>1, <1>3, <1>5, <1>11, SwapHeights DEF G
<1>13. /\ r.kid[p][d] = n /\ r.kid[p][Opposite(d)] = inner
       /\ r.kid[o][d] = p /\ r.kid[o][Opposite(d)] = outer
       /\ inner \in T \cup {NIL} /\ n \in T \cup {NIL} /\ outer \in T \cup {NIL}
       /\ n # p /\ n # o /\ inner # p /\ inner # o
  BY <1>1, <1>5, <1>10 DEF Turning
<1>14. \A x \in T \ {p, o}, e \in Sides :
          /\ h.kid[x][e] \in T \cup {NIL} /\ h.kid[x][e] # o
          /\ r.kid[x][e] = IF h.kid[x][e] = p THEN o ELSE h.kid[x][e]
  BY <1>5, <1>10 DEF Turning
<1>15. ~IsRed(h, inner)
  BY <1>1, <1>3, <1>4, <1>5 DEF Apart, IsRed
<1>16. ~IsRed(r, inner) /\ ~IsRed(r, n) /\ ~IsRed(r, o)
  BY <1>1, <1>4, <1>10, <1>13, <1>15
<1>17. Apart(r, T, NIL, NIL)
  <2>1. ASSUME NEW y \in T, NEW e \in Sides, IsRed(r, y), IsRed(r, r.kid[y][e])
        PROVE  FALSE
    <3>1. CASE y = p
      BY <3>1, <2>1, <1>2, <1>13, <1>16
    <3>2. CASE y = o
      BY <3>2, <2>1, <1>16
    <3>3. CASE y # p /\ y # o
      <4>1. IsRed(h, y) /\ h.kid[y][e] # p /\ h.kid[y][e] \in T \cup {NIL}
        BY <3>3, <2>1, <1>10, <1>14, <1>16
      <4>2. IsRed(h, h.kid[y][e]) /\ h.kid[y][e] # NIL
        BY <4>1, <3>3, <2>1, <1>10, <1>14 DEF IsRed
      <4> QED
        BY <4>1, <4>2, <1>1, <1>3 DEF Apart
    <3> QED
      BY <3>1, <3>2, <3>3
  <2> QED
    BY <2>1 DEF Apart
<1>18. ~IsRed(r, r.root)
  BY <1>1, <1>3, <1>4, <1>10, <1>16
<1>19. Lacking(r, T, n, p, d)
  BY <1>1, <1>13, <1>16, <1>17, <1>18 DEF Lacking
<1>20. ASSUME NEW y \in B[n], NEW e \in Sides  PROVE  r.kid[y][e] = h.kid[y][e]
  <2>1. n \in T /\ B[n] \subseteq T /\ p \notin B[n] /\ o \notin B[n]
    <3>1. n \in T
      <4>1. B[NIL] = {} /\ n \in T \cup {NIL}
        BY <1>13 DEF Shape
      <4> QED
        BY <4>1
    <3>2. o \in B[o]
      BY <1>1, <1>4, NodeFacts
    <3>3. B[h.kid[p][d]] \cap B[h.kid[p][Opposite(d)]] = {} /\ p \notin B[h.kid[p][d]]
      BY <1>1, NodeFacts
    <3>4. B[n] \subseteq T
      BY <3>1, <1>1, NodeFacts
    <3> QED
      BY <3>1, <3>2, <3>3, <3>4, <1>1, <1>5
  <2>2. y \in T /\ y # p /\ y # o /\ B[y] \subseteq B[n]
    BY <2>1, SubtreeWithin
  <2>3. h.kid[y][e] # p
    <3>1. h.kid[y][e] # NIL => h.kid[y][e] \in B[h.kid[y][e]] /\ B[h.kid[y][e]] \subseteq B[y]
      BY <2>2, NodeFacts
    <3> QED
      BY <3>1, <2>1, <2>2, <1>1, <1>3
  <2> QED
    BY <2>2, <2>3, <1>14
<1> QED
  BY <1>9, <1>12, <1>13, <1>16, <1>19, <1>20 DEF r, h2, h1, o

\* Two black nephews: the sibling turns red, and the paths through p lack a black
\* node now.
LEMMA RecolorPasses ==
    ASSUME NEW h, NEW T, NEW B, Shape(h, T, B), NEW n, NEW p, NEW d, Lacking(h, T, n, p, d),
           NEW H, Heights(h, T, H, p, d),
           ~IsRed(h, h.kid[p][Opposite(d)]),
           \A e \in Sides : ~IsRed(h, h.kid[h.kid[p][Opposite(d)]][e])
    PROVE  LET r == Paint(h, h.kid[p][Opposite(d)], "red")
           IN  /\ Shape(r, T, B) /\ Repairing(r, p, h.parent[p], T)
               /\ \E G : Heights(r, T, G, IF p # r.root THEN h.parent[p] ELSE NIL,
                                 SideOf(r, h.parent[p], p))
<1> DEFINE o == h.kid[p][Opposite(d)]
           r == Paint(h, o, "red")
           pp == h.parent[p]
           q == IF p # r.root THEN pp ELSE NIL
           s == SideOf(r, pp, p)
           G == [H EXCEPT ![o] = H[o] - 1, ![p] = H[p] - 1]
<1>1. /\ p \in T /\ d \in Sides /\ h.kid[p][d] = n /\ ~IsRed(h, n)
      /\ Apart(h, T, NIL, NIL) /\ ~IsRed(h, h.root)
  BY DEF Lacking
<1>2. /\ Opposite(d) \in Sides /\ Opposite(d) # d
      /\ \A e \in Sides : e = d \/ e = Opposite(d)
  BY <1>1, OppositeIs
<1>3. /\ NIL \notin T /\ T \subseteq Keys /\ h \in Heap /\ T \subseteq Pointers /\ NIL \in Pointers
      /\ h.root \in T \cup {NIL}
  BY TreeAssumption DEF Shape, Pointers
<1>4. /\ o \in T /\ H[o] = H[n] + 1 /\ H[n] \in Nat
  BY SiblingThere
<1>5. /\ o # p /\ h.root # o /\ n # o /\ n # p
  BY <1>1, <1>2, <1>3, <1>4, OneParent
<1>6. ~IsRed(h, o) /\ \A e \in Sides : ~IsRed(h, h.kid[o][e])
  OBVIOUS
<1>7. ASSUME NEW x \in T, NEW e \in Sides
      PROVE  /\ h.kid[x][e] \in T \cup {NIL}
             /\ h.kid[x][e] = o => x = p /\ e = Opposite(d)
             /\ h.kid[x][e] = n => (x = p /\ e = d) \/ n = NIL
  <2>1. h.kid[x][e] \in T \cup {NIL}
    BY NodeFacts
  <2>2. h.kid[x][e] = o => x = p /\ e = Opposite(d)
    BY <1>1, <1>2, <1>3, <1>4, OneParent
  <2>3. h.kid[x][e] = n => (x = p /\ e = d) \/ n = NIL
    BY <1>1, <1>2, <1>3, OneParent
  <2> QED
    BY <2>1, <2>2, <2>3
<1>8. /\ p # h.root => pp \in T /\ h.kid[pp][s] = p /\ s \in Sides
      /\ \A x \in T, e \in Sides : h.kid[x][e] = p => x = pp
      /\ \A x \in T, e \in Sides : h.kid[x][e] = p /\ p # h.root => e = s
      /\ p = h.root => \A x \in T, e \in Sides : h.kid[x][e] # p
  <2>1. Repainted(h, r)
    BY <1>3, <1>4, PaintsAre DEF Reddened
  <2>2. s = SideOf(h, pp, p)
    BY <2>1 DEF SideOf, Repainted
  <2>3. p # h.root => pp \in T /\ \E e \in Sides : h.kid[pp][e] = p
    BY <1>1, ParentOf
  <2>4. \A x \in T, e \in Sides : h.kid[x][e] = p => x = pp /\ SideOf(h, x, p) = e /\ p # h.root
    BY <1>1, <1>3, OneParent, NodeFacts
  <2> HIDE DEF s, pp
  <2>5. p # h.root => pp \in T /\ h.kid[pp][s] = p /\ s \in Sides
    <3>1. SUFFICES ASSUME p # h.root  PROVE  pp \in T /\ h.kid[pp][s] = p /\ s \in Sides
      OBVIOUS
    <3>2. PICK e \in Sides : h.kid[pp][e] = p
      BY <2>3, <3>1
    <3> QED
      BY <2>2, <2>3, <2>4, <3>1, <3>2
  <2>6. \A x \in T, e \in Sides : h.kid[x][e] = p => e = s
    BY <2>2, <2>4
  <2> QED
    BY <2>4, <2>5, <2>6
<1> HIDE DEF o, r, pp, s, G
<1>9. /\ r \in Heap /\ r.root = h.root /\ r.parent = h.parent /\ r.kid = h.kid
      /\ \A x \in T \cup {NIL} : IsRed(r, x) <=> x = o \/ IsRed(h, x)
  <2>1. Reddened(h, r, o)
    BY <1>3, <1>4, PaintsAre DEF r
  <2> QED
    BY <2>1, <1>3 DEF Reddened, Repainted
<1>10. Shape(r, T, B)
  BY <1>9, SameShape
<1>11. Repairing(r, p, pp, T)
  <2>1. Apart(r, T, p, p)
    <3>1. ASSUME NEW y \in T, NEW e \in Sides, IsRed(r, y), IsRed(r, r.kid[y][e]), y # p
          PROVE  FALSE
      <4>1. h.kid[y][e] \in T \cup {NIL} /\ h.kid[y][e] # o /\ r.kid[y][e] = h.kid[y][e]
        BY <3>1, <1>7, <1>9
      <4>2. IsRed(h, h.kid[y][e]) /\ h.kid[y][e] # NIL
        BY <3>1, <4>1, <1>9 DEF IsRed
      <4>3. y # o
        BY <4>2, <1>6
      <4> QED
        BY <4>2, <4>3, <3>1, <1>1, <1>3, <1>9 DEF Apart
    <3> QED
      BY <3>1 DEF Apart
  <2>2. ~IsRed(r, r.root)
    BY <1>1, <1>3, <1>5, <1>9
  <2>3. p # r.root => pp \in T /\ r.kid[pp][SideOf(r, pp, p)] = p
    BY <1>8, <1>9 DEF s
  <2> QED
    BY <2>1, <2>2, <2>3, <1>1 DEF Repairing
<1>12. /\ H \in [T \cup {NIL} -> Nat] /\ H[NIL] = 0
       /\ \A x \in T, e \in Sides :
             H[x] = (IF IsRed(h, x) THEN 0 ELSE 1) + H[h.kid[x][e]]
                    + (IF x = p /\ e = d THEN 1 ELSE 0)
  BY DEF Heights, Weight
<1>13. H[p] = (IF IsRed(h, p) THEN 0 ELSE 1) + H[n] + 1 /\ H[p] \in Nat \ {0}
  <2>1. H[p] = (IF IsRed(h, p) THEN 0 ELSE 1) + H[n] + 1
    BY <1>1, <1>12
  <2> QED
    BY <2>1, <1>4
<1>14. /\ G \in [T \cup {NIL} -> Nat] /\ G[NIL] = 0 /\ G[o] = H[n]
       /\ G[p] = (IF IsRed(h, p) THEN 0 ELSE 1) + H[n] /\ H[p] = G[p] + 1
       /\ \A x \in T \cup {NIL} : x # o /\ x # p => G[x] = H[x]
  BY <1>1, <1>3, <1>4, <1>5, <1>12, <1>13 DEF G
<1>15. ASSUME NEW x \in T, NEW e \in Sides
       PROVE  G[x] = (IF IsRed(r, x) THEN 0 ELSE 1) + G[r.kid[x][e]]
                     + (IF x = q /\ e = s THEN 1 ELSE 0)
  <2>1. /\ r.kid[x][e] = h.kid[x][e] /\ h.kid[x][e] \in T \cup {NIL}
        /\ IsRed(r, x) <=> x = o \/ IsRed(h, x)
        /\ H[h.kid[x][e]] \in Nat
    BY <1>7, <1>9, <1>12
  <2>2. x = q /\ e = s <=> h.kid[x][e] = p
    BY <1>3, <1>8, <1>9
  <2>3. CASE x = p
    <3>1. h.kid[x][e] = n \/ h.kid[x][e] = o
      BY <2>3, <1>1, <1>2 DEF o
    <3>2. G[h.kid[x][e]] = H[n] /\ h.kid[x][e] # p
      BY <3>1, <2>1, <2>3, <1>5, <1>14
    <3> QED
      BY <3>2, <2>1, <2>2, <2>3, <1>4, <1>5, <1>14
  <2>4. CASE x = o
    <3>1. H[o] = 1 + H[h.kid[x][e]]
      BY <2>1, <2>4, <1>5, <1>6, <1>12
    <3>2. h.kid[x][e] # p
      <4>1. o \in B[o] /\ B[o] \subseteq B[p] /\ p \notin B[o]
        BY <1>1, <1>2, <1>4, NodeFacts DEF o
      <4>2. h.kid[x][e] = p => p \in B[o]
        BY <2>4, <1>1, <1>4, NodeFacts
      <4> QED
        BY <4>1, <4>2
    <3>3. h.kid[x][e] # o
      BY <2>4, <1>5, <1>7
    <3>4. G[h.kid[x][e]] = H[h.kid[x][e]]
      BY <3>2, <3>3, <2>1, <1>14
    <3> QED
      BY <3>1, <3>2, <3>4, <2>1, <2>2, <2>4, <1>4, <1>14
  <2>5. CASE x # p /\ x # o
    <3>1. G[x] = (IF IsRed(r, x) THEN 0 ELSE 1) + H[h.kid[x][e]]
      BY <2>1, <2>5, <1>12, <1>14
    <3>2. H[h.kid[x][e]] = G[h.kid[x][e]] + (IF h.kid[x][e] = p THEN 1 ELSE 0)
      BY <2>1, <2>5, <1>7, <1>14
    <3>3. G[h.kid[x][e]] \in Nat
      BY <2>1, <1>14
    <3> QED
      BY <3>1, <3>2, <3>3, <2>1, <2>2
  <2> QED
    BY <2>3, <2>4, <2>5
<1>16. Heights(r, T, G, q, s)
  BY <1>14, <1>15 DEF Heights, Weight
<1> QED
  BY <1>10, <1>11, <1>16 DEF r, o, pp, s

\* In heap r a red nephew that was near has become the sibling of n, with a red outer nephew.
TurnedOut(r, T, n, p, d, near) ==
    /\ Lacking(r, T, n, p, d)
    /\ \E C : Shape(r, T, C)
    /\ \E G : Heights(r, T, G, p, d)
    /\ r.kid[p][Opposite(d)] = near /\ ~IsRed(r, near)
    /\ IsRed(r, r.kid[near][Opposite(d)])

\* A red inner nephew is turned outwards, over the sibling.
LEMMA NephewTurnsOut ==
    ASSUME NEW h, NEW T, NEW B, Shape(h, T, B), NEW n, NEW p, NEW d, Lacking(h, T, n, p, d),
           NEW H, Heights(h, T, H, p, d), NEW o, o = h.kid[p][Opposite(d)],
           ~IsRed(h, o), IsRed(h, h.kid[o][d]), ~IsRed(h, h.kid[o][Opposite(d)])
    PROVE  LET near == h.kid[o][d]
               r == Rotate(Paint(Paint(h, near, "black"), o, "red"), o, Opposite(d))
           IN  TurnedOut(r, T, n, p, d, near)
<1> DEFINE near == h.kid[o][d]
           h1 == Paint(h, near, "black")
           h2 == Paint(h1, o, "red")
           r == Rotate(h2, o, Opposite(d))
           inner == h.kid[near][Opposite(d)]
           outer == h.kid[near][d]
           far == h.kid[o][Opposite(d)]
           G == [H EXCEPT ![o] = H[near], ![near] = H[o]]
<1>1. /\ p \in T /\ d \in Sides /\ h.kid[p][d] = n /\ ~IsRed(h, n)
      /\ Apart(h, T, NIL, NIL) /\ ~IsRed(h, h.root)
  BY DEF Lacking
<1>2. /\ Opposite(d) \in Sides /\ Opposite(d) # d /\ Opposite(Opposite(d)) = d
      /\ \A e \in Sides : e = d \/ e = Opposite(d)
  BY <1>1, OppositeIs
<1>3. /\ NIL \notin T /\ T \subseteq Keys /\ h \in Heap /\ T \subseteq Pointers /\ NIL \in Pointers
      /\ h.root \in T \cup {NIL}
  BY TreeAssumption DEF Shape, Pointers
<1>4. /\ o \in T /\ h.kid[p][Opposite(d)] = o /\ near \in T /\ IsRed(h, near) /\ ~IsRed(h, o)
      /\ ~IsRed(h, far) /\ near # o
  <2>1. o \in T
    BY SiblingThere
  <2>2. near \in T /\ near # o
    <3>1. near # NIL
      BY DEF IsRed
    <3>2. h.kid[o][d] \in T \cup {NIL}
      BY <2>1, <1>1, NodeFacts
    <3>3. h.kid[o][d] # o
      BY <2>1, <1>1, <3>1, OneParent
    <3> QED
      BY <3>1, <3>2, <3>3
  <2> QED
    BY <2>1, <2>2
<1>5. p # o /\ p # near /\ h.root # o
  <2>1. p # o /\ h.root # o
    BY <1>1, <1>2, <1>3, <1>4, OneParent
  <2>2. near \in B[o] /\ p \notin B[o]
    <3>1. B[near] \subseteq B[o] /\ near \in B[near] /\ p \notin B[h.kid[p][Opposite(d)]]
      <4> HIDE DEF near
      <4>0. o \in T /\ near \in T /\ p \in T /\ d \in Sides /\ Opposite(d) \in Sides
        BY <1>1, <1>2, <1>4
      <4>1. B[near] \subseteq B[o]
        <5>1. B[h.kid[o][d]] \subseteq B[o]
          BY <4>0, NodeWithin
        <5> QED
          BY <5>1 DEF near
      <4>2. near \in B[near]
        BY <4>0, NodeWithin
      <4>3. p \notin B[h.kid[p][Opposite(d)]]
        BY <4>0, NodeWithin
      <4> QED
        BY <4>1, <4>2, <4>3
    <3> QED
      BY <3>1, <1>4
  <2> QED
    BY <2>1, <2>2
<1>6. near = h.kid[o][d] /\ far = h.kid[o][Opposite(d)]
      /\ inner = h.kid[near][Opposite(d)] /\ outer = h.kid[near][d]
  OBVIOUS
<1> HIDE DEF near, h1, h2, r, inner, outer, far, G
<1>7. Blackened(h, h1, near)
  BY <1>3, <1>4, PaintsAre DEF h1
<1>8. Reddened(h1, h2, o)
  <2>1. h1 \in Heap
    BY <1>7 DEF Blackened, Repainted
  <2> QED
    BY <2>1, <1>3, <1>4, PaintsAre DEF h2
<1>9. /\ Repainted(h, h2)
      /\ \A x \in Pointers : IsRed(h2, x) <=> x = o \/ (x # near /\ IsRed(h, x))
  BY <1>4, <1>7, <1>8 DEF Blackened, Reddened, Repainted
<1>10. TurnsTo(h, h2, r, T, o, Opposite(d)) /\ \E C : Shape(r, T, C)
  <2>1. h.kid[o][Opposite(Opposite(d))] # NIL
    BY <1>2, <1>3, <1>4, <1>6
  <2> QED
    BY <2>1, <1>2, <1>4, <1>9, RotateTurns DEF r
<1>11. /\ Turning(h, r, T, o, Opposite(d)) /\ r.root = h.root
       /\ \A x \in T \cup {NIL} : IsRed(r, x) <=> x = o \/ (x # near /\ IsRed(h, x))
  BY <1>3, <1>5, <1>9, <1>10 DEF TurnsTo
<1>12. h.kid[o][Opposite(Opposite(d))] = near
  BY <1>2, <1>6
<1>t. TurningAt(h, r, T, o, Opposite(d), near, inner, outer, far)
  BY <1>2, <1>6, <1>11, <1>12, TurningNames
<1>13. Swapped(h, r, T, o, Opposite(d))
  BY <1>4, <1>11, <1>12 DEF Swapped
<1>14. Heights(r, T, G, p, d)
  BY <1>2, <1>3, <1>4, <1>5, <1>12, <1>13, SwapHeights DEF G
<1>15. /\ r.kid[o][Opposite(d)] = far /\ r.kid[o][d] = inner
       /\ r.kid[near][Opposite(d)] = o /\ r.kid[near][d] = outer
       /\ far \in T \cup {NIL} /\ inner \in T \cup {NIL} /\ outer \in T \cup {NIL}
       /\ far # o /\ far # near /\ inner # o /\ inner # near
  BY <1>t, <1>2 DEF TurningAt
<1>16. \A x \in T \ {o, near}, e \in Sides :
          /\ h.kid[x][e] \in T \cup {NIL} /\ h.kid[x][e] # near
          /\ r.kid[x][e] = IF h.kid[x][e] = o THEN near ELSE h.kid[x][e]
  BY <1>t DEF TurningAt
<1>17. ~IsRed(h, inner)
  BY <1>1, <1>2, <1>3, <1>4, <1>6 DEF Apart, IsRed
<1>18. ~IsRed(r, inner) /\ ~IsRed(r, far) /\ ~IsRed(r, near) /\ IsRed(r, o)
  BY <1>4, <1>11, <1>15, <1>17
<1>19. Apart(r, T, NIL, NIL)
  <2>1. ASSUME NEW y \in T, NEW e \in Sides, IsRed(r, y), IsRed(r, r.kid[y][e])
        PROVE  FALSE
    <3>1. CASE y = o
      BY <3>1, <2>1, <1>2, <1>15, <1>18
    <3>2. CASE y = near
      BY <3>2, <2>1, <1>18
    <3>3. CASE y # o /\ y # near
      <4>1. IsRed(h, y) /\ h.kid[y][e] # o /\ h.kid[y][e] \in T \cup {NIL}
        BY <3>3, <2>1, <1>11, <1>16, <1>18
      <4>2. IsRed(h, h.kid[y][e]) /\ h.kid[y][e] # NIL
        <5>1. r.kid[y][e] = h.kid[y][e]
          BY <4>1, <3>3, <1>16
        <5>2. IsRed(r, h.kid[y][e]) /\ h.kid[y][e] # near
          BY <5>1, <3>3, <2>1, <1>16
        <5>3. IsRed(h, h.kid[y][e])
          BY <5>2, <4>1, <1>11
        <5> QED
          BY <5>3 DEF IsRed
      <4> QED
        BY <4>1, <4>2, <1>1, <1>3 DEF Apart
    <3> QED
      BY <3>1, <3>2, <3>3
  <2> QED
    BY <2>1 DEF Apart
<1>20. r.kid[p][d] = n /\ r.kid[p][Opposite(d)] = near /\ ~IsRed(r, n)
  <2>1. n # o
    BY <1>1, <1>2, <1>3, <1>4, OneParent
  <2>2. n \in T \cup {NIL}
    BY <1>1, <1>5, <1>16
  <2> QED
    BY <2>1, <2>2, <1>1, <1>2, <1>4, <1>5, <1>11, <1>16
<1>21. ~IsRed(r, r.root)
  BY <1>1, <1>3, <1>5, <1>11
<1>22. Lacking(r, T, n, p, d)
  BY <1>1, <1>19, <1>20, <1>21 DEF Lacking
<1>23. TurnedOut(r, T, n, p, d, near)
  BY <1>10, <1>14, <1>15, <1>18, <1>20, <1>22 DEF TurnedOut
<1> QED
  BY <1>23 DEF r, h2, h1, near

\* A red outer nephew: the sibling takes the parent's place and colour, and no path
\* lacks anything any more.
LEMMA TurnPays ==
    ASSUME NEW h, NEW T, NEW B, Shape(h, T, B), NEW n, NEW p, NEW d, Lacking(h, T, n, p, d),
           NEW H, Heights(h, T, H, p, d), NEW o, o = h.kid[p][Opposite(d)],
           ~IsRed(h, o), IsRed(h, h.kid[o][Opposite(d)])
    PROVE  LET g == Paint(Paint(Paint(h, o, h.color[p]), p, "black"),
                          h.kid[o][Opposite(d)], "black")
               r == Rotate(g, p, d)
           IN  /\ \E C : Shape(r, T, C)
               /\ \E G : \A s : Heights(r, T, G, NIL, s)
               /\ Apart(r, T, NIL, NIL)
<1> DEFINE outer == h.kid[o][Opposite(d)]
           h1 == Paint(h, o, h.color[p])
           h2 == Paint(h1, p, "black")
           g == Paint(h2, outer, "black")
           r == Rotate(g, p, d)
           inner == h.kid[o][d]
           G == [H EXCEPT ![p] = H[o], ![o] = H[p], ![outer] = H[outer] + 1]
<1>1. /\ p \in T /\ d \in Sides /\ h.kid[p][d] = n /\ ~IsRed(h, n) /\ Apart(h, T, NIL, NIL)
  BY DEF Lacking
<1>2. /\ Opposite(d) \in Sides /\ Opposite(d) # d /\ Opposite(Opposite(d)) = d
      /\ \A e \in Sides : e = d \/ e = Opposite(d)
  BY <1>1, OppositeIs
<1>3. /\ NIL \notin T /\ T \subseteq Keys /\ h \in Heap /\ T \subseteq Pointers /\ NIL \in Pointers
  BY TreeAssumption DEF Shape, Pointers
<1>4. /\ o \in T /\ h.kid[p][Opposite(d)] = o /\ outer \in T /\ IsRed(h, outer) /\ ~IsRed(h, o)
  <2>1. o \in T
    BY SiblingThere
  <2> QED
    BY <2>1, <1>2, NodeFacts DEF IsRed
<1>5. outer = h.kid[o][Opposite(d)] /\ inner = h.kid[o][d]
  OBVIOUS
<1> HIDE DEF outer, h1, h2, g, r, inner, G
<1>6. ColoredLike(h, h1, o, p)
  BY <1>1, <1>3, <1>4, PaintsAre DEF h1
<1>7. Blackened(h1, h2, p)
  <2>1. h1 \in Heap
    BY <1>6 DEF ColoredLike, Repainted
  <2> QED
    BY <2>1, <1>1, <1>3, PaintsAre DEF h2
<1>8. Blackened(h2, g, outer)
  <2>1. h2 \in Heap
    BY <1>7 DEF Blackened, Repainted
  <2> QED
    BY <2>1, <1>3, <1>4, PaintsAre DEF g
<1>9. /\ Repainted(h, g)
      /\ \A x \in Pointers : IsRed(g, x) <=>
            x # outer /\ x # p /\ IsRed(h, IF x = o THEN p ELSE x)
  BY <1>6, <1>7, <1>8 DEF Blackened, ColoredLike, Repainted
<1>10. TurnsTo(h, g, r, T, p, d) /\ \E C : Shape(r, T, C)
  BY <1>1, <1>3, <1>4, <1>9, RotateTurns DEF r
<1>11. Turning(h, r, T, p, d)
  BY <1>10 DEF TurnsTo
<1>12. /\ r.kid[p][d] = n /\ r.kid[p][Opposite(d)] = inner
       /\ r.kid[o][d] = p /\ r.kid[o][Opposite(d)] = outer
       /\ p # o /\ outer # p /\ outer # o
  BY <1>1, <1>4, <1>5, <1>11 DEF Turning
<1>13. \A x \in T \ {p, o}, e \in Sides :
          /\ h.kid[x][e] \in T \cup {NIL} /\ h.kid[x][e] # o /\ h.kid[x][e] # outer
          /\ r.kid[x][e] = IF h.kid[x][e] = p THEN o ELSE h.kid[x][e]
  <2> DEFINE a == h.kid[p][d]
  <2>1. a = h.kid[p][d]
    OBVIOUS
  <2> HIDE DEF a
  <2>2. TurningAt(h, r, T, p, d, o, inner, outer, a)
    BY <2>1, <1>4, <1>5, <1>11, TurningNames
  <2>3. outer # NIL
    BY <1>3, <1>4
  <2>4. ASSUME NEW x \in T \ {p, o}, NEW e \in Sides
        PROVE  /\ h.kid[x][e] \in T \cup {NIL} /\ h.kid[x][e] # o
               /\ h.kid[x][e] # NIL => h.kid[x][e] # outer
               /\ r.kid[x][e] = IF h.kid[x][e] = p THEN o ELSE h.kid[x][e]
    BY <2>2 DEF TurningAt
  <2> QED
    BY <2>3, <2>4
<1>14. \A x \in T \cup {NIL} : IsRed(r, x) <=> \/ x = o /\ IsRed(h, p)
                                               \/ x # p /\ x # o /\ x # outer /\ IsRed(h, x)
  <2>1. \A x \in T \cup {NIL} : IsRed(r, x) <=> IsRed(g, x)
    BY <1>3, <1>10 DEF TurnsTo
  <2>2. ASSUME NEW x \in T \cup {NIL}
        PROVE  IsRed(g, x) <=> x # outer /\ x # p /\ IsRed(h, IF x = o THEN p ELSE x)
    BY <1>3, <1>9
  <2>3. ASSUME NEW x \in T \cup {NIL}
        PROVE  IsRed(g, x) <=> \/ x = o /\ IsRed(h, p)
                               \/ x # p /\ x # o /\ x # outer /\ IsRed(h, x)
    <3>1. CASE x = o
      BY <3>1, <2>2, <1>12
    <3>2. CASE x # o
      BY <3>2, <2>2
    <3> QED
      BY <3>1, <3>2
  <2> QED
    BY <2>1, <2>3
<1>15. Paid(h, r, T, p, d)
  <2>1. \A x \in T : IsRed(r, x) <=> \/ x = o /\ IsRed(h, p)
                                     \/ x # p /\ x # o /\ x # outer /\ IsRed(h, x)
    BY <1>14
  <2> QED
    BY <2>1, <1>4, <1>5, <1>11 DEF Paid
<1>16. ASSUME NEW s  PROVE  Heights(r, T, G, NIL, s)
  BY <1>1, <1>3, <1>4, <1>5, <1>15, PaidHeights DEF G
<1>17. Apart(r, T, NIL, NIL)
  <2>1. ASSUME NEW y \in T, NEW e \in Sides, IsRed(r, y), IsRed(r, r.kid[y][e])
        PROVE  FALSE
    <3>1. CASE y = p
      BY <3>1, <2>1, <1>14, <1>12
    <3>2. CASE y = o
      <4>1. r.kid[y][e] = p \/ r.kid[y][e] = outer
        BY <3>2, <1>2, <1>12
      <4> QED
        BY <4>1, <2>1, <1>1, <1>4, <1>12, <1>14
    <3>3. CASE y # p /\ y # o
      <4>1. IsRed(h, y) /\ h.kid[y][e] \in T \cup {NIL}
        BY <3>3, <2>1, <1>13, <1>14
      <4>2. IsRed(h, h.kid[y][e]) /\ h.kid[y][e] # NIL
        <5>1. CASE h.kid[y][e] = p
          <6>1. r.kid[y][e] = o
            BY <5>1, <3>3, <1>13
          <6> QED
            BY <6>1, <5>1, <2>1, <1>1, <1>3, <1>4, <1>12, <1>14
        <5>2. CASE h.kid[y][e] # p
          <6>1. r.kid[y][e] = h.kid[y][e] /\ h.kid[y][e] # o
            BY <5>2, <3>3, <1>13
          <6> QED
            BY <6>1, <4>1, <2>1, <1>14 DEF IsRed
        <5> QED
          BY <5>1, <5>2
      <4> QED
        BY <4>1, <4>2, <1>1, <1>3 DEF Apart
    <3> QED
      BY <3>1, <3>2, <3>3
  <2> QED
    BY <2>1 DEF Apart
<1> QED
  BY <1>10, <1>16, <1>17 DEF r, g, h2, h1, outer

-----------------------------------------------------------------------------
(* put: a new leaf                                                          *)

\* Heap g is heap h with n as a red leaf on side e of p, or at the root.
Linked(h, g, T, n, p, e) ==
    /\ g \in Heap /\ g.root = IF p = NIL THEN n ELSE h.root
    /\ \A x \in Keys : g.parent[x] = IF x = n THEN p ELSE h.parent[x]
    /\ \A d \in Sides : g.kid[n][d] = NIL
    /\ \A x \in T, d \in Sides : g.kid[x][d] = IF x = p /\ d = e THEN n ELSE h.kid[x][d]
    /\ \A x \in T \cup {NIL} : IsRed(g, x) <=> IsRed(h, x)
    /\ IsRed(g, n)

\* The assignments of rb_link_node together.
LEMMA LinkedIs ==
    ASSUME NEW h \in Heap, NEW T \in SUBSET Keys, NEW n \in Keys, n \notin T,
           NEW p \in T \cup {NIL}, NEW e \in Sides
    PROVE  LET h0 == [h EXCEPT !.color[n] = "red", !.kid[n] = Blank, !.parent[n] = p]
           IN  Linked(h, IF p = NIL THEN [h0 EXCEPT !.root = n] ELSE SetKid(h0, p, e, n), T, n, p, e)
<1> DEFINE h0 == [h EXCEPT !.color[n] = "red", !.kid[n] = Blank, !.parent[n] = p]
           g == IF p = NIL THEN [h0 EXCEPT !.root = n] ELSE SetKid(h0, p, e, n)
<1>1. NIL \notin Keys /\ p \in Pointers /\ n \in Pointers /\ NIL \in Pointers
  BY TreeAssumption DEF Pointers
<1>2. Blank \in [Sides -> Pointers] /\ \A d \in Sides : Blank[d] = NIL
  BY <1>1 DEF Blank, Sides
<1>3. /\ h0 \in Heap /\ h0.root = h.root
      /\ \A x \in Keys : h0.parent[x] = IF x = n THEN p ELSE h.parent[x]
      /\ \A x \in Keys : h0.kid[x] = IF x = n THEN Blank ELSE h.kid[x]
      /\ \A x \in Keys : h0.color[x] = IF x = n THEN "red" ELSE h.color[x]
  BY <1>1, <1>2 DEF Heap
<1> HIDE DEF h0
<1>4. /\ IsRed(h0, n)
      /\ \A x \in T \cup {NIL} : IsRed(h0, x) <=> IsRed(h, x)
  BY <1>1, <1>3 DEF IsRed
<1>5. CASE p = NIL
  <2>1. /\ g \in Heap /\ g.root = n /\ g.kid = h0.kid /\ g.parent = h0.parent
        /\ g.color = h0.color
    BY <1>1, <1>3, <1>5 DEF Heap
  <2> HIDE DEF g
  <2>2. \A x \in T : x # p
    BY <1>1, <1>5
  <2>3. \A x \in Keys : IsRed(g, x) <=> IsRed(h0, x)
    BY <2>1 DEF IsRed
  <2>4. ~IsRed(g, NIL) /\ ~IsRed(h0, NIL)
    BY DEF IsRed
  <2>5. \A x \in T, d \in Sides : g.kid[x][d] = h.kid[x][d]
    BY <2>1, <1>3
  <2> QED
    BY <2>1, <2>2, <2>3, <2>4, <2>5, <1>2, <1>3, <1>4, <1>5 DEF Linked, g, h0
<1>6. CASE p # NIL
  <2>1. KidSet(h0, g, p, e, n)
    BY <1>1, <1>3, <1>6, SetKidIs
  <2> HIDE DEF g
  <2>2. \A x \in T \cup {NIL, n} : IsRed(g, x) <=> IsRed(h0, x)
    BY <2>1 DEF IsRed, KidSet
  <2>3. p \in T /\ p # n
    BY <1>6
  <2>4. \A d \in Sides : g.kid[n][d] = NIL
    BY <2>1, <2>3, <1>2, <1>3 DEF KidSet
  <2>5. \A x \in T, d \in Sides : g.kid[x][d] = IF x = p /\ d = e THEN n ELSE h.kid[x][d]
    BY <2>1, <1>3 DEF KidSet
  <2>6. g \in Heap /\ g.root = h.root /\ g.parent = h0.parent
    BY <2>1, <1>3 DEF KidSet
  <2> QED
    BY <2>2, <2>4, <2>5, <2>6, <1>3, <1>4, <1>6 DEF Linked, g, h0
<1> QED
  BY <1>5, <1>6

\* A key that falls off the tree hangs where it belongs.
LEMMA LinkKeeps ==
    ASSUME NEW h, NEW T, NEW B, Shape(h, T, B), NEW H, NEW q, Heights(h, T, H, NIL, q),
           NEW n, NEW p, Searching(h, n, p, T, B), LinkFrom(h, n, p) = NIL,
           Apart(h, T, NIL, NIL), ~IsRed(h, h.root),
           NEW g, Linked(h, g, T, n, p, IF n < p THEN "left" ELSE "right")
    PROVE  /\ n \notin T /\ Inserting(g, n, T \cup {n})
           /\ \E C : Shape(g, T \cup {n}, C)
           /\ \E G : \A s : Heights(g, T \cup {n}, G, NIL, s)
<1> DEFINE e == IF n < p THEN "left" ELSE "right"
           U == T \cup {n}
           C == [x \in U \cup {NIL} |->
                    IF x = n THEN {n} ELSE IF p \in B[x] THEN B[x] \cup {n} ELSE B[x]]
           G == [x \in U \cup {NIL} |-> IF x = n THEN 0 ELSE H[x]]
<1>1. /\ NIL \notin T /\ NIL \notin Keys /\ T \subseteq Keys /\ IsFiniteSet(T)
      /\ B \in [T \cup {NIL} -> SUBSET T] /\ B[NIL] = {}
      /\ h.root \in T \cup {NIL} /\ B[h.root] = T
      /\ h.root # NIL => h.parent[h.root] = NIL
      /\ \A x \in Keys \ T : h.parent[x] = NIL
  BY TreeAssumption DEF Shape
<1>2. /\ n \in Keys /\ p \in T \cup {NIL} /\ p # n /\ n \notin T /\ e \in Sides
      /\ \A m \in T, d \in Sides : p \in B[h.kid[m][d]] => OnSide(n, m, d)
  BY <1>1 DEF Searching, Sides
<1>3. /\ p = NIL => h.root = NIL /\ T = {}
      /\ p # NIL => p \in T /\ h.kid[p][e] = NIL /\ OnSide(n, p, e)
  <2>1. p # NIL => OnSide(n, p, e)
    BY <1>1, <1>2, OnSideIs
  <2> QED
    BY <2>1, <1>1, <1>2 DEF LinkFrom
<1> HIDE DEF e
<1>4. Linked(h, g, T, n, p, e)
  BY DEF e
<1>5. /\ g \in Heap /\ g.root = IF p = NIL THEN n ELSE h.root
      /\ \A x \in Keys : g.parent[x] = IF x = n THEN p ELSE h.parent[x]
      /\ \A d \in Sides : g.kid[n][d] = NIL
      /\ \A x \in T, d \in Sides : g.kid[x][d] = IF x = p /\ d = e THEN n ELSE h.kid[x][d]
      /\ \A x \in T \cup {NIL} : IsRed(g, x) <=> IsRed(h, x)
      /\ IsRed(g, n)
  BY <1>4 DEF Linked
<1>6. ASSUME NEW x \in T, NEW d \in Sides
      PROVE  /\ h.kid[x][d] \in T \cup {NIL}
             /\ h.kid[x][d] # NIL => h.parent[h.kid[x][d]] = x
             /\ B[x] = {x} \cup B[h.kid[x][d]] \cup B[h.kid[x][Opposite(d)]]
             /\ \A k \in B[h.kid[x][d]] : OnSide(k, x, d)
             /\ x \notin B[h.kid[x][d]]
             /\ Opposite(d) \in Sides /\ Opposite(d) # d
  BY NodeFacts, OppositeIs
<1>7. /\ C \in [U \cup {NIL} -> SUBSET U] /\ C[NIL] = {} /\ C[n] = {n}
      /\ \A x \in T : C[x] = IF p \in B[x] THEN B[x] \cup {n} ELSE B[x]
  BY <1>1, <1>2
<1> HIDE DEF C, G
<1>8. ASSUME NEW x \in T, NEW d \in Sides
      PROVE  /\ g.kid[x][d] \in U \cup {NIL}
             /\ g.kid[x][d] # NIL => g.parent[g.kid[x][d]] = x
             /\ C[g.kid[x][d]] = IF p \in B[h.kid[x][d]] \/ (x = p /\ d = e)
                                 THEN B[h.kid[x][d]] \cup {n} ELSE B[h.kid[x][d]]
  <2>1. CASE x = p /\ d = e
    BY <2>1, <1>1, <1>2, <1>3, <1>5, <1>7
  <2>2. CASE ~(x = p /\ d = e)
    <3>1. g.kid[x][d] = h.kid[x][d] /\ h.kid[x][d] \in T \cup {NIL} /\ h.kid[x][d] # n
      BY <2>2, <1>1, <1>2, <1>5, <1>6
    <3> QED
      <4>1. C[g.kid[x][d]] = IF p \in B[h.kid[x][d]] THEN B[h.kid[x][d]] \cup {n}
                                                    ELSE B[h.kid[x][d]]
        BY <3>1, <1>1, <1>7
      <4>2. g.kid[x][d] # NIL => g.parent[g.kid[x][d]] = x
        BY <3>1, <1>1, <1>5, <1>6
      <4> QED
        BY <4>1, <4>2, <3>1, <2>2
  <2> QED
    BY <2>1, <2>2
<1>9. ASSUME NEW x \in T  PROVE  Node(g, U, C, x)
  <2>1. ASSUME NEW d \in Sides
        PROVE  C[x] = {x} \cup C[g.kid[x][d]] \cup C[g.kid[x][Opposite(d)]]
    <3>1. Opposite(d) \in Sides /\ (e = d \/ e = Opposite(d)) /\ Opposite(d) # d
      BY <1>2, OppositeIs
    <3>2. p \in B[x] <=> \/ x = p
                         \/ p \in B[h.kid[x][d]]
                         \/ p \in B[h.kid[x][Opposite(d)]]
      BY <1>6
    <3>3. CASE p \in B[x]
      <4>1. C[x] = B[x] \cup {n}
        BY <3>3, <1>7
      <4>2. C[g.kid[x][d]] \cup C[g.kid[x][Opposite(d)]]
               = B[h.kid[x][d]] \cup B[h.kid[x][Opposite(d)]] \cup {n}
        <5>1. \A f \in Sides : \/ C[g.kid[x][f]] = B[h.kid[x][f]] \cup {n}
                               \/ C[g.kid[x][f]] = B[h.kid[x][f]]
          BY <1>8
        <5>2. \E f \in {d, Opposite(d)} : C[g.kid[x][f]] = B[h.kid[x][f]] \cup {n}
          <6>1. CASE x = p
            BY <6>1, <3>1, <1>2, <1>8
          <6>2. CASE p \in B[h.kid[x][d]]
            BY <6>2, <1>8
          <6>3. CASE p \in B[h.kid[x][Opposite(d)]]
            BY <6>3, <3>1, <1>8
          <6> QED
            BY <6>1, <6>2, <6>3, <3>2, <3>3
        <5> QED
          BY <5>1, <5>2, <3>1
      <4> QED
        BY <4>1, <4>2, <1>6
    <3>4. CASE p \notin B[x]
      <4>1. C[x] = B[x]
        BY <3>4, <1>7
      <4>2. C[g.kid[x][d]] = B[h.kid[x][d]] /\ C[g.kid[x][Opposite(d)]] = B[h.kid[x][Opposite(d)]]
        <5>1. x # p /\ p \notin B[h.kid[x][d]] /\ p \notin B[h.kid[x][Opposite(d)]]
          BY <3>2, <3>4
        <5>2. ASSUME NEW f \in Sides, p \notin B[h.kid[x][f]]
              PROVE  C[g.kid[x][f]] = B[h.kid[x][f]]
          BY <5>1, <5>2, <1>8
        <5> QED
          BY <5>1, <5>2, <3>1
      <4> QED
        BY <4>1, <4>2, <1>6
    <3> QED
      BY <3>3, <3>4
  <2>2. ASSUME NEW d \in Sides, NEW k \in C[g.kid[x][d]]
        PROVE  OnSide(k, x, d)
    <3>1. CASE p \in B[h.kid[x][d]] \/ (x = p /\ d = e)
      <4>1. k \in B[h.kid[x][d]] \/ k = n
        <5>1. C[g.kid[x][d]] = B[h.kid[x][d]] \cup {n}
          BY <3>1, <1>8
        <5> QED
          BY <5>1
      <4>2. OnSide(n, x, d)
        BY <3>1, <1>1, <1>2, <1>3
      <4> QED
        BY <4>1, <4>2, <1>6
    <3>2. CASE ~(p \in B[h.kid[x][d]] \/ (x = p /\ d = e))
      <4>1. C[g.kid[x][d]] = B[h.kid[x][d]]
        BY <3>2, <1>8
      <4> QED
        BY <4>1, <1>6
    <3> QED
      BY <3>1, <3>2
  <2> QED
    BY <2>1, <2>2, <1>8 DEF Node
<1>10. Node(g, U, C, n)
  BY <1>5, <1>7, OppositeIs DEF Node
<1>11. Shape(g, U, C)
  <2>1. IsFiniteSet(U) /\ U \subseteq Keys
    BY <1>1, <1>2, FS_AddElement
  <2>2. g.root \in U /\ C[g.root] = U /\ g.parent[g.root] = NIL
    <3>1. CASE p = NIL
      BY <3>1, <1>2, <1>3, <1>5, <1>7
    <3>2. CASE p # NIL
      BY <3>2, <1>1, <1>2, <1>3, <1>5, <1>7
    <3> QED
      BY <3>1, <3>2
  <2>3. \A x \in Keys \ U : g.parent[x] = NIL
    BY <1>1, <1>5
  <2> QED
    BY <2>1, <2>2, <2>3, <1>5, <1>7, <1>9, <1>10 DEF Shape
<1>12. ASSUME NEW s  PROVE  Heights(g, U, G, NIL, s)
  <2>1. /\ H \in [T \cup {NIL} -> Nat] /\ H[NIL] = 0
        /\ \A x \in T, d \in Sides :
              H[x] = Weight(h, x) + H[h.kid[x][d]] + (IF x = NIL /\ d = q THEN 1 ELSE 0)
    BY DEF Heights
  <2>2. /\ G \in [U \cup {NIL} -> Nat] /\ G[NIL] = 0 /\ G[n] = 0
        /\ \A x \in T : G[x] = H[x]
    BY <2>1, <1>1, <1>2 DEF G
  <2>3. ASSUME NEW x \in T, NEW d \in Sides
        PROVE  G[x] = Weight(g, x) + G[g.kid[x][d]] + (IF x = NIL /\ d = s THEN 1 ELSE 0)
    <3>1. G[g.kid[x][d]] = H[h.kid[x][d]] /\ H[h.kid[x][d]] \in Nat
      BY <2>1, <2>2, <1>1, <1>2, <1>3, <1>5, <1>6
    <3>2. Weight(g, x) = Weight(h, x) /\ Weight(h, x) \in Nat
      BY <1>5 DEF Weight
    <3> QED
      BY <3>1, <3>2, <2>1, <2>2, <1>1
  <2>4. ASSUME NEW d \in Sides
        PROVE  G[n] = Weight(g, n) + G[g.kid[n][d]] + (IF n = NIL /\ d = s THEN 1 ELSE 0)
    BY <2>2, <1>1, <1>2, <1>5 DEF Weight
  <2> QED
    BY <2>2, <2>3, <2>4 DEF Heights
<1>13. Inserting(g, n, U)
  <2>1. ASSUME NEW y \in U, NEW d \in Sides, IsRed(g, y), IsRed(g, g.kid[y][d]), g.kid[y][d] # n
        PROVE  FALSE
    <3>1. y \in T
      BY <2>1, <1>5 DEF IsRed
    <3>2. g.kid[y][d] = h.kid[y][d] /\ h.kid[y][d] \in T \cup {NIL}
      BY <3>1, <2>1, <1>5, <1>6
    <3>3. IsRed(h, y) /\ IsRed(h, h.kid[y][d]) /\ h.kid[y][d] # NIL
      BY <3>1, <3>2, <2>1, <1>5 DEF IsRed
    <3> QED
      BY <3>1, <3>3, <1>1 DEF Apart
  <2>2. IsRed(g, g.root) => n = g.root
    BY <1>1, <1>3, <1>5
  <2> QED
    BY <2>1, <2>2, <1>5 DEF Inserting, Apart
<1> QED
  BY <1>2, <1>11, <1>12, <1>13

-----------------------------------------------------------------------------
(* rb_erase of a node without two kids                                      *)

\* The heap g is h without the fields of n.
Forgotten(h, g, n) ==
    /\ g \in Heap /\ g.root = h.root
    /\ \A x \in Keys : g.parent[x] = IF x = n THEN NIL ELSE h.parent[x]
    /\ \A x \in Keys \ {n} : g.kid[x] = h.kid[x] /\ g.color[x] = h.color[x]

\* The freed node has no parent and no kids; the others are as they were.
LEMMA ForgetIs ==
    ASSUME NEW h \in Heap, NEW n \in Keys  PROVE  Forgotten(h, Forget(h, n), n)
<1>1. Blank \in [Sides -> Pointers] /\ NIL \in Pointers
  BY DEF Blank, Sides, Pointers
<1> QED
  BY <1>1 DEF Forget, Heap, Forgotten

\* Heap g is heap h where the kid of n has taken its place.
Cut(h, g, T, n, child) ==
    /\ g \in Heap /\ g.root = IF h.root = n THEN child ELSE h.root
    /\ \A x \in Keys : g.parent[x] = IF x = n THEN NIL
                                     ELSE IF x = child THEN h.parent[n] ELSE h.parent[x]
    /\ \A x \in T \ {n}, e \in Sides :
          g.kid[x][e] = IF h.kid[x][e] = n THEN child ELSE h.kid[x][e]
    /\ \A x \in (T \ {n}) \cup {NIL} : IsRed(g, x) <=> IsRed(h, x)

\* rb_erase, for a node with one kid at most: the kid has taken its place.
LEMMA CutIs ==
    ASSUME NEW h, NEW T, NEW B, Shape(h, T, B), NEW n \in T, NEW d \in Sides
    PROVE  LET child == h.kid[n][d]
               p == h.parent[n]
           IN  Cut(h, Forget(Relink(SetParent(h, child, p), p, n, child), n), T, n, child)
<1> DEFINE child == h.kid[n][d]
           p == h.parent[n]
           h1 == SetParent(h, child, p)
           h2 == Relink(h1, p, n, child)
           g == Forget(h2, n)
           s == SideOf(h1, p, n)
<1>1. /\ h \in Heap /\ T \subseteq Keys /\ NIL \notin Keys /\ n \in Keys /\ n # NIL
      /\ child \in T \cup {NIL} /\ child \in Pointers /\ p \in Pointers
  <2>1. h \in Heap /\ T \subseteq Keys /\ NIL \notin Keys
    BY TreeAssumption DEF Shape
  <2>2. n \in Keys /\ n # NIL /\ child \in T \cup {NIL}
    BY NodeFacts
  <2>3. child \in Pointers /\ p \in Pointers
    BY <2>1, <2>2, HeapFields
  <2> QED
    BY <2>1, <2>2, <2>3
<1>2. /\ n = h.root <=> p = NIL
      /\ n # h.root => p \in T /\ \E e \in Sides : h.kid[p][e] = n
      /\ \A x \in T, e \in Sides : h.kid[x][e] = n => x = p
      /\ p \in T => \A e \in Sides : h.kid[p][e] = n => SideOf(h, p, n) = e
      /\ child # n
  BY <1>1, ParentOf, NodeFacts, OneParent
<1> HIDE DEF child, p, h1, h2, g, s
<1>3. ParentSet(h, h1, child, p)
  BY <1>1, SetParentIs DEF h1
<1>4. Relinked(h1, h2, p, s, child)
  <2>1. h1 \in Heap
    BY <1>3 DEF ParentSet
  <2> QED
    BY <2>1, <1>1, RelinkIs DEF h2, s
<1>5. Forgotten(h2, g, n)
  <2>1. h2 \in Heap
    BY <1>4 DEF Relinked
  <2> QED
    BY <2>1, <1>1, ForgetIs DEF g
<1>6. s = SideOf(h, p, n)
  BY <1>3 DEF SideOf, s, ParentSet
<1>7. g \in Heap /\ g.root = IF h.root = n THEN child ELSE h.root
  BY <1>2, <1>3, <1>4, <1>5 DEF ParentSet, Relinked, Forgotten
<1>8. ASSUME NEW x \in Keys
      PROVE  g.parent[x] = IF x = n THEN NIL ELSE IF x = child THEN p ELSE h.parent[x]
  BY <1>3, <1>4, <1>5 DEF ParentSet, Relinked, Forgotten
<1>9. ASSUME NEW x \in T \ {n}, NEW e \in Sides
      PROVE  g.kid[x][e] = IF h.kid[x][e] = n THEN child ELSE h.kid[x][e]
  <2>1. g.kid[x][e] = IF x = p /\ e = s THEN child ELSE h.kid[x][e]
    BY <1>1, <1>3, <1>4, <1>5 DEF ParentSet, Relinked, Forgotten
  <2>2. x = p /\ e = s <=> h.kid[x][e] = n
    BY <1>1, <1>2, <1>6
  <2> QED
    BY <2>1, <2>2
<1>10. ASSUME NEW x \in (T \ {n}) \cup {NIL}  PROVE  IsRed(g, x) <=> IsRed(h, x)
  BY <1>1, <1>3, <1>4, <1>5 DEF ParentSet, Relinked, Forgotten, IsRed
<1>11. Cut(h, g, T, n, child)
  BY <1>7, <1>8, <1>9, <1>10 DEF Cut, p
<1> QED
  BY <1>11 DEF g, h2, h1, child, p

\* The subtrees lose n, and nothing else.
LEMMA CutShape ==
    ASSUME NEW h, NEW T, NEW B, Shape(h, T, B), NEW n \in T, NEW d \in Sides, h.kid[n][d] = NIL,
           NEW g, Cut(h, g, T, n, h.kid[n][Opposite(d)])
    PROVE  Shape(g, T \ {n}, [x \in (T \ {n}) \cup {NIL} |-> B[x] \ {n}])
<1> DEFINE child == h.kid[n][Opposite(d)]
           U == T \ {n}
           C == [x \in U \cup {NIL} |-> B[x] \ {n}]
<1>1. /\ NIL \notin T /\ NIL \notin Keys /\ T \subseteq Keys /\ IsFiniteSet(T)
      /\ B \in [T \cup {NIL} -> SUBSET T] /\ B[NIL] = {}
      /\ h.root \in T \cup {NIL} /\ B[h.root] = T
      /\ h.root # NIL => h.parent[h.root] = NIL
      /\ \A x \in Keys \ T : h.parent[x] = NIL
  BY TreeAssumption DEF Shape
<1>2. /\ child \in U \cup {NIL} /\ B[n] = {n} \cup B[child] /\ n \notin B[child]
      /\ (child # NIL => h.parent[child] = n)
  <2>1. Opposite(d) \in Sides
    BY OppositeIs
  <2>2. child \in T \cup {NIL} /\ n \notin B[child] /\ (child # NIL => h.parent[child] = n)
        /\ child # n
    BY <2>1, <1>1, NodeFacts, OneParent
  <2>3. B[n] = {n} \cup B[h.kid[n][d]] \cup B[child]
    BY NodeFacts
  <2> QED
    BY <2>2, <2>3, <1>1
<1>3. /\ g \in Heap /\ g.root = IF h.root = n THEN child ELSE h.root
      /\ \A x \in Keys : g.parent[x] = IF x = n THEN NIL
                                       ELSE IF x = child THEN h.parent[n] ELSE h.parent[x]
      /\ \A x \in T \ {n}, e \in Sides :
            g.kid[x][e] = IF h.kid[x][e] = n THEN child ELSE h.kid[x][e]
  BY DEF Cut
<1> HIDE DEF child, C
<1>4. /\ C \in [U \cup {NIL} -> SUBSET U] /\ C[NIL] = {}
      /\ \A x \in U \cup {NIL} : C[x] = B[x] \ {n}
      /\ C[child] = B[n] \ {n}
  BY <1>1, <1>2 DEF C
<1>5. ASSUME NEW x \in U  PROVE  Node(g, U, C, x)
  <2>1. ASSUME NEW e \in Sides
        PROVE  /\ g.kid[x][e] \in U \cup {NIL}
               /\ g.kid[x][e] # NIL => g.parent[g.kid[x][e]] = x
               /\ C[g.kid[x][e]] = B[h.kid[x][e]] \ {n}
    <3>1. h.kid[x][e] \in T \cup {NIL} /\ (h.kid[x][e] # NIL => h.parent[h.kid[x][e]] = x)
      BY NodeFacts
    <3>2. CASE h.kid[x][e] = n
      BY <3>1, <3>2, <1>1, <1>2, <1>3, <1>4
    <3>3. CASE h.kid[x][e] # n
      <4>1. g.kid[x][e] = h.kid[x][e] /\ (h.kid[x][e] # NIL => h.kid[x][e] # child)
        BY <3>1, <3>3, <1>2, <1>3
      <4> QED
        BY <4>1, <3>1, <3>3, <1>1, <1>3, <1>4
    <3> QED
      BY <3>2, <3>3
  <2>2. ASSUME NEW e \in Sides
        PROVE  /\ C[x] = {x} \cup C[g.kid[x][e]] \cup C[g.kid[x][Opposite(e)]]
               /\ \A k \in C[g.kid[x][e]] : OnSide(k, x, e)
    <3>1. Opposite(e) \in Sides
      BY OppositeIs
    <3>2. /\ B[x] = {x} \cup B[h.kid[x][e]] \cup B[h.kid[x][Opposite(e)]]
          /\ \A k \in B[h.kid[x][e]] : OnSide(k, x, e)
      BY NodeFacts
    <3>3. C[g.kid[x][e]] = B[h.kid[x][e]] \ {n}
          /\ C[g.kid[x][Opposite(e)]] = B[h.kid[x][Opposite(e)]] \ {n}
      BY <3>1, <2>1
    <3> QED
      BY <3>2, <3>3, <1>4
  <2> QED
    BY <2>1, <2>2 DEF Node
<1>6. g.root \in U \cup {NIL} /\ C[g.root] = U /\ (g.root # NIL => g.parent[g.root] = NIL)
  <2>1. CASE h.root = n
    BY <2>1, <1>1, <1>2, <1>3, <1>4
  <2>2. CASE h.root # n
    <3>1. h.root # child \/ child = NIL
      <4>1. n # NIL
        BY <1>1
      <4> QED
        BY <4>1, <1>1, <1>2
    <3> QED
      BY <2>2, <3>1, <1>1, <1>3, <1>4
  <2> QED
    BY <2>1, <2>2
<1>7. IsFiniteSet(U) /\ U \subseteq Keys /\ \A x \in Keys \ U : g.parent[x] = NIL
  <2>1. IsFiniteSet(U)
    BY <1>1, FS_Subset
  <2>2. \A x \in Keys \ U : g.parent[x] = NIL
    BY <1>1, <1>2, <1>3
  <2> QED
    BY <2>1, <2>2, <1>1
<1>8. Shape(g, U, C)
  BY <1>3, <1>4, <1>5, <1>6, <1>7 DEF Shape
<1> QED
  BY <1>8 DEF C

\* The heap g is h without n, its only kid in its place: where n was red nothing is missing;
\* where it was black, the paths through that kid lack a black node.
CutKept(h, g, U, n, child) ==
    /\ IsRed(h, n) => /\ Apart(g, U, NIL, NIL) /\ ~IsRed(g, g.root)
                      /\ \E G : \A s : Heights(g, U, G, NIL, s)
    /\ ~IsRed(h, n) => /\ Repairing(g, child, h.parent[n], U)
                       /\ \E G : Heights(g, U, G, IF child # g.root THEN h.parent[n] ELSE NIL,
                                         SideOf(g, h.parent[n], child))

\* So it is where a node with one kid at most is cut out.
LEMMA CutKeeps ==
    ASSUME NEW h, NEW T, NEW B, Shape(h, T, B), NEW n \in T, NEW d \in Sides, h.kid[n][d] = NIL,
           NEW H, NEW q, Heights(h, T, H, NIL, q), Apart(h, T, NIL, NIL), ~IsRed(h, h.root),
           NEW child, child = h.kid[n][Opposite(d)],
           NEW g, Cut(h, g, T, n, child)
    PROVE  CutKept(h, g, T \ {n}, n, child)
<1> DEFINE p == h.parent[n]
           U == T \ {n}
           G == [x \in U \cup {NIL} |-> H[x]]
<1>1. /\ NIL \notin T /\ T \subseteq Keys /\ h.root \in T \cup {NIL}
      /\ h.root # NIL => h.parent[h.root] = NIL
  BY TreeAssumption DEF Shape
<1>2. /\ child \in U \cup {NIL} /\ (child # NIL => h.parent[child] = n)
      /\ Opposite(d) \in Sides /\ child = h.kid[n][Opposite(d)]
  <2>1. Opposite(d) \in Sides
    BY OppositeIs
  <2>2. child \in T \cup {NIL} /\ (child # NIL => h.parent[child] = n) /\ child # n
    BY <2>1, <1>1, NodeFacts, OneParent
  <2> QED
    BY <2>1, <2>2
<1>3. /\ g.root = IF h.root = n THEN child ELSE h.root
      /\ \A x \in U, e \in Sides :
            g.kid[x][e] = IF h.kid[x][e] = n THEN child ELSE h.kid[x][e]
      /\ \A x \in U \cup {NIL} : IsRed(g, x) <=> IsRed(h, x)
  BY DEF Cut
<1>4. /\ n = h.root => \A x \in T, e \in Sides : h.kid[x][e] # n
      /\ n # h.root => p \in U /\ \E e \in Sides : h.kid[p][e] = n
      /\ \A x \in T, e \in Sides : h.kid[x][e] = n => x = p
      /\ p \in T => \A e, f \in Sides : h.kid[p][e] = n /\ h.kid[p][f] = n => e = f
      /\ \A x \in T, e \in Sides : h.kid[x][e] \in T \cup {NIL}
  <2>1. n # h.root => p \in T /\ \E e \in Sides : h.kid[p][e] = n
    BY ParentOf
  <2>2. \A x \in T, e \in Sides : h.kid[x][e] = n => x = p /\ n # h.root /\ x # n
    BY <1>1, OneParent, NodeFacts
  <2>3. ASSUME p \in T, NEW e \in Sides, NEW f \in Sides, h.kid[p][e] = n, h.kid[p][f] = n
        PROVE  e = f
    BY <2>3, <1>1, OneParent
  <2>4. \A x \in T, e \in Sides : h.kid[x][e] \in T \cup {NIL}
    BY NodeFacts
  <2> QED
    BY <2>1, <2>2, <2>3, <2>4
<1>5. /\ H \in [T \cup {NIL} -> Nat] /\ H[NIL] = 0
      /\ \A x \in T, e \in Sides : H[x] = (IF IsRed(h, x) THEN 0 ELSE 1) + H[h.kid[x][e]]
  <2>1. ASSUME NEW x \in T, NEW e \in Sides
        PROVE  H[x] = (IF IsRed(h, x) THEN 0 ELSE 1) + H[h.kid[x][e]]
    <3>1. x # NIL /\ H[h.kid[x][e]] \in Nat
      BY <1>1, <1>4 DEF Heights
    <3> QED
      BY <3>1 DEF Heights, Weight
  <2> QED
    BY <2>1 DEF Heights
<1>6. H[n] = (IF IsRed(h, n) THEN 0 ELSE 1) + H[child]
  BY <1>2, <1>5
<1> HIDE DEF p, G
<1>7. /\ G \in [U \cup {NIL} -> Nat] /\ G[NIL] = 0
      /\ \A x \in U \cup {NIL} : G[x] = H[x] /\ G[x] \in Nat
  BY <1>5 DEF G
<1>8. ASSUME NEW y \in U, NEW e \in Sides, IsRed(g, y), IsRed(g, g.kid[y][e])
      PROVE  g.kid[y][e] = child /\ child # NIL /\ h.kid[y][e] = n
  <2>1. CASE h.kid[y][e] = n
    BY <2>1, <1>3, <1>8 DEF IsRed
  <2>2. CASE h.kid[y][e] # n
    <3>1. IsRed(h, y) /\ IsRed(h, h.kid[y][e]) /\ h.kid[y][e] # NIL
      BY <2>2, <1>3, <1>4, <1>8 DEF IsRed
    <3> QED
      BY <3>1, <1>1 DEF Apart
  <2> QED
    BY <2>1, <2>2
<1>9. ASSUME NEW x \in U, NEW e \in Sides
      PROVE  H[x] = (IF IsRed(g, x) THEN 0 ELSE 1) + G[g.kid[x][e]]
                    + (IF h.kid[x][e] = n /\ ~IsRed(h, n) THEN 1 ELSE 0)
  <2>1. H[x] = (IF IsRed(g, x) THEN 0 ELSE 1) + H[h.kid[x][e]]
    BY <1>3, <1>5
  <2>2. CASE h.kid[x][e] = n
    BY <2>1, <2>2, <1>2, <1>3, <1>6, <1>7
  <2>3. CASE h.kid[x][e] # n
    <3>1. G[g.kid[x][e]] = H[h.kid[x][e]]
      BY <2>3, <1>3, <1>4, <1>7
    <3>2. H[h.kid[x][e]] \in Nat
      BY <1>4, <1>5
    <3> QED
      BY <2>1, <2>3, <3>1, <3>2
  <2> QED
    BY <2>2, <2>3
<1>10. ASSUME IsRed(h, n)
       PROVE  /\ Apart(g, U, NIL, NIL) /\ ~IsRed(g, g.root)
              /\ \A s : Heights(g, U, G, NIL, s)
  <2>1. n # h.root /\ ~IsRed(h, child)
    BY <1>1, <1>2, <1>10 DEF Apart, IsRed
  <2>2. Apart(g, U, NIL, NIL)
    BY <2>1, <1>2, <1>3, <1>8 DEF Apart
  <2>3. ~IsRed(g, g.root)
    BY <2>1, <1>1, <1>3
  <2>4. ASSUME NEW x \in U, NEW e \in Sides
        PROVE  G[x] = Weight(g, x) + G[g.kid[x][e]] + 0 /\ x # NIL
    BY <1>1, <1>7, <1>9, <1>10 DEF Weight
  <2>5. ASSUME NEW s  PROVE  Heights(g, U, G, NIL, s)
    <3>1. \A x \in U, e \in Sides :
             G[x] = Weight(g, x) + G[g.kid[x][e]] + (IF x = NIL /\ e = s THEN 1 ELSE 0)
      <4>1. ASSUME NEW x \in U, NEW e \in Sides
            PROVE  G[x] = Weight(g, x) + G[g.kid[x][e]] + (IF x = NIL /\ e = s THEN 1 ELSE 0)
        <5>1. (IF x = NIL /\ e = s THEN 1 ELSE 0) = 0 /\ G[x] = Weight(g, x) + G[g.kid[x][e]] + 0
          BY <2>4
        <5> QED
          BY <5>1, Zenon
      <4> QED
        BY <4>1, Zenon
    <3> QED
      BY <3>1, <1>7, Zenon DEF Heights
  <2> QED
    BY <2>2, <2>3, <2>5
<1>11. ASSUME ~IsRed(h, n)
       PROVE  /\ Repairing(g, child, p, U)
              /\ Heights(g, U, G, IF child # g.root THEN p ELSE NIL, SideOf(g, p, child))
  <2> DEFINE s == SideOf(g, p, child)
  <2>1. ASSUME n # h.root  PROVE  /\ g.kid[p][s] = child /\ h.kid[p][s] = n /\ child # g.root
                                  /\ p \in U /\ s \in Sides
    <3>1. p \in U /\ g.root = h.root /\ h.root # NIL
      <4>1. p \in U
        BY <2>1, <1>4
      <4>2. g.root = h.root
        BY <2>1, <1>3
      <4>3. h.root # NIL
        BY DEF Shape
      <4> QED
        BY <4>1, <4>2, <4>3
    <3>2. PICK e \in Sides : h.kid[p][e] = n
      BY <2>1, <1>4
    <3>3. g.kid[p][e] = child
      BY <3>1, <3>2, <1>3
    <3>4. g.kid[p][Opposite(e)] # child
      <4>1. Opposite(e) \in Sides /\ h.kid[p][Opposite(e)] # n
        BY <3>1, <3>2, <1>4, OppositeIs
      <4>2. g.kid[p][Opposite(e)] = h.kid[p][Opposite(e)] /\ h.kid[p][Opposite(e)] \in U \cup {NIL}
        BY <4>1, <3>1, <1>3, <1>4
      <4>3. CASE child = NIL
        <5>1. H[n] = 1
          BY <4>3, <1>5, <1>6, <1>11
        <5>2. H[p] = (IF IsRed(h, p) THEN 0 ELSE 1) + 1
              /\ H[p] = (IF IsRed(h, p) THEN 0 ELSE 1) + H[h.kid[p][Opposite(e)]]
          BY <5>1, <3>1, <3>2, <4>1, <1>5
        <5>3. h.kid[p][Opposite(e)] # NIL
          BY <5>2, <1>5
        <5> QED
          BY <5>3, <4>2, <4>3
      <4>4. CASE child # NIL
        <5>1. h.kid[p][Opposite(e)] = child => h.parent[child] = p
          BY <4>1, <4>4, <3>1, NodeFacts
        <5> QED
          BY <5>1, <4>2, <4>4, <3>1, <1>2
      <4> QED
        BY <4>3, <4>4
    <3>5. s = e
      BY <3>3, <3>4, OppositeIs DEF SideOf, Sides
    <3>6. child # g.root
      BY <3>1, <1>1, <1>2
    <3> QED
      BY <3>1, <3>2, <3>3, <3>5, <3>6
  <2>2. n = h.root => child = g.root
    BY <1>3
  <2>3. Repairing(g, child, p, U)
    <3>1. Apart(g, U, child, child)
      BY <1>8 DEF Apart
    <3>2. IsRed(g, g.root) => child = g.root
      BY <1>1, <1>3
    <3> QED
      BY <3>1, <3>2, <2>1, <2>2, <1>2 DEF Repairing
  <2> DEFINE debtor == IF child # g.root THEN p ELSE NIL
  <2>4. ASSUME NEW x \in U, NEW e \in Sides
        PROVE  G[x] = Weight(g, x) + G[g.kid[x][e]] + (IF x = debtor /\ e = s THEN 1 ELSE 0)
    <3>1. x = debtor /\ e = s <=> h.kid[x][e] = n
      <4>1. CASE n = h.root
        BY <4>1, <2>2, <1>1, <1>4
      <4>2. CASE n # h.root
        <5> HIDE DEF s
        <5> QED
          BY <4>2, <2>1, <1>4
      <4> QED
        BY <4>1, <4>2
    <3> HIDE DEF debtor, s
    <3> QED
      BY <3>1, <1>7, <1>9, <1>11 DEF Weight
  <2>5. Heights(g, U, G, debtor, s)
    BY <2>4, <1>7 DEF Heights
  <2> QED
    BY <2>3, <2>5
<1> QED
  BY <1>10, <1>11 DEF p, CutKept

-----------------------------------------------------------------------------
(* rb_erase of a node with two kids                                         *)

\* The successor s of n hangs below its right kid: it is that kid itself, or a left kid.
NextAfter(h, T, B, n, s, p, child) ==
    /\ n \in T /\ s \in T /\ n # s
    /\ \A e \in Sides : h.kid[n][e] \in T /\ h.kid[n][e] # n /\ h.parent[h.kid[n][e]] = n
    /\ h.kid[n]["left"] # h.kid[n]["right"] /\ h.kid[n]["left"] # s
    /\ p \in T /\ p # s /\ p # h.kid[n]["left"]
    /\ p = n <=> s = h.kid[n]["right"]
    /\ p # n => h.kid[p]["left"] = s
    /\ \A x \in T, e \in Sides :
          h.kid[x][e] = s <=> x = p /\ e = IF p = n THEN "right" ELSE "left"
    /\ child \in T \cup {NIL} /\ child # n /\ child # s
    /\ \A e \in Sides : child # h.kid[n][e]
    /\ child # NIL => h.parent[child] = s
    /\ s # h.root
    /\ s \in B[n] /\ B[s] = {s} \cup B[child] /\ n \notin B[child]
    /\ \A k \in B[child] : k > s
    /\ n < s /\ \A k \in B[h.kid[n]["left"]] : k < s
    /\ \A k \in B[h.kid[n]["right"]] : k = s \/ k > s

\* Where the search for the successor ends, there is the least key that is larger, with no
\* kid on its left.
LEMMA NextAfterIs ==
    ASSUME NEW h, NEW T, NEW B, Shape(h, T, B), NEW n, NEW s, Succeeding(h, s, n, T, B),
           h.kid[s]["left"] = NIL
    PROVE  NextAfter(h, T, B, n, s, h.parent[s], h.kid[s]["right"])
<1> DEFINE p == h.parent[s]
           child == h.kid[s]["right"]
           L == h.kid[n]["left"]
           R == h.kid[n]["right"]
<1>1. /\ NIL \notin T /\ T \subseteq Keys /\ T \subseteq Int /\ B[NIL] = {}
      /\ "left" \in Sides /\ "right" \in Sides /\ Opposite("right") = "left"
      /\ n \in T /\ h.root \in T \cup {NIL} /\ \A e \in Sides : e = "left" \/ e = "right"
  BY TreeAssumption, OppositeIs DEF Shape, Succeeding, Sides
<1>2. /\ \A e \in Sides : h.kid[n][e] # NIL
      /\ s \in B[R] /\ \A k \in B[R] : k \in B[s] \/ k > s
  BY <1>1 DEF Succeeding
<1>3. ASSUME NEW e \in Sides
      PROVE  h.kid[n][e] \in T /\ h.kid[n][e] # n /\ h.parent[h.kid[n][e]] = n
             /\ h.kid[n][e] \in B[h.kid[n][e]]
  BY <1>1, <1>2, NodeFacts, OneParent
<1>4. L \in T /\ R \in T /\ L \in B[L] /\ R \in B[R]
  BY <1>1, <1>3
<1>5. /\ B[R] \cap B[L] = {} /\ B[R] \subseteq B[n] /\ n \notin B[R] /\ n \notin B[L]
      /\ \A k \in B[R] : OnSide(k, n, "right")
      /\ \A k \in B[L] : OnSide(k, n, "left")
  <2>1. ASSUME NEW e \in Sides
        PROVE  /\ B[h.kid[n][e]] \cap B[h.kid[n][Opposite(e)]] = {}
               /\ B[h.kid[n][e]] \subseteq B[n] /\ n \notin B[h.kid[n][e]]
               /\ \A k \in B[h.kid[n][e]] : OnSide(k, n, e)
    BY <1>1, NodeFacts
  <2> QED
    BY <2>1, <1>1
<1>6. s \in T /\ s # n /\ s # L /\ B[s] \subseteq B[R] /\ s \in B[n] /\ s \in B[s]
  <2>1. s \in T /\ B[s] \subseteq B[R]
    BY <1>2, <1>4, SubtreeWithin
  <2>2. s # n /\ s # L /\ s \in B[n]
    BY <1>2, <1>4, <1>5
  <2> QED
    BY <2>1, <2>2, <1>1, NodeFacts
<1>7. /\ child \in T \cup {NIL} /\ child # s /\ (child # NIL => h.parent[child] = s)
      /\ B[s] = {s} \cup B[child] /\ \A k \in B[child] : k > s
  <2>1. /\ child \in T \cup {NIL} /\ s \notin B[child]
        /\ (child # NIL => h.parent[child] = s /\ child \in B[child])
        /\ B[s] = {s} \cup B[child] \cup B[h.kid[s][Opposite("right")]]
        /\ \A k \in B[child] : OnSide(k, s, "right")
    BY <1>1, <1>6, NodeFacts
  <2>2. \A k \in B[child] : k > s
    <3>1. B[child] \subseteq Keys /\ s \in Keys
      BY <1>1, <1>6, <2>1, NodeFacts
    <3> QED
      BY <3>1, <2>1, OnSideIs
  <2>3. child # s
    BY <2>1, <1>1, <1>6
  <2>4. B[h.kid[s][Opposite("right")]] = {}
    BY <1>1
  <2> QED
    BY <2>1, <2>2, <2>3, <2>4
<1>8. child # n /\ n \notin B[child] /\ \A e \in Sides : child # h.kid[n][e]
  <2>1. n \notin B[child]
    BY <1>5, <1>6, <1>7
  <2>2. child # n
    BY <1>1, <2>1, NodeFacts
  <2> QED
    BY <2>1, <2>2, <1>1, <1>3, <1>6, <1>7
<1>9. n \in Int /\ s \in Int /\ B[R] \subseteq Keys /\ B[L] \subseteq Keys
  BY <1>1, <1>4, <1>6, NodeFacts
<1>10. /\ n < s /\ \A k \in B[L] : k < s
       /\ \A k \in B[R] : k = s \/ k > s
  <2>1. OnSide(s, n, "right") /\ n \in Keys /\ s \in Keys
    BY <1>1, <1>2, <1>5, <1>6
  <2>2. n < s
    BY <2>1, OnSideIs, <1>9
  <2>3. ASSUME NEW k \in B[L]  PROVE  k < s
    <3>1. OnSide(k, n, "left") /\ k \in Keys /\ k \in Int
      BY <1>5, <1>9, TreeAssumption
    <3>2. k < n
      BY <3>1, <2>1, OnSideIs
    <3> QED
      BY <3>1, <3>2, <2>2, <1>9
  <2>4. \A k \in B[R] : k = s \/ k > s
    BY <1>2, <1>7
  <2> QED
    BY <2>2, <2>3, <2>4
<1>11. /\ p \in T /\ p # s /\ p # L /\ s # h.root
       /\ \E e \in Sides : h.kid[p][e] = s
       /\ p # n => p \in B[R]
       /\ p = n <=> s = R
  <2>1. CASE s = R
    <3>1. p = n
      BY <2>1, <1>1, <1>3
    <3>2. s # h.root
      BY <3>1, <1>1, <1>6, ParentOf
    <3> QED
      BY <2>1, <3>1, <3>2, <1>1, <1>4, <1>5, <1>6
  <2>2. CASE s # R
    <3>1. p \in B[R] /\ p \in T /\ \E e \in Sides : h.kid[p][e] = s
      BY <2>2, <1>2, <1>4, ParentWithin
    <3>2. PICK e \in Sides : h.kid[p][e] = s
      BY <3>1
    <3>3. s # h.root /\ s # p
      <4>1. h.kid[p][e] # NIL
        BY <3>2, <1>1, <1>6
      <4> QED
        BY <3>1, <3>2, <4>1, OneParent
    <3>4. p # n /\ p # L
      BY <3>1, <1>4, <1>5
    <3> QED
      BY <2>2, <3>1, <3>3, <3>4
  <2> QED
    BY <2>1, <2>2
<1>12. p # n => h.kid[p]["left"] = s
  <2>1. SUFFICES ASSUME p # n  PROVE  h.kid[p]["left"] = s
    OBVIOUS
  <2>2. PICK e \in Sides : h.kid[p][e] = s
    BY <1>11
  <2>3. p > s /\ p \in Keys /\ s \in Keys
    BY <2>1, <1>1, <1>6, <1>10, <1>11
  <2>4. OnSide(s, p, e)
    BY <2>2, <1>6, <1>11, NodeFacts
  <2>5. e # "right"
    <3>1. ~(s > p)
      BY <2>3, TreeAssumption
    <3> QED
      BY <3>1, <2>3, <2>4, OnSideIs
  <2> QED
    BY <2>2, <2>5, <1>1
<1>13. ASSUME NEW x \in T, NEW e \in Sides
       PROVE  h.kid[x][e] = s <=> x = p /\ e = IF p = n THEN "right" ELSE "left"
  <2> DEFINE f == IF p = n THEN "right" ELSE "left"
  <2>1. h.kid[p][f] = s /\ f \in Sides /\ s # NIL
    BY <1>1, <1>6, <1>11, <1>12
  <2>2. h.kid[x][e] = s => x = p
    BY <2>1, <1>11, OneParent
  <2>3. h.kid[p][e] = s => e = f
    BY <2>1, <1>11, OneParent
  <2> QED
    BY <2>1, <2>2, <2>3
<1>14. L # R
  BY <1>4, <1>5
<1> HIDE DEF p, child, L, R
<1>15. /\ h.kid[n]["left"] # h.kid[n]["right"] /\ h.kid[n]["left"] # s
       /\ p # h.kid[n]["left"]
       /\ p = n <=> s = h.kid[n]["right"]
       /\ \A k \in B[h.kid[n]["left"]] : k < s
       /\ \A k \in B[h.kid[n]["right"]] : k = s \/ k > s
  BY <1>6, <1>10, <1>11, <1>14 DEF L, R
<1>16. NextAfter(h, T, B, n, s, p, child)
  BY <1>1, <1>3, <1>6, <1>7, <1>8, <1>10, <1>11, <1>12, <1>13, <1>15, Zenon DEF NextAfter
<1> QED
  BY <1>16 DEF p, child

\* Heap g is heap h where s, which was not in the tree, is what n was.
Renamed(h, g, U, n, s) ==
    /\ g \in Heap /\ g.root = IF h.root = n THEN s ELSE h.root
    /\ \A x \in Keys : g.parent[x] = IF x = s THEN h.parent[n]
                                     ELSE IF x = n THEN NIL
                                     ELSE IF h.parent[x] = n THEN s ELSE h.parent[x]
    /\ \A e \in Sides : g.kid[s][e] = h.kid[n][e]
    /\ \A x \in U \ {n}, e \in Sides :
          g.kid[x][e] = IF h.kid[x][e] = n THEN s ELSE h.kid[x][e]
    /\ \A x \in (U \ {n}) \cup {NIL} : IsRed(g, x) <=> IsRed(h, x)
    /\ IsRed(g, s) <=> IsRed(h, n)

\* The successor's taking the place of n is its own cutting out, and then a renaming.
LEMMA ReplacedIs ==
    ASSUME NEW T, NEW B, Shape(heap, T, B), NEW n, NEW s,
           NEW p, p = heap.parent[s], NEW child, child = heap.kid[s]["right"],
           NextAfter(heap, T, B, n, s, p, child),
           NEW h, Cut(heap, h, T, s, child)
    PROVE  Renamed(h, Forget(Replaced(n, s), n), T \ {s}, n, s)
<1> DEFINE L == heap.kid[n]["left"]
           R == heap.kid[n]["right"]
           pn == heap.parent[n]
           h1 == Relink(heap, pn, n, s)
           i1 == SetParent(h1, child, p)
           i2 == SetKid(i1, p, "left", child)
           i3 == SetKid(i2, s, "right", R)
           i4 == SetParent(i3, R, s)
           h2 == IF p = n THEN h1 ELSE i4
           h3 == [h2 EXCEPT !.color[s] = heap.color[n], !.parent[s] = pn]
           h4 == SetKid(h3, s, "left", L)
           h5 == SetParent(h4, L, s)
           g == Forget(h5, n)
           d == SideOf(heap, pn, n)
<1>1. /\ heap \in Heap /\ T \subseteq Keys /\ NIL \notin Keys /\ NIL \in Pointers
      /\ "left" \in Sides /\ "right" \in Sides
      /\ \A e \in Sides : e = "left" \/ e = "right"
  BY TreeAssumption DEF Shape, Sides, Pointers
<1>2. /\ n \in Keys /\ s \in Keys /\ p \in Keys /\ L \in Keys /\ R \in Keys
      /\ n \in T /\ s \in T /\ p \in T /\ n # NIL /\ s # NIL /\ n # s /\ p # s /\ L # R
      /\ L # s /\ L # n /\ R # n /\ p # L /\ (p = n <=> s = R)
      /\ child \in Pointers /\ pn \in Pointers /\ child # n /\ child # s
      /\ child # L /\ child # R /\ s # heap.root
  <2>1. /\ n \in T /\ s \in T /\ p \in T /\ n # s /\ p # s /\ L # R /\ L \in T /\ R \in T
        /\ L # s /\ L # n /\ R # n /\ p # L /\ (p = n <=> s = R)
        /\ child # n /\ child # s /\ child # L /\ child # R /\ s # heap.root
    BY <1>1 DEF NextAfter
  <2>2. child \in Pointers /\ pn \in Pointers
    BY <1>1, <2>1, HeapFields
  <2> QED
    BY <1>1, <2>1, <2>2
<1>3. /\ n = heap.root <=> pn = NIL
      /\ n # heap.root => pn \in T /\ \E e \in Sides : heap.kid[pn][e] = n
      /\ \A x \in T, e \in Sides : heap.kid[x][e] = n => x = pn
      /\ pn \in T => \A e \in Sides : heap.kid[pn][e] = n => d = e
  BY <1>1, <1>2, ParentOf, NodeFacts, OneParent
<1>4. \A x \in T, e \in Sides :
         heap.kid[x][e] = n <=> x = pn /\ e = d
  <2>1. ASSUME NEW x \in T, NEW e \in Sides, x = pn, e = d  PROVE  heap.kid[x][e] = n
    <3>1. n # heap.root
      BY <2>1, <1>1, <1>3
    <3> QED
      BY <2>1, <3>1, <1>3
  <2> QED
    BY <2>1, <1>3
<1>5. d \in Sides
  BY SideOfIs
<1>6. Relinked(heap, h1, pn, d, s)
  <2>1. s \in Pointers
    BY <1>2 DEF Pointers
  <2> QED
    BY <2>1, <1>1, <1>2, RelinkIs
<1> HIDE DEF L, R, pn, d, h1
<1>7. /\ h1 \in Heap /\ h1.root = (IF heap.root = n THEN s ELSE heap.root)
      /\ h1.color = heap.color /\ h1.parent = heap.parent
      /\ \A x \in Keys, e \in Sides :
            h1.kid[x][e] = IF x = pn /\ e = d THEN s ELSE heap.kid[x][e]
  BY <1>3, <1>6 DEF Relinked
<1>8. /\ h2 \in Heap /\ h2.root = h1.root /\ h2.color = heap.color
      /\ \A x \in Keys : h2.parent[x] = IF p # n /\ x = R THEN s
                                        ELSE IF p # n /\ x = child THEN p ELSE heap.parent[x]
      /\ \A x \in Keys, e \in Sides :
            h2.kid[x][e] = IF p # n /\ x = s /\ e = "right" THEN R
                           ELSE IF p # n /\ x = p /\ e = "left" THEN child ELSE h1.kid[x][e]
  <2>1. CASE p = n
    BY <2>1, <1>7
  <2>2. CASE p # n
    <3>1. ParentSet(h1, i1, child, p)
      BY <1>2, <1>7, SetParentIs DEF Pointers
    <3> HIDE DEF i1
    <3>2. KidSet(i1, i2, p, "left", child)
      <4>1. i1 \in Heap
        BY <3>1 DEF ParentSet
      <4> QED
        BY <4>1, <1>1, <1>2, SetKidIs
    <3> HIDE DEF i2
    <3>3. KidSet(i2, i3, s, "right", R)
      <4>1. i2 \in Heap /\ R \in Pointers
        BY <3>2, <1>2 DEF KidSet, Pointers
      <4> QED
        BY <4>1, <1>1, <1>2, SetKidIs
    <3> HIDE DEF i3
    <3>4. ParentSet(i3, i4, R, s)
      <4>1. i3 \in Heap /\ R \in Pointers /\ s \in Pointers
        BY <3>3, <1>2 DEF KidSet, Pointers
      <4> QED
        BY <4>1, SetParentIs
    <3> HIDE DEF i4
    <3>5. /\ i4 \in Heap /\ i4.root = h1.root /\ i4.color = heap.color
      BY <3>1, <3>2, <3>3, <3>4, <1>7 DEF ParentSet, KidSet
    <3>6. ASSUME NEW x \in Keys
          PROVE  i4.parent[x] = IF x = R THEN s ELSE IF x = child THEN p ELSE heap.parent[x]
      BY <3>1, <3>2, <3>3, <3>4, <1>7 DEF ParentSet, KidSet
    <3>7. ASSUME NEW x \in Keys, NEW e \in Sides
          PROVE  i4.kid[x][e] = IF x = s /\ e = "right" THEN R
                                ELSE IF x = p /\ e = "left" THEN child ELSE h1.kid[x][e]
      BY <3>1, <3>2, <3>3, <3>4 DEF ParentSet, KidSet
    <3> QED
      BY <2>2, <3>5, <3>6, <3>7
  <2> QED
    BY <2>1, <2>2
<1> HIDE DEF h2
<1>9. /\ h3 \in Heap /\ h3.root = h1.root /\ h3.kid = h2.kid
      /\ \A x \in Keys : h3.color[x] = IF x = s THEN heap.color[n] ELSE heap.color[x]
      /\ \A x \in Keys : h3.parent[x] = IF x = s THEN pn ELSE h2.parent[x]
  <2>1. heap.color[n] \in {"red", "black"}
    BY <1>1, <1>2, HeapFields
  <2> QED
    BY <2>1, <1>2, <1>8 DEF Heap
<1> HIDE DEF h3
<1>10. KidSet(h3, h4, s, "left", L)
  <2>1. L \in Pointers
    BY <1>2 DEF Pointers
  <2> QED
    BY <2>1, <1>1, <1>2, <1>9, SetKidIs
<1> HIDE DEF h4
<1>11. ParentSet(h4, h5, L, s)
  <2>1. h4 \in Heap /\ L \in Pointers /\ s \in Pointers
    BY <1>10, <1>2 DEF KidSet, Pointers
  <2> QED
    BY <2>1, SetParentIs
<1> HIDE DEF h5
<1>12. Forgotten(h5, g, n)
  <2>1. h5 \in Heap
    BY <1>11 DEF ParentSet
  <2> QED
    BY <2>1, <1>2, ForgetIs
<1> HIDE DEF g
<1>13. g \in Heap /\ g.root = IF heap.root = n THEN s ELSE heap.root
  BY <1>7, <1>9, <1>10, <1>11, <1>12 DEF KidSet, ParentSet, Forgotten
<1>14. ASSUME NEW x \in Keys
       PROVE  g.parent[x] = IF x = n THEN NIL ELSE IF x = L THEN s ELSE IF x = s THEN pn
                            ELSE IF p # n /\ x = R THEN s
                            ELSE IF p # n /\ x = child THEN p ELSE heap.parent[x]
  BY <1>8, <1>9, <1>10, <1>11, <1>12 DEF KidSet, ParentSet, Forgotten
<1>15. ASSUME NEW x \in Keys \ {n}, NEW e \in Sides
       PROVE  g.kid[x][e] = IF x = s /\ e = "left" THEN L
                            ELSE IF p # n /\ x = s /\ e = "right" THEN R
                            ELSE IF p # n /\ x = p /\ e = "left" THEN child
                            ELSE IF x = pn /\ e = d THEN s ELSE heap.kid[x][e]
  <2>1. g.kid[x][e] = h4.kid[x][e]
    BY <1>11, <1>12 DEF ParentSet, Forgotten
  <2>2. h4.kid[x][e] = IF x = s /\ e = "left" THEN L ELSE h2.kid[x][e]
    BY <1>9, <1>10 DEF KidSet
  <2> QED
    BY <2>1, <2>2, <1>7, <1>8
<1>16. ASSUME NEW x \in Keys \ {n}
       PROVE  g.color[x] = IF x = s THEN heap.color[n] ELSE heap.color[x]
  BY <1>9, <1>10, <1>11, <1>12 DEF KidSet, ParentSet, Forgotten
<1>17. /\ h.root = heap.root
       /\ \A x \in Keys : h.parent[x] = IF x = s THEN NIL
                                        ELSE IF x = child THEN p ELSE heap.parent[x]
       /\ \A x \in T \ {s}, e \in Sides :
             h.kid[x][e] = IF heap.kid[x][e] = s THEN child ELSE heap.kid[x][e]
       /\ \A x \in (T \ {s}) \cup {NIL} : IsRed(h, x) <=> IsRed(heap, x)
  <2>1. h.root = heap.root
    BY <1>2 DEF Cut
  <2> QED
    BY <2>1 DEF Cut
<1>18. \A x \in T, e \in Sides :
          heap.kid[x][e] = s <=> x = p /\ e = IF p = n THEN "right" ELSE "left"
  BY DEF NextAfter
<1>19. ASSUME NEW x \in Keys
       PROVE  g.parent[x] = IF x = s THEN h.parent[n]
                            ELSE IF x = n THEN NIL
                            ELSE IF h.parent[x] = n THEN s ELSE h.parent[x]
  <2>1. h.parent[n] = pn
    BY <1>2, <1>17 DEF pn
  <2>2. heap.parent[L] = n /\ heap.parent[R] = n
    BY <1>1 DEF NextAfter, L, R
  <2>3. heap.parent[x] = n => x = L \/ x = R
    <3>1. SUFFICES ASSUME heap.parent[x] = n  PROVE  x = L \/ x = R
      OBVIOUS
    <3>2. x \in T /\ x # heap.root
      <4>1. x \in T
        BY <1>2, <3>1 DEF Shape
      <4> QED
        BY <4>1, <1>2, <3>1 DEF Shape
    <3>3. \E e \in Sides : heap.kid[n][e] = x
      BY <3>1, <3>2, ParentOf
    <3> QED
      BY <3>3, <1>1 DEF L, R
  <2>4. child # NIL => heap.parent[child] = s
    BY DEF NextAfter
  <2>5. heap.parent[s] = p
    OBVIOUS
  <2>11. g.parent[x] = IF x = n THEN NIL ELSE IF x = L THEN s ELSE IF x = s THEN pn
                       ELSE IF p # n /\ x = R THEN s
                       ELSE IF p # n /\ x = child THEN p ELSE heap.parent[x]
    BY <1>14
  <2>12. h.parent[x] = IF x = s THEN NIL ELSE IF x = child THEN p ELSE heap.parent[x]
    BY <1>17
  <2>13. /\ n # s /\ L # R /\ L # s /\ L # n /\ R # n /\ (p = n <=> s = R)
         /\ child # L /\ child # R /\ child # n
    BY <1>2
  <2>6. CASE x = s
    BY <2>6, <2>1, <2>11, <2>13
  <2>7. CASE x = n
    BY <2>7, <2>11, <2>13
  <2>8. CASE x = L
    BY <2>8, <2>2, <2>11, <2>12, <2>13
  <2>9. CASE x = R /\ x # s
    BY <2>9, <2>2, <2>11, <2>12, <2>13
  <2>10. CASE x \notin {s, n, L, R}
    <3>1. CASE x = child
      BY <3>1, <2>4, <2>10, <1>1, <1>2, <1>14, <1>17
    <3>2. CASE x # child
      BY <3>2, <2>3, <2>10, <1>14, <1>17
    <3> QED
      BY <3>1, <3>2
  <2> QED
    BY <2>6, <2>7, <2>8, <2>9, <2>10
<1>20. ASSUME NEW e \in Sides  PROVE  g.kid[s][e] = h.kid[n][e]
  <2>1. s \in Keys \ {n} /\ s # p /\ n \in T \ {s}
    BY <1>2
  <2>2. heap.kid[n]["left"] = L /\ heap.kid[n]["right"] = R /\ child = heap.kid[s]["right"]
    BY DEF L, R
  <2>3. s = pn => FALSE
    <3>1. ASSUME s = pn  PROVE  FALSE
      <4>1. n # heap.root
        BY <3>1, <1>2, <1>3
      <4>2. n \in B[s]
        <5>1. PICK f \in Sides : heap.kid[s][f] = n
          BY <4>1, <3>1, <1>3
        <5>2. heap.kid[s][f] \in B[s]
          <6>1. heap.kid[s][f] # NIL
            BY <5>1, <1>2
          <6> QED
            BY <6>1, <1>2, NodeFacts
        <5> QED
          BY <5>1, <5>2
      <4> QED
        BY <4>2 DEF NextAfter
    <3> QED
      BY <3>1
  <2>4. CASE e = "left"
    <3>1. g.kid[s][e] = L
      BY <2>1, <2>4, <1>15
    <3>2. h.kid[n][e] = L
      <4>1. h.kid[n][e] = IF heap.kid[n][e] = s THEN child ELSE heap.kid[n][e]
        BY <2>1, <1>17
      <4> QED
        BY <4>1, <2>2, <2>4, <1>2
    <3> QED
      BY <3>1, <3>2
  <2>5. CASE e = "right"
    <3>1. g.kid[s][e] = IF p # n THEN R ELSE child
      BY <2>1, <2>2, <2>3, <2>5, <1>15
    <3>2. h.kid[n][e] = IF R = s THEN child ELSE R
      BY <2>1, <2>2, <2>5, <1>17
    <3>3. p = n <=> s = R
      BY <1>2
    <3> QED
      BY <3>1, <3>2, <3>3
  <2> QED
    BY <2>4, <2>5, <1>1
<1>21. ASSUME NEW x \in (T \ {s}) \ {n}, NEW e \in Sides
       PROVE  g.kid[x][e] = IF h.kid[x][e] = n THEN s ELSE h.kid[x][e]
  <2>1. x \in Keys \ {n} /\ x # s /\ x # n /\ x \in T
    BY <1>1
  <2>2. g.kid[x][e] = IF p # n /\ x = p /\ e = "left" THEN child
                      ELSE IF x = pn /\ e = d THEN s ELSE heap.kid[x][e]
    BY <2>1, <1>15
  <2>3. h.kid[x][e] = IF heap.kid[x][e] = s THEN child ELSE heap.kid[x][e]
    BY <2>1, <1>17
  <2>4. heap.kid[x][e] = s <=> p # n /\ x = p /\ e = "left"
    BY <2>1, <1>18
  <2>5. heap.kid[x][e] = n <=> x = pn /\ e = d
    BY <2>1, <1>4
  <2> QED
    BY <2>2, <2>3, <2>4, <2>5, <1>2
<1>22. /\ \A x \in ((T \ {s}) \ {n}) \cup {NIL} : IsRed(g, x) <=> IsRed(h, x)
       /\ IsRed(g, s) <=> IsRed(h, n)
  <2>1. ASSUME NEW x \in ((T \ {s}) \ {n}) \cup {NIL}  PROVE  IsRed(g, x) <=> IsRed(heap, x)
    BY <1>1, <1>16 DEF IsRed
  <2>2. IsRed(g, s) <=> IsRed(heap, n)
    BY <1>2, <1>16 DEF IsRed
  <2>3. n \in T \ {s}
    BY <1>2
  <2> QED
    BY <2>1, <2>2, <2>3, <1>17
<1>23. Renamed(h, g, T \ {s}, n, s)
  BY <1>13, <1>17, <1>19, <1>20, <1>21, <1>22 DEF Renamed
<1> QED
  BY <1>23 DEF g, h5, h4, h3, h2, h1, L, R, pn, Replaced

\* In the subtrees that held n there is s.
LEMMA RenamedShape ==
    ASSUME NEW h, NEW U, NEW B, Shape(h, U, B), NEW n \in U, NEW s \in Keys, s \notin U,
           \A x \in U, e \in Sides : n \in B[h.kid[x][e]] => OnSide(s, x, e),
           \A e \in Sides : \A k \in B[h.kid[n][e]] : OnSide(k, s, e),
           NEW g, Renamed(h, g, U, n, s)
    PROVE  \E C : Shape(g, (U \ {n}) \cup {s}, C)
<1> DEFINE V == (U \ {n}) \cup {s}
           In(k, S) == (k \in S /\ k # n) \/ (k = s /\ n \in S)
           C == [x \in V \cup {NIL} |-> {k \in V : In(k, B[IF x = s THEN n ELSE x])}]
           to(x) == IF x = n THEN s ELSE x
<1>1. /\ NIL \notin U /\ NIL \notin Keys /\ U \subseteq Keys /\ IsFiniteSet(U)
      /\ B \in [U \cup {NIL} -> SUBSET U] /\ B[NIL] = {}
      /\ h.root \in U /\ B[h.root] = U /\ h.parent[h.root] = NIL
      /\ \A x \in Keys \ U : h.parent[x] = NIL
      /\ n # s /\ n # NIL /\ s # NIL /\ h.root # s /\ n \in Keys
  BY TreeAssumption DEF Shape
<1>2. /\ g \in Heap /\ g.root = to(h.root)
      /\ \A e \in Sides : g.kid[s][e] = h.kid[n][e]
      /\ \A x \in U \ {n}, e \in Sides : g.kid[x][e] = to(h.kid[x][e])
  BY DEF Renamed
<1>3. \A x \in Keys : g.parent[x] = IF x = s THEN h.parent[n]
                                    ELSE IF x = n THEN NIL
                                    ELSE to(h.parent[x])
  BY DEF Renamed
<1> HIDE DEF C
<1>4. /\ C \in [V \cup {NIL} -> SUBSET V] /\ C[NIL] = {}
      /\ \A x \in (U \ {n}) \cup {NIL} : C[x] = {k \in V : In(k, B[x])}
      /\ C[s] = {k \in V : In(k, B[n])}
  BY <1>1 DEF C
<1>5. ASSUME NEW x \in U \cup {NIL}  PROVE  C[to(x)] = {k \in V : In(k, B[x])} /\ B[x] \subseteq U
  BY <1>1, <1>4
<1> HIDE DEF In, to
<1>6. ASSUME NEW x \in U, NEW e \in Sides
      PROVE  /\ g.kid[to(x)][e] \in V \cup {NIL}
             /\ g.kid[to(x)][e] # NIL => g.parent[g.kid[to(x)][e]] = to(x)
             /\ C[g.kid[to(x)][e]] = {k \in V : In(k, B[h.kid[x][e]])}
  <2>1. /\ h.kid[x][e] \in U \cup {NIL} /\ (h.kid[x][e] # NIL => h.parent[h.kid[x][e]] = x)
        /\ h.kid[x][e] # x
    BY <1>1, NodeFacts, OneParent
  <2>2. g.kid[to(x)][e] = to(h.kid[x][e])
    <3>1. CASE x = n
      <4>1. h.kid[n][e] # n
        BY <2>1, <3>1
      <4> QED
        BY <3>1, <4>1, <1>2 DEF to
    <3>2. CASE x # n
      BY <3>2, <1>2 DEF to
    <3> QED
      BY <3>1, <3>2
  <2>3. to(h.kid[x][e]) \in V \cup {NIL} /\ (h.kid[x][e] = NIL <=> to(h.kid[x][e]) = NIL)
    BY <2>1, <1>1 DEF to
  <2>4. ASSUME h.kid[x][e] # NIL  PROVE  g.parent[to(h.kid[x][e])] = to(x)
    <3>1. h.kid[x][e] \in U /\ h.parent[h.kid[x][e]] = x
      BY <2>1, <2>4
    <3>2. CASE h.kid[x][e] = n
      <4>1. to(h.kid[x][e]) = s /\ g.parent[s] = h.parent[n] /\ h.parent[n] = x
        BY <3>1, <3>2, <1>3 DEF to
      <4>2. x # n
        BY <2>1, <3>2
      <4> QED
        BY <4>1, <4>2 DEF to
    <3>3. CASE h.kid[x][e] # n
      <4>1. to(h.kid[x][e]) = h.kid[x][e] /\ h.kid[x][e] \in Keys /\ h.kid[x][e] # s
        BY <3>1, <3>3, <1>1 DEF to
      <4>2. g.parent[h.kid[x][e]] = to(h.parent[h.kid[x][e]])
        BY <3>3, <4>1, <1>3
      <4> QED
        BY <3>1, <4>1, <4>2
    <3> QED
      BY <3>2, <3>3
  <2> QED
    BY <2>1, <2>2, <2>3, <2>4, <1>5
<1>7. ASSUME NEW x \in U, NEW e \in Sides, NEW k \in C[g.kid[to(x)][e]]
      PROVE  OnSide(k, to(x), e)
  <2>1. \A k1 \in B[h.kid[x][e]] : OnSide(k1, x, e)
    BY NodeFacts
  <2>2. In(k, B[h.kid[x][e]])
    BY <1>6, <1>7
  <2>3. CASE x = n
    <3>1. k \in B[h.kid[n][e]]
      <4>1. n \notin B[h.kid[n][e]]
        BY NodeFacts
      <4> QED
        BY <4>1, <2>2, <2>3 DEF In
    <3> QED
      BY <3>1, <2>3 DEF to
  <2>4. CASE x # n
    BY <2>1, <2>2, <2>4 DEF In, to
  <2> QED
    BY <2>3, <2>4
<1>8. ASSUME NEW x \in U  PROVE  Node(g, V, C, to(x))
  <2>1. ASSUME NEW e \in Sides
        PROVE  C[to(x)] = {to(x)} \cup C[g.kid[to(x)][e]] \cup C[g.kid[to(x)][Opposite(e)]]
    <3>1. B[x] = {x} \cup B[h.kid[x][e]] \cup B[h.kid[x][Opposite(e)]]
      BY NodeFacts
    <3>2. Opposite(e) \in Sides
      BY OppositeIs
    <3>3. /\ C[g.kid[to(x)][e]] = {k \in V : In(k, B[h.kid[x][e]])}
          /\ C[g.kid[to(x)][Opposite(e)]] = {k \in V : In(k, B[h.kid[x][Opposite(e)]])}
          /\ C[to(x)] = {k \in V : In(k, B[x])}
      BY <3>2, <1>5, <1>6
    <3>4. \A k \in V : In(k, B[x]) <=> \/ k = to(x)
                                       \/ In(k, B[h.kid[x][e]])
                                       \/ In(k, B[h.kid[x][Opposite(e)]])
      BY <3>1, <1>1 DEF In, to
    <3>5. to(x) \in V
      BY <1>1 DEF to
    <3> QED
      BY <3>3, <3>4, <3>5
  <2> QED
    BY <2>1, <1>6, <1>7 DEF Node
<1>9. \A y \in V : \E x \in U : y = to(x)
  BY <1>1 DEF to
<1>10. g.root \in V /\ C[g.root] = V /\ g.parent[g.root] = NIL
  <2>1. C[to(h.root)] = {k \in V : In(k, U)} /\ to(h.root) \in V
    BY <1>1, <1>5 DEF to
  <2>2. \A k \in V : In(k, U)
    BY <1>1 DEF In
  <2>3. g.parent[to(h.root)] = NIL
    BY <1>1, <1>3 DEF to
  <2> QED
    BY <2>1, <2>2, <2>3, <1>2
<1>11. IsFiniteSet(V) /\ V \subseteq Keys /\ \A x \in Keys \ V : g.parent[x] = NIL
  <2>1. IsFiniteSet(V)
    BY <1>1, FS_RemoveElement, FS_AddElement
  <2>2. \A x \in Keys \ V : g.parent[x] = NIL
    BY <1>1, <1>3 DEF to
  <2> QED
    BY <2>1, <2>2, <1>1
<1>12. Shape(g, V, C)
  <2>1. \A y \in V : Node(g, V, C, y)
    BY <1>8, <1>9
  <2> QED
    BY <2>1, <1>2, <1>4, <1>10, <1>11 DEF Shape
<1> QED
  BY <1>12

\* The colours and the black nodes of the paths do not tell s from n.
LEMMA RenamedKeeps ==
    ASSUME NEW h, NEW U, NEW B, Shape(h, U, B), NEW n \in U, NEW s \in Keys, s \notin U,
           NEW g, Renamed(h, g, U, n, s), NEW V, V = (U \ {n}) \cup {s}
    PROVE  /\ ~IsRed(h, h.root) => ~IsRed(g, g.root)
           /\ Apart(h, U, NIL, NIL) => Apart(g, V, NIL, NIL)
           /\ \A H, d : \A q \in U \cup {NIL} :
                 Heights(h, U, H, q, d) => \E G : Heights(g, V, G, IF q = n THEN s ELSE q, d)
           /\ \A c, p : Repairing(h, c, p, U) /\ c # n =>
                 LET r == IF p = n THEN s ELSE p
                 IN  /\ Repairing(g, c, r, V) /\ (c = g.root <=> c = h.root)
                     /\ c # h.root => SideOf(g, r, c) = SideOf(h, p, c)
<1> DEFINE to(x) == IF x = n THEN s ELSE x
<1>1. /\ NIL \notin U /\ h.root \in U \cup {NIL}
      /\ n # s /\ n # NIL /\ s # NIL /\ h.root # s
  BY TreeAssumption DEF Shape
<1>2. /\ g.root = to(h.root)
      /\ \A e \in Sides : g.kid[s][e] = h.kid[n][e]
      /\ \A x \in U \ {n}, e \in Sides : g.kid[x][e] = to(h.kid[x][e])
      /\ \A x \in (U \ {n}) \cup {NIL} : IsRed(g, x) <=> IsRed(h, x)
      /\ IsRed(g, s) <=> IsRed(h, n)
  BY DEF Renamed
<1> HIDE DEF to
<1>3. ASSUME NEW x \in U \cup {NIL}
      PROVE  /\ IsRed(g, to(x)) <=> IsRed(h, x)
             /\ to(x) \in V \cup {NIL} /\ (x = NIL <=> to(x) = NIL)
             /\ \A y \in U \cup {NIL} : to(x) = to(y) <=> x = y
  BY <1>1, <1>2 DEF to
<1>4. ASSUME NEW x \in U, NEW e \in Sides
      PROVE  g.kid[to(x)][e] = to(h.kid[x][e]) /\ h.kid[x][e] \in U \cup {NIL}
  <2>1. h.kid[x][e] \in U \cup {NIL} /\ h.kid[x][e] # x
    BY <1>1, NodeFacts, OneParent
  <2>2. CASE x = n
    <3>1. to(x) = s /\ to(h.kid[x][e]) = h.kid[x][e]
      BY <2>1, <2>2 DEF to
    <3> QED
      BY <2>1, <2>2, <3>1, <1>2
  <2>3. CASE x # n
    <3>1. to(x) = x
      BY <2>3 DEF to
    <3> QED
      BY <2>1, <2>3, <3>1, <1>2
  <2> QED
    BY <2>2, <2>3
<1>5. \A y \in V : \E x \in U : y = to(x)
  BY <1>1 DEF to
<1>6. ~IsRed(h, h.root) => ~IsRed(g, g.root)
  BY <1>1, <1>2, <1>3
<1>7. ASSUME NEW up \in U \cup {NIL}, NEW down \in U \cup {NIL}, Apart(h, U, up, down)
      PROVE  Apart(g, V, to(up), to(down))
  <2>1. ASSUME NEW y \in V, NEW e \in Sides, IsRed(g, y), IsRed(g, g.kid[y][e])
        PROVE  y = to(up) \/ g.kid[y][e] = to(down)
    <3>1. PICK x \in U : y = to(x)
      BY <1>5
    <3>2. IsRed(h, x) /\ IsRed(h, h.kid[x][e])
      BY <2>1, <3>1, <1>3, <1>4
    <3>3. x = up \/ h.kid[x][e] = down
      BY <3>2, <1>7 DEF Apart
    <3> QED
      BY <3>1, <3>3, <1>4
  <2> QED
    BY <2>1 DEF Apart
<1>8. to(NIL) = NIL
  BY <1>1 DEF to
<1>9. ASSUME NEW H, NEW q \in U \cup {NIL}, NEW d, Heights(h, U, H, q, d)
      PROVE  \E G : Heights(g, V, G, to(q), d)
  <2> DEFINE G == [y \in V \cup {NIL} |-> H[IF y = s THEN n ELSE y]]
  <2>1. H \in [U \cup {NIL} -> Nat] /\ H[NIL] = 0
    BY <1>9 DEF Heights
  <2>2. G \in [V \cup {NIL} -> Nat] /\ G[NIL] = 0 /\ \A x \in U \cup {NIL} : G[to(x)] = H[x]
    BY <2>1, <1>1 DEF to
  <2> HIDE DEF G
  <2>3. ASSUME NEW y \in V, NEW e \in Sides
        PROVE  G[y] = Weight(g, y) + G[g.kid[y][e]] + (IF y = to(q) /\ e = d THEN 1 ELSE 0)
    <3>1. PICK x \in U : y = to(x)
      BY <1>5
    <3>2. H[x] = Weight(h, x) + H[h.kid[x][e]] + (IF x = q /\ e = d THEN 1 ELSE 0)
      BY <1>9 DEF Heights
    <3>3. Weight(g, y) = Weight(h, x)
      BY <3>1, <1>3 DEF Weight
    <3>4. G[y] = H[x] /\ G[g.kid[y][e]] = H[h.kid[x][e]]
      BY <3>1, <2>2, <1>4
    <3>5. y = to(q) <=> x = q
      BY <3>1, <1>3
    <3> QED
      BY <3>2, <3>3, <3>4, <3>5
  <2>4. Heights(g, V, G, to(q), d)
    BY <2>2, <2>3 DEF Heights
  <2> QED
    BY <2>4
<1>10. ASSUME NEW c, NEW p, Repairing(h, c, p, U), c # n
       PROVE  /\ Repairing(g, c, to(p), V) /\ (c = g.root <=> c = h.root)
              /\ c # h.root => SideOf(g, to(p), c) = SideOf(h, p, c)
  <2>1. /\ c \in U \cup {NIL} /\ Apart(h, U, c, c)
        /\ c # h.root => p \in U /\ h.kid[p][SideOf(h, p, c)] = c
        /\ IsRed(h, h.root) => c = h.root
    BY <1>10 DEF Repairing
  <2>2. to(c) = c /\ c \in V \cup {NIL}
    BY <2>1, <1>3, <1>10 DEF to
  <2>3. c = g.root <=> c = h.root
    BY <2>1, <2>2, <1>1, <1>2, <1>3
  <2>4. ASSUME c # h.root
        PROVE  /\ SideOf(g, to(p), c) = SideOf(h, p, c)
               /\ to(p) \in V /\ g.kid[to(p)][SideOf(h, p, c)] = c
    <3>1. p \in U /\ h.kid[p][SideOf(h, p, c)] = c /\ p # NIL
      BY <2>1, <2>4, <1>1
    <3>2. ASSUME NEW e \in Sides  PROVE  g.kid[to(p)][e] = c <=> h.kid[p][e] = c
      BY <3>1, <2>1, <2>2, <1>3, <1>4
    <3>3. g.kid[to(p)]["left"] = c <=> h.kid[p]["left"] = c
      BY <3>2, OppositeIs
    <3>4. SideOf(g, to(p), c) = SideOf(h, p, c)
      BY <3>3 DEF SideOf
    <3>5. to(p) \in V
      BY <3>1, <1>3
    <3>6. g.kid[to(p)][SideOf(h, p, c)] = c
      BY <3>1, <3>2, SideOfIs
    <3> QED
      BY <3>4, <3>5, <3>6
  <2>5. Apart(g, V, c, c)
    BY <2>1, <2>2, <1>7
  <2>6. IsRed(g, g.root) => c = g.root
    BY <2>1, <2>3, <1>1, <1>2, <1>3
  <2> QED
    BY <2>2, <2>3, <2>4, <2>5, <2>6 DEF Repairing
<1>11. Apart(h, U, NIL, NIL) => Apart(g, V, NIL, NIL)
  BY <1>7, <1>8
<1> QED
  BY <1>6, <1>9, <1>10, <1>11 DEF to

-----------------------------------------------------------------------------
(* The steps of the operations.                                             *)

\* After the step the tree has the nodes of T.
Becomes(T) == \E B, H : Good(heap', pc', node', parent', T, B, H)

\* Where no link is credited with a black node the side does not matter.
LEMMA NoDebtor ==
    ASSUME NEW h, NEW T, NEW B, Shape(h, T, B), NEW H, NEW q, Heights(h, T, H, NIL, q)
    PROVE  \A s : Heights(h, T, H, NIL, s)
<1>1. \A n \in T : n # NIL
  BY TreeAssumption DEF Shape
<1>2. ASSUME NEW s  PROVE  Heights(h, T, H, NIL, s)
  <2>1. ASSUME NEW n \in T, NEW d \in Sides
        PROVE  H[n] = Weight(h, n) + H[h.kid[n][d]] + (IF n = NIL /\ d = s THEN 1 ELSE 0)
    <3>1. H[n] = Weight(h, n) + H[h.kid[n][d]] + (IF n = NIL /\ d = q THEN 1 ELSE 0)
      BY DEF Heights
    <3> QED
      BY <3>1, <1>1
  <2> QED
    BY <2>1 DEF Heights
<1> QED
  BY <1>2

\* What is to be shown of a state outside the two loops.
LEMMA AtRest ==
    ASSUME NEW h, NEW c \in {"idle", "search", "successor"}, NEW n \in Pointers, NEW p \in Pointers,
           NEW T, NEW B, Shape(h, T, B),
           NEW H, \A s : Heights(h, T, H, NIL, s), Apart(h, T, NIL, NIL), ~IsRed(h, h.root),
           c = "search" => Searching(h, n, p, T, B),
           c = "successor" => Succeeding(h, n, p, T, B)
    PROVE  Good(h, c, n, p, T, B, H)
<1>1. c \notin {"insert_color", "erase_color"}
  OBVIOUS
<1>2. Debtor(h, c, n, p) = NIL
  BY <1>1 DEF Debtor
<1> QED
  BY <1>1, <1>2 DEF Good

\* What is to be shown of a state in the loop of rb_insert_color.
LEMMA InInsert ==
    ASSUME NEW h, NEW n, NEW p \in Pointers, NEW T, NEW B, Shape(h, T, B),
           NEW H, \A s : Heights(h, T, H, NIL, s), Inserting(h, n, T)
    PROVE  Good(h, "insert_color", n, p, T, B, H)
<1>1. n \in Pointers
  BY DEF Inserting, Shape, Pointers
<1>2. Debtor(h, "insert_color", n, p) = NIL
  BY DEF Debtor
<1> QED
  BY <1>1, <1>2 DEF Good

\* What is to be shown of a state in the loop of __rb_erase_color.
LEMMA InErase ==
    ASSUME NEW h, NEW n, NEW p \in Pointers, NEW T, NEW B, Shape(h, T, B),
           NEW H, Heights(h, T, H, IF n # h.root THEN p ELSE NIL, SideOf(h, p, n)),
           Repairing(h, n, p, T)
    PROVE  Good(h, "erase_color", n, p, T, B, H)
<1>1. n \in Pointers
  BY DEF Repairing, Shape, Pointers
<1>2. Debtor(h, "erase_color", n, p) = IF n # h.root THEN p ELSE NIL
  BY DEF Debtor
<1> QED
  BY <1>1, <1>2 DEF Good

\* What holds between the loops.
LEMMA RestIs ==
    ASSUME NEW T, NEW B, NEW H, TreeInv(T, B, H), pc \in {"idle", "search", "successor"}
    PROVE  /\ Shape(heap, T, B) /\ \A s : Heights(heap, T, H, NIL, s)
           /\ Apart(heap, T, NIL, NIL) /\ ~IsRed(heap, heap.root)
           /\ pc = "search" => Searching(heap, node, parent, T, B)
           /\ pc = "successor" => Succeeding(heap, node, parent, T, B)
<1>1. Debtor(heap, pc, node, parent) = NIL
  BY DEF Debtor
<1>2. Shape(heap, T, B) /\ Heights(heap, T, H, NIL, SideOf(heap, parent, node))
  BY <1>1 DEF TreeInv, Good
<1> QED
  BY <1>2, NoDebtor DEF TreeInv, Good

\* A node is in the tree where it is the root or has a parent.
LEMMA InTreeIs ==
    ASSUME NEW T, NEW B, Shape(heap, T, B), NEW n \in Keys  PROVE  InTree(n) <=> n \in T
<1>1. ASSUME n \in T  PROVE  InTree(n)
  BY <1>1, ParentOf DEF InTree
<1>2. ASSUME n \notin T  PROVE  ~InTree(n)
  BY <1>2, TreeAssumption DEF InTree, Shape
<1> QED
  BY <1>1, <1>2

\* The key of a search hangs below the link that the search has come to.
LEMMA SearchDescends ==
    ASSUME NEW h, NEW T, NEW B, Shape(h, T, B), NEW n, NEW p, Searching(h, n, p, T, B),
           NEW l, l = LinkFrom(h, n, p), l # NIL, l # n
    PROVE  Searching(h, n, l, T, B)
<1>1. /\ NIL \notin T /\ T \subseteq Keys /\ n \in Keys
      /\ h.root \in T \cup {NIL} /\ B[h.root] = T /\ B[NIL] = {}
      /\ p \in T \cup {NIL} /\ p # n
      /\ \A m \in T, d \in Sides : p \in B[h.kid[m][d]] => OnSide(n, m, d)
      /\ n \in T => n \in B[l]
  BY TreeAssumption DEF Shape, Searching
<1> DEFINE f == IF n < p THEN "left" ELSE "right"
<1>2. f \in Sides
  BY OppositeIs
<1> HIDE DEF f
<1>3. /\ p = NIL => l = h.root
      /\ p # NIL => p \in T /\ l = h.kid[p][f] /\ OnSide(n, p, f)
  BY <1>1, OnSideIs DEF LinkFrom, f
<1>4. l \in T
  BY <1>1, <1>2, <1>3, NodeFacts
<1>5. ASSUME NEW m \in T, NEW d \in Sides, l \in B[h.kid[m][d]]  PROVE  OnSide(n, m, d)
  <2>1. h.kid[m][d] \in T /\ h.kid[m][d] # NIL /\ m \notin B[h.kid[m][d]]
    BY <1>1, <1>5, NodeFacts
  <2>2. CASE p = NIL
    <3>1. B[l] \subseteq B[h.kid[m][d]]
      BY <2>1, <1>5, SubtreeWithin
    <3> QED
      BY <2>1, <2>2, <3>1, <1>1, <1>3
  <2>3. CASE p # NIL
    <3>1. h.parent[l] = p
      BY <2>3, <1>2, <1>3, NodeFacts
    <3>2. CASE l = h.kid[m][d]
      <4>1. m = p /\ d = f
        BY <3>2, <2>1, <2>3, <1>2, <1>3, OneParent
      <4> QED
        BY <4>1, <2>3, <1>3
    <3>3. CASE l # h.kid[m][d]
      <4>1. p \in B[h.kid[m][d]]
        BY <3>1, <3>3, <2>1, <1>5, ParentWithin
      <4> QED
        BY <4>1, <1>1
    <3> QED
      BY <3>2, <3>3
  <2> QED
    BY <2>2, <2>3
<1>6. ASSUME n \in T  PROVE  n \in B[LinkFrom(h, n, l)]
  <2> DEFINE e == IF n < l THEN "left" ELSE "right"
  <2>1. e \in Sides
    BY OppositeIs
  <2>2. OnSide(n, l, e)
    BY <1>1, <1>4, OnSideIs
  <2>3. LinkFrom(h, n, l) = h.kid[l][e]
    BY DEF LinkFrom
  <2> HIDE DEF e
  <2>4. n \in B[h.kid[l][e]] \/ n \in B[h.kid[l][Opposite(e)]]
    <3>1. B[l] = {l} \cup B[h.kid[l][e]] \cup B[h.kid[l][Opposite(e)]]
      BY <2>1, <1>4, NodeFacts
    <3> QED
      BY <3>1, <1>1, <1>6
  <2>5. n \notin B[h.kid[l][Opposite(e)]]
    <3>1. n \in B[h.kid[l][Opposite(e)]] => OnSide(n, l, Opposite(e))
      BY <2>1, <1>4, OppositeIs, NodeFacts
    <3>2. ~OnSide(n, l, Opposite(e))
      BY <2>1, <2>2, <1>1, <1>4, OnSideIs
    <3> QED
      BY <3>1, <3>2
  <2> QED
    BY <2>3, <2>4, <2>5
<1> QED
  BY <1>1, <1>4, <1>5, <1>6 DEF Searching

\* get and put begin at the root, which every key of the tree is below.
LEMMA CallKeeps ==
    ASSUME NEW T, NEW B, NEW H, TreeInv(T, B, H), NEW k \in Keys, Call(k)
    PROVE  Becomes(T)
<1>1. pc = "idle" /\ heap' = heap /\ pc' = "search" /\ node' = k /\ parent' = NIL
  BY DEF Call
<1>2. /\ Shape(heap, T, B) /\ \A s : Heights(heap, T, H, NIL, s)
      /\ Apart(heap, T, NIL, NIL) /\ ~IsRed(heap, heap.root)
  BY <1>1, RestIs
<1>3. Searching(heap, k, NIL, T, B)
  <2>1. NIL \notin T /\ k # NIL
    BY <1>2, TreeAssumption DEF Shape
  <2>2. \A m \in T, d \in Sides : B[heap.kid[m][d]] \subseteq T
    <3>1. \A m \in T, d \in Sides : B[heap.kid[m][d]] \subseteq B[m] /\ B[m] \subseteq T
      BY <1>2, NodeFacts
    <3> QED
      BY <3>1
  <2>3. k \in T => k \in B[LinkFrom(heap, k, NIL)]
    BY <1>2 DEF LinkFrom, Shape
  <2> QED
    BY <2>1, <2>2, <2>3 DEF Searching
<1>4. Good(heap, "search", k, NIL, T, B, H)
  BY <1>2, <1>3, AtRest DEF Pointers
<1> QED
  BY <1>1, <1>4 DEF Becomes

\* One round of the search.
LEMMA DescendKeeps ==
    ASSUME NEW T, NEW B, NEW H, TreeInv(T, B, H), Descend
    PROVE  Becomes(T)
<1>1. /\ pc = "search" /\ heap' = heap /\ pc' = "search" /\ node' = node /\ parent' = Link
      /\ Link # NIL /\ Link # node
  BY DEF Descend
<1>2. /\ Shape(heap, T, B) /\ \A s : Heights(heap, T, H, NIL, s)
      /\ Apart(heap, T, NIL, NIL) /\ ~IsRed(heap, heap.root)
      /\ Searching(heap, node, parent, T, B)
  BY <1>1, RestIs
<1>3. Searching(heap, node, Link, T, B)
  <2>1. Link = LinkFrom(heap, node, parent)
    BY DEF Link, LinkFrom
  <2> QED
    BY <2>1, <1>1, <1>2, SearchDescends
<1>4. Link \in Pointers /\ node \in Pointers
  BY <1>2, <1>3 DEF Searching, Shape, Pointers
<1>5. Good(heap, "search", node, Link, T, B, H)
  BY <1>2, <1>3, <1>4, AtRest
<1> QED
  BY <1>1, <1>5 DEF Becomes

\* get and put return.
LEMMA ReturnKeeps ==
    ASSUME NEW T, NEW B, NEW H, TreeInv(T, B, H), Found \/ NotFound
    PROVE  Becomes(T)
<1>1. pc = "search" /\ heap' = heap /\ pc' = "idle" /\ node' = NIL /\ parent' = NIL
  BY DEF Found, NotFound, Return
<1>2. /\ Shape(heap, T, B) /\ \A s : Heights(heap, T, H, NIL, s)
      /\ Apart(heap, T, NIL, NIL) /\ ~IsRed(heap, heap.root)
  BY <1>1, RestIs
<1>3. Good(heap, "idle", NIL, NIL, T, B, H)
  BY <1>2, AtRest DEF Pointers
<1> QED
  BY <1>1, <1>3 DEF Becomes

\* put links a new node: one key more, and a red leaf.
LEMMA LinkNodeKeeps ==
    ASSUME NEW T, NEW B, NEW H, TreeInv(T, B, H), LinkNode
    PROVE  node \notin T /\ node \in Keys /\ Becomes(T \cup {node})
<1> DEFINE e == IF node < parent THEN "left" ELSE "right"
           h0 == [heap EXCEPT !.color[node] = "red", !.kid[node] = Blank, !.parent[node] = parent]
           g == IF parent = NIL THEN [h0 EXCEPT !.root = node] ELSE SetKid(h0, parent, e, node)
<1>1. /\ pc = "search" /\ Link = NIL /\ heap' = g
      /\ pc' = "insert_color" /\ node' = node /\ parent' = NIL
  BY DEF LinkNode
<1>2. /\ Shape(heap, T, B) /\ \A s : Heights(heap, T, H, NIL, s)
      /\ Apart(heap, T, NIL, NIL) /\ ~IsRed(heap, heap.root)
      /\ Searching(heap, node, parent, T, B)
  BY <1>1, RestIs
<1>3. LinkFrom(heap, node, parent) = NIL
  BY <1>1 DEF Link, LinkFrom
<1>4. /\ heap \in Heap /\ T \in SUBSET Keys /\ node \in Keys /\ parent \in T \cup {NIL}
      /\ e \in Sides
  BY <1>2, OppositeIs DEF Shape, Searching
<1>5. node \notin T
  BY <1>2, <1>3 DEF Searching, Shape
<1>6. Linked(heap, g, T, node, parent, e)
  <2> HIDE DEF e
  <2> QED
    BY <1>4, <1>5, LinkedIs
<1> HIDE DEF g
<1>7. /\ Inserting(g, node, T \cup {node})
      /\ \E C : Shape(g, T \cup {node}, C)
      /\ \E G : \A s : Heights(g, T \cup {node}, G, NIL, s)
  BY <1>2, <1>3, <1>6, LinkKeeps
<1>8. PICK C : Shape(g, T \cup {node}, C)
  BY <1>7
<1>9. PICK G : \A s : Heights(g, T \cup {node}, G, NIL, s)
  BY <1>7
<1>10. Good(g, "insert_color", node, NIL, T \cup {node}, C, G)
  BY <1>7, <1>8, <1>9, InInsert DEF Pointers
<1>11. Becomes(T \cup {node})
  BY <1>1, <1>10 DEF Becomes
<1> QED
  BY <1>4, <1>5, <1>11

\* What holds in the loop of rb_insert_color.
LEMMA InsertIs ==
    ASSUME NEW T, NEW B, NEW H, TreeInv(T, B, H), pc = "insert_color"
    PROVE  /\ Shape(heap, T, B) /\ \A s : Heights(heap, T, H, NIL, s)
           /\ Inserting(heap, node, T) /\ parent \in Pointers
<1>1. Debtor(heap, pc, node, parent) = NIL
  BY DEF Debtor
<1>2. Shape(heap, T, B) /\ Heights(heap, T, H, NIL, SideOf(heap, parent, node))
  BY <1>1 DEF TreeInv, Good
<1> QED
  BY <1>2, NoDebtor DEF TreeInv, Good

\* The test of the loop of rb_insert_color says that there is a clash.
LEMMA RedParentIs ==
    ASSUME NEW T, NEW B, Shape(heap, T, B), Inserting(heap, node, T), RedParent
    PROVE  Clash(heap, T, node, heap.parent[node], Grandparent, ParentSide)
BY ClashIs DEF RedParent, Grandparent, ParentSide

\* rb_insert_color, a red uncle: the loop goes on from the grandparent.
LEMMA InsertRecolorKeeps ==
    ASSUME NEW T, NEW B, NEW H, TreeInv(T, B, H), InsertRecolor
    PROVE  Becomes(T) /\ Shape(heap', T, B)
<1> DEFINE p == heap.parent[node]
           g == Grandparent
           r == Paint(Paint(Paint(heap, Uncle, "black"), p, "black"), g, "red")
<1>1. /\ pc = "insert_color" /\ RedParent /\ IsRed(heap, Uncle)
      /\ heap' = r /\ node' = g /\ pc' = "insert_color" /\ parent' = parent
  BY DEF InsertRecolor
<1>2. /\ Shape(heap, T, B) /\ \A s : Heights(heap, T, H, NIL, s)
      /\ Inserting(heap, node, T) /\ parent \in Pointers
  BY <1>1, InsertIs
<1>3. Clash(heap, T, node, p, g, ParentSide)
  BY <1>1, <1>2, RedParentIs
<1> HIDE DEF p, g
<1>4. /\ Shape(r, T, B) /\ Inserting(r, g, T)
      /\ \E G : \A s1 : Heights(r, T, G, NIL, s1)
  <2>1. Uncle = heap.kid[g][Opposite(ParentSide)]
    BY DEF Uncle, g
  <2>2. IsRed(heap, heap.kid[g][Opposite(ParentSide)])
    BY <2>1, <1>1
  <2> QED
    BY <2>1, <2>2, <1>2, <1>3, RecolorKeeps
<1> HIDE DEF r
<1>5. PICK G : \A s1 : Heights(r, T, G, NIL, s1)
  BY <1>4
<1>6. Good(r, "insert_color", g, parent, T, B, G)
  BY <1>2, <1>4, <1>5, InInsert
<1> QED
  BY <1>1, <1>4, <1>6 DEF Becomes

\* rb_insert_color, a black uncle: one or two rotations, and the clash is gone.
LEMMA InsertRotateKeeps ==
    ASSUME NEW T, NEW B, NEW H, TreeInv(T, B, H), InsertRotate
    PROVE  Becomes(T) /\ ~RedParent'
<1> DEFINE p == heap.parent[node]
           g == Grandparent
           d == ParentSide
           h == Rotate(heap, p, d)
           outer == Rotate(Paint(Paint(heap, p, "black"), g, "red"), g, Opposite(d))
           inner == Rotate(Paint(Paint(h, node, "black"), g, "red"), g, Opposite(d))
<1>1. /\ pc = "insert_color" /\ RedParent /\ ~IsRed(heap, Uncle)
      /\ pc' = "insert_color" /\ parent' = parent
      /\ heap.kid[p][Opposite(d)] = node => heap' = inner /\ node' = p
      /\ heap.kid[p][Opposite(d)] # node => heap' = outer /\ node' = node
  BY DEF InsertRotate
<1>2. /\ Shape(heap, T, B) /\ \A s : Heights(heap, T, H, NIL, s)
      /\ Inserting(heap, node, T) /\ parent \in Pointers
  BY <1>1, InsertIs
<1>3. Clash(heap, T, node, p, g, d)
  BY <1>1, <1>2, RedParentIs
<1>4. ~IsRed(heap, heap.kid[g][Opposite(d)])
  BY <1>1 DEF Uncle
<1> HIDE DEF p, g, d
<1>5. CASE heap.kid[p][Opposite(d)] = node
  <2>1. /\ Clash(h, T, p, node, g, d) /\ h.kid[node][d] = p
        /\ ~IsRed(h, h.kid[g][Opposite(d)])
        /\ \E C : Shape(h, T, C)
        /\ \E G : Heights(h, T, G, NIL, NIL)
    <3>1. Heights(heap, T, H, NIL, NIL)
      BY <1>2
    <3> QED
      BY <3>1, <1>2, <1>3, <1>4, <1>5, TurnOutwards
  <2> HIDE DEF h
  <2>2. PICK C : Shape(h, T, C)
    BY <2>1
  <2>3. PICK G : Heights(h, T, G, NIL, NIL)
    BY <2>1
  <2>4. /\ Inserting(inner, p, T) /\ ~IsRed(inner, inner.parent[p])
        /\ \E C1 : Shape(inner, T, C1)
        /\ \E G1 : \A s : Heights(inner, T, G1, NIL, s)
    BY <2>1, <2>2, <2>3, TurnEndsClash
  <2> HIDE DEF inner
  <2>5. PICK C1 : Shape(inner, T, C1)
    BY <2>4
  <2>6. PICK G1 : \A s : Heights(inner, T, G1, NIL, s)
    BY <2>4
  <2>7. Good(inner, "insert_color", p, parent, T, C1, G1)
    BY <2>4, <2>5, <2>6, <1>2, InInsert
  <2> QED
    BY <2>4, <2>7, <1>1, <1>5 DEF Becomes, RedParent
<1>6. CASE heap.kid[p][Opposite(d)] # node
  <2>1. heap.kid[p][d] = node
    <3>1. PICK e \in Sides : heap.kid[p][e] = node
      BY <1>3 DEF Clash
    <3>2. e = d
      BY <3>1, <1>3, <1>6, OppositeIs DEF Clash
    <3> QED
      BY <3>1, <3>2
  <2>2. /\ Inserting(outer, node, T) /\ ~IsRed(outer, outer.parent[node])
        /\ \E C1 : Shape(outer, T, C1)
        /\ \E G1 : \A s : Heights(outer, T, G1, NIL, s)
    BY <2>1, <1>2, <1>3, <1>4, TurnEndsClash
  <2> HIDE DEF outer
  <2>3. PICK C1 : Shape(outer, T, C1)
    BY <2>2
  <2>4. PICK G1 : \A s : Heights(outer, T, G1, NIL, s)
    BY <2>2
  <2>5. Good(outer, "insert_color", node, parent, T, C1, G1)
    BY <2>2, <2>3, <2>4, <1>2, InInsert
  <2> QED
    BY <2>2, <2>5, <1>1, <1>6 DEF Becomes, RedParent
<1> QED
  BY <1>5, <1>6

\* rb_insert_color ends: the root turns black, which all paths have one more of.
LEMMA InsertEndKeeps ==
    ASSUME NEW T, NEW B, NEW H, TreeInv(T, B, H), InsertEnd
    PROVE  Becomes(T)
<1> DEFINE g == Paint(heap, heap.root, "black")
<1>1. /\ pc = "insert_color" /\ ~RedParent
      /\ heap' = g /\ pc' = "idle" /\ node' = NIL /\ parent' = NIL
  BY DEF InsertEnd, Return
<1>2. /\ Shape(heap, T, B) /\ \A s : Heights(heap, T, H, NIL, s)
      /\ Inserting(heap, node, T)
  BY <1>1, InsertIs
<1>3. heap \in Heap /\ heap.root \in T /\ heap.root \in Keys
  BY <1>2 DEF Shape, Inserting
<1>4. Blackened(heap, g, heap.root)
  BY <1>3, PaintsAre
<1> HIDE DEF g
<1>5. g \in Heap /\ g.root = heap.root /\ g.parent = heap.parent /\ g.kid = heap.kid
  BY <1>4 DEF Blackened, Repainted
<1>6. Apart(heap, T, heap.root, heap.root)
  <2>1. ASSUME NEW y \in T, NEW e \in Sides, IsRed(heap, y), IsRed(heap, heap.kid[y][e])
        PROVE  FALSE
    <3>1. y # NIL /\ heap.kid[y][e] # NIL
      BY <2>1 DEF IsRed
    <3>2. heap.kid[y][e] = node
      BY <2>1, <3>1, <1>2 DEF Inserting, Apart
    <3>3. heap.parent[node] = y
      BY <3>1, <3>2, <1>2, NodeFacts
    <3> QED
      BY <3>3, <2>1, <1>1 DEF RedParent
  <2> QED
    BY <2>1 DEF Apart
<1>7. Shape(g, T, B)
  BY <1>2, <1>5, SameShape
<1>8. Apart(g, T, NIL, NIL)
  BY <1>2, <1>3, <1>4, <1>6, BlackeningParts
<1>9. \E G : \A s : Heights(g, T, G, NIL, s)
  <2>1. Heights(heap, T, H, NIL, NIL)
    BY <1>2
  <2> QED
    BY <2>1, <1>2, <1>3, <1>4, BlackenedHeights
<1>10. ~IsRed(g, g.root)
  BY <1>3, <1>4, <1>5 DEF Blackened, Pointers
<1>11. PICK G : \A s : Heights(g, T, G, NIL, s)
  BY <1>9
<1>12. Good(g, "idle", NIL, NIL, T, B, G)
  BY <1>7, <1>8, <1>10, <1>11, AtRest DEF Pointers
<1> QED
  BY <1>1, <1>12 DEF Becomes

\* What Repair starts: the loop where a black node was cut out, nothing otherwise.
LEMMA RepairIs ==
    ASSUME NEW U, NEW c, NEW q \in Pointers, NEW B, Shape(heap', U, B), NEW color,
           Repair(color, c, q),
           color # "black" => /\ Apart(heap', U, NIL, NIL) /\ ~IsRed(heap', heap'.root)
                              /\ \E G : \A s : Heights(heap', U, G, NIL, s),
           color = "black" => /\ Repairing(heap', c, q, U)
                              /\ \E G : Heights(heap', U, G, IF c # heap'.root THEN q ELSE NIL,
                                                SideOf(heap', q, c))
    PROVE  Becomes(U)
<1>1. CASE color = "black"
  <2>1. pc' = "erase_color" /\ node' = c /\ parent' = q
    BY <1>1 DEF Repair
  <2>2. PICK G : Heights(heap', U, G, IF c # heap'.root THEN q ELSE NIL, SideOf(heap', q, c))
    BY <1>1
  <2>3. Good(heap', "erase_color", c, q, U, B, G)
    BY <2>2, <1>1, InErase
  <2> QED
    BY <2>1, <2>3 DEF Becomes
<1>2. CASE color # "black"
  <2>1. pc' = "idle" /\ node' = NIL /\ parent' = NIL
    BY <1>2 DEF Repair
  <2>2. PICK G : \A s : Heights(heap', U, G, NIL, s)
    BY <1>2
  <2>3. Good(heap', "idle", NIL, NIL, U, B, G)
    BY <2>2, <1>2, AtRest DEF Pointers
  <2> QED
    BY <2>1, <2>3 DEF Becomes
<1> QED
  BY <1>1, <1>2

\* A node that is not black is red.
LEMMA ColorIs ==
    ASSUME NEW h \in Heap, NEW n \in Keys  PROVE  IsRed(h, n) <=> h.color[n] # "black"
<1>1. h.color[n] = "red" \/ h.color[n] = "black"
  BY HeapFields
<1> QED
  BY <1>1, TreeAssumption DEF IsRed

\* rb_erase of a node with one kid at most: one key less.
LEMMA EraseSplicesKeeps ==
    ASSUME NEW T, NEW B, NEW H, TreeInv(T, B, H), NEW n \in Keys, EraseSplices(n)
    PROVE  n \in T /\ Becomes(T \ {n})
<1>1. pc = "idle" /\ InTree(n)
  BY DEF EraseSplices
<1>2. /\ Shape(heap, T, B) /\ \A s : Heights(heap, T, H, NIL, s)
      /\ Apart(heap, T, NIL, NIL) /\ ~IsRed(heap, heap.root)
  BY <1>1, RestIs
<1>3. n \in T /\ heap \in Heap
  BY <1>1, <1>2, InTreeIs DEF Shape
<1>4. PICK d \in Sides : /\ heap.kid[n][d] = NIL
                         /\ heap' = Forget(Spliced(n, heap.kid[n][Opposite(d)]), n)
                         /\ Repair(heap.color[n], heap.kid[n][Opposite(d)], heap.parent[n])
  BY DEF EraseSplices
<1> DEFINE child == heap.kid[n][Opposite(d)]
           g == Forget(Spliced(n, child), n)
<1>5. Cut(heap, g, T, n, child)
  <2>1. Opposite(d) \in Sides
    BY OppositeIs
  <2>2. g = Forget(Relink(SetParent(heap, child, heap.parent[n]), heap.parent[n], n, child), n)
    BY DEF Spliced
  <2> HIDE DEF g
  <2> QED
    BY <2>1, <2>2, <1>2, <1>3, CutIs
<1> HIDE DEF g
<1>6. \E C : Shape(g, T \ {n}, C)
  BY <1>2, <1>3, <1>4, <1>5, CutShape
<1>7. /\ IsRed(heap, n) => /\ Apart(g, T \ {n}, NIL, NIL) /\ ~IsRed(g, g.root)
                           /\ \E G : \A s : Heights(g, T \ {n}, G, NIL, s)
      /\ ~IsRed(heap, n) => /\ Repairing(g, child, heap.parent[n], T \ {n})
                            /\ \E G : Heights(g, T \ {n}, G,
                                              IF child # g.root THEN heap.parent[n] ELSE NIL,
                                              SideOf(g, heap.parent[n], child))
  <2>1. Heights(heap, T, H, NIL, NIL)
    BY <1>2
  <2> HIDE DEF child
  <2>2. child = heap.kid[n][Opposite(d)]
    BY DEF child
  <2>3. /\ Shape(heap, T, B) /\ Apart(heap, T, NIL, NIL) /\ ~IsRed(heap, heap.root)
        /\ n \in T /\ heap.kid[n][d] = NIL
    BY <1>2, <1>3, <1>4
  <2>4. CutKept(heap, g, T \ {n}, n, child)
    BY <2>1, <2>2, <2>3, <1>5, CutKeeps
  <2> QED
    BY <2>4 DEF CutKept
<1>8. IsRed(heap, n) <=> heap.color[n] # "black"
  BY <1>3, ColorIs
<1>9. PICK C : Shape(g, T \ {n}, C)
  BY <1>6
<1>10. heap' = g /\ Repair(heap.color[n], child, heap.parent[n])
  BY <1>4 DEF g
<1>11. heap.parent[n] \in Pointers
  BY <1>3, HeapFields
<1> HIDE DEF child
<1>12. Becomes(T \ {n})
  BY <1>7, <1>8, <1>9, <1>10, <1>11, RepairIs
<1> QED
  BY <1>3, <1>12

\* rb_erase of a node with two kids begins at the right one, which all larger keys of the
\* subtree are below.
LEMMA EraseSearchesKeeps ==
    ASSUME NEW T, NEW B, NEW H, TreeInv(T, B, H), NEW n \in Keys, EraseSearches(n)
    PROVE  Becomes(T)
<1>1. /\ pc = "idle" /\ InTree(n) /\ heap' = heap /\ pc' = "successor"
      /\ node' = heap.kid[n]["right"] /\ parent' = n
      /\ \A d \in Sides : heap.kid[n][d] # NIL
  BY DEF EraseSearches
<1>2. /\ Shape(heap, T, B) /\ \A s : Heights(heap, T, H, NIL, s)
      /\ Apart(heap, T, NIL, NIL) /\ ~IsRed(heap, heap.root)
  BY <1>1, RestIs
<1>3. n \in T /\ heap \in Heap
  BY <1>1, <1>2, InTreeIs DEF Shape
<1>4. Succeeding(heap, heap.kid[n]["right"], n, T, B)
  <2>1. ASSUME NEW d \in Sides  PROVE  heap.kid[n][d] \in B[heap.kid[n][d]]
    BY <1>1, <1>2, <1>3, NodeFacts
  <2>2. heap.kid[n]["right"] \in B[heap.kid[n]["right"]]
    BY <2>1, OppositeIs
  <2> QED
    BY <2>2, <1>1, <1>3 DEF Succeeding
<1>5. heap.kid[n]["right"] \in Pointers /\ n \in Pointers
  BY <1>3, HeapFields, OppositeIs DEF Pointers
<1>6. Good(heap, "successor", heap.kid[n]["right"], n, T, B, H)
  BY <1>2, <1>4, <1>5, AtRest
<1> QED
  BY <1>1, <1>6 DEF Becomes

\* One round of the search for the successor: what is left behind is larger.
LEMMA SuccessorDescendsKeeps ==
    ASSUME NEW T, NEW B, NEW H, TreeInv(T, B, H), SuccessorDescends
    PROVE  Becomes(T)
<1> DEFINE l == heap.kid[node]["left"]
           R == heap.kid[parent]["right"]
<1>1. /\ pc = "successor" /\ heap' = heap /\ pc' = "successor" /\ node' = l
      /\ parent' = parent /\ l # NIL
  BY DEF SuccessorDescends
<1>2. /\ Shape(heap, T, B) /\ \A s : Heights(heap, T, H, NIL, s)
      /\ Apart(heap, T, NIL, NIL) /\ ~IsRed(heap, heap.root)
      /\ Succeeding(heap, node, parent, T, B)
  BY <1>1, RestIs
<1>3. /\ heap \in Heap /\ T \subseteq Keys /\ Keys \subseteq Int
      /\ parent \in T /\ \A d \in Sides : heap.kid[parent][d] # NIL
      /\ node \in B[R] /\ \A k \in B[R] : k \in B[node] \/ k > node
  BY <1>2, TreeAssumption DEF Succeeding, Shape
<1>4. R \in T
  <2>1. \A d \in Sides : heap.kid[parent][d] \in T
    BY <1>2, <1>3, NodeFacts
  <2> QED
    BY <2>1, OppositeIs
<1>5. node \in T /\ B[node] \subseteq B[R] /\ B[R] \subseteq T
  BY <1>2, <1>3, <1>4, SubtreeWithin, NodeFacts, OppositeIs
<1>6. /\ l \in T /\ l \in B[node] /\ l \in B[l]
      /\ \A k \in B[node] : k = node \/ k \in B[l] \/ k > node
      /\ l < node
  <2>1. ASSUME NEW d \in Sides
        PROVE  /\ heap.kid[node][d] # NIL =>
                     heap.kid[node][d] \in T /\ heap.kid[node][d] \in B[heap.kid[node][d]]
               /\ B[node] = {node} \cup B[heap.kid[node][d]] \cup B[heap.kid[node][Opposite(d)]]
               /\ \A k \in B[heap.kid[node][d]] : OnSide(k, node, d)
    BY <1>2, <1>5, NodeFacts
  <2>2. l \in T /\ l \in B[l] /\ B[node] = {node} \cup B[heap.kid[node]["right"]] \cup B[l]
    BY <2>1, <1>1, OppositeIs
  <2>3. ASSUME NEW k \in B[heap.kid[node]["right"]]  PROVE  k > node
    <3>1. OnSide(k, node, "right") /\ k \in Keys /\ node \in Keys
      BY <2>1, <2>2, <1>3, <1>5, OppositeIs
    <3> QED
      BY <3>1, OnSideIs
  <2>4. l < node
    <3>1. OnSide(l, node, "left") /\ l \in Keys /\ node \in Keys
      BY <2>1, <2>2, <1>3, <1>5, OppositeIs
    <3> QED
      BY <3>1, OnSideIs
  <2> QED
    BY <2>2, <2>3, <2>4
<1>7. ASSUME NEW k \in B[R]  PROVE  k \in B[l] \/ k > l
  <2>1. k \in Int /\ l \in Int /\ node \in Int
    BY <1>3, <1>5, <1>6
  <2>2. k \in B[l] \/ k = node \/ k > node
    BY <1>3, <1>6
  <2> QED
    BY <2>1, <2>2, <1>6
<1>8. Succeeding(heap, l, parent, T, B)
  BY <1>3, <1>5, <1>6, <1>7 DEF Succeeding
<1>9. l \in Pointers /\ parent \in Pointers
  BY <1>3, <1>6 DEF Pointers
<1>10. Good(heap, "successor", l, parent, T, B, H)
  BY <1>2, <1>8, <1>9, AtRest
<1> QED
  BY <1>1, <1>10 DEF Becomes

\* What is left of the tree when the successor s of n is cut out, and how s is ordered there.
LEMMA SuccessorFits ==
    ASSUME NEW h, NEW T, NEW B, Shape(h, T, B), NEW n, NEW s, NEW p, NEW child,
           NextAfter(h, T, B, n, s, p, child), NEW g, Cut(h, g, T, s, child),
           NEW C, C = [x \in (T \ {s}) \cup {NIL} |-> B[x] \ {s}]
    PROVE  /\ \A x \in T \ {s}, e \in Sides : n \in C[g.kid[x][e]] => OnSide(s, x, e)
           /\ \A e \in Sides : \A k \in C[g.kid[n][e]] : OnSide(k, s, e)
<1>1. /\ NIL \notin T /\ T \subseteq Keys /\ Keys \subseteq Int /\ B[NIL] = {}
      /\ \A e \in Sides : e = "left" \/ e = "right"
  BY TreeAssumption DEF Shape, Sides
<1>2. /\ n \in T /\ s \in T /\ n # s /\ child \in T \cup {NIL} /\ child # s
      /\ s \in B[n] /\ n \notin B[child] /\ \A k \in B[child] : k > s
      /\ h.kid[n]["left"] # s
      /\ \A k \in B[h.kid[n]["left"]] : k < s
      /\ \A k \in B[h.kid[n]["right"]] : k = s \/ k > s
  BY DEF NextAfter
<1>3. ASSUME NEW x \in T \ {s}, NEW e \in Sides
      PROVE  /\ g.kid[x][e] = IF h.kid[x][e] = s THEN child ELSE h.kid[x][e]
             /\ h.kid[x][e] \in T \cup {NIL}
             /\ C[g.kid[x][e]] = B[g.kid[x][e]] \ {s}
  <2>1. h.kid[x][e] \in T \cup {NIL}
    BY NodeFacts
  <2>2. g.kid[x][e] = IF h.kid[x][e] = s THEN child ELSE h.kid[x][e]
    BY DEF Cut
  <2>3. g.kid[x][e] \in (T \ {s}) \cup {NIL}
    BY <2>1, <2>2, <1>1, <1>2
  <2> QED
    BY <2>1, <2>2, <2>3
<1>4. ASSUME NEW x \in T \ {s}, NEW e \in Sides, n \in C[g.kid[x][e]]  PROVE  OnSide(s, x, e)
  <2>1. h.kid[x][e] # s
    BY <1>2, <1>3, <1>4
  <2>2. n \in B[h.kid[x][e]] /\ h.kid[x][e] \in T
    BY <2>1, <1>1, <1>3, <1>4
  <2>3. s \in B[h.kid[x][e]]
    BY <2>2, <1>2, SubtreeWithin
  <2> QED
    BY <2>3, NodeFacts
<1>5. ASSUME NEW e \in Sides, NEW k \in C[g.kid[n][e]]  PROVE  OnSide(k, s, e)
  <2>1. k \in B[g.kid[n][e]] /\ k # s
    BY <1>2, <1>3, <1>5
  <2>2. k \in Keys /\ s \in Keys
    <3>1. g.kid[n][e] \in T \cup {NIL}
      BY <1>2, <1>3
    <3>2. g.kid[n][e] \in T
      BY <3>1, <2>1, <1>1
    <3>3. B[g.kid[n][e]] \subseteq T
      BY <3>2, NodeFacts, OppositeIs
    <3> QED
      BY <3>3, <2>1, <1>1, <1>2
  <2>3. CASE e = "left"
    <3>1. g.kid[n][e] = h.kid[n]["left"]
      BY <2>3, <1>2, <1>3
    <3>2. k < s
      BY <3>1, <2>1, <1>2
    <3> QED
      BY <3>2, <2>2, <2>3, OnSideIs
  <2>4. CASE e = "right"
    <3>1. g.kid[n][e] = child \/ g.kid[n][e] = h.kid[n]["right"]
      BY <2>4, <1>2, <1>3
    <3>2. k > s
      BY <3>1, <2>1, <1>2
    <3> QED
      BY <3>2, <2>2, <2>4, OnSideIs
  <2> QED
    BY <2>3, <2>4, <1>1
<1> QED
  BY <1>4, <1>5

\* rb_erase of a node with two kids: its successor takes its place, one key less.  The move
\* is taken apart in two, the cutting out of the successor and a renaming of n to it.
LEMMA SuccessorReplacesKeeps ==
    ASSUME NEW T, NEW B, NEW H, TreeInv(T, B, H), SuccessorReplaces
    PROVE  parent \in T /\ Becomes(T \ {parent})
<1> DEFINE n == parent
           s == node
           p == heap.parent[s]
           r == IF p = n THEN s ELSE p
           child == heap.kid[s]["right"]
           h == Forget(Relink(SetParent(heap, child, p), p, s, child), s)
           g == Forget(Replaced(n, s), n)
           U == T \ {s}
           V == T \ {n}
           C1 == [x \in U \cup {NIL} |-> B[x] \ {s}]
<1>1. /\ pc = "successor" /\ heap.kid[s]["left"] = NIL
      /\ heap' = g /\ Repair(heap.color[s], child, r)
  BY DEF SuccessorReplaces
<1>2. /\ Shape(heap, T, B) /\ \A q : Heights(heap, T, H, NIL, q)
      /\ Apart(heap, T, NIL, NIL) /\ ~IsRed(heap, heap.root)
      /\ Succeeding(heap, s, n, T, B)
  BY <1>1, RestIs
<1>3. NextAfter(heap, T, B, n, s, p, child)
  BY <1>1, <1>2, NextAfterIs
<1>4. /\ n \in T /\ s \in T /\ n # s /\ p \in T /\ p # s /\ child # n
      /\ heap \in Heap /\ T \subseteq Keys /\ NIL \notin T
      /\ s \in Keys /\ s \notin U /\ n \in U /\ V = (U \ {n}) \cup {s}
  <2>1. n \in T /\ s \in T /\ n # s /\ p \in T /\ p # s /\ child # n
    BY <1>3 DEF NextAfter
  <2>2. heap \in Heap /\ T \subseteq Keys /\ NIL \notin T
    BY <1>2, TreeAssumption DEF Shape
  <2> QED
    BY <2>1, <2>2
<1>5. Cut(heap, h, T, s, child)
  BY <1>2, <1>4, OppositeIs, CutIs
<1> HIDE DEF h
<1>6. Shape(h, U, C1)
  <2>1. child = heap.kid[s][Opposite("left")] /\ "left" \in Sides
    BY DEF Opposite, Sides
  <2> HIDE DEF child
  <2> QED
    BY <2>1, <1>1, <1>2, <1>4, <1>5, CutShape
<1>7. Renamed(h, g, U, n, s)
  BY <1>2, <1>3, <1>5, ReplacedIs
<1> HIDE DEF g
<1>8. \E C : Shape(g, V, C)
  <2>1. /\ \A x \in U, e \in Sides : n \in C1[h.kid[x][e]] => OnSide(s, x, e)
        /\ \A e \in Sides : \A k \in C1[h.kid[n][e]] : OnSide(k, s, e)
    <3> DEFINE q == p
               c == child
    <3>1. NextAfter(heap, T, B, n, s, q, c) /\ Cut(heap, h, T, s, c)
      BY <1>3, <1>5
    <3>2. C1 = [x \in (T \ {s}) \cup {NIL} |-> B[x] \ {s}] /\ Shape(heap, T, B)
      BY <1>2
    <3> HIDE DEF q, c, C1
    <3>3. ASSUME NEW x \in T \ {s}, NEW e \in Sides, n \in C1[h.kid[x][e]]
          PROVE  OnSide(s, x, e)
      BY <3>1, <3>2, <3>3, SuccessorFits
    <3>4. ASSUME NEW e \in Sides, NEW k \in C1[h.kid[n][e]]  PROVE  OnSide(k, s, e)
      BY <3>1, <3>2, SuccessorFits
    <3> QED
      BY <3>3, <3>4
  <2> HIDE DEF C1, U
  <2>2. \E C : Shape(g, (U \ {n}) \cup {s}, C)
    BY <2>1, <1>4, <1>6, <1>7, RenamedShape
  <2> QED
    BY <2>2, <1>4
<1>9. PICK C : Shape(g, V, C)
  BY <1>8
<1>10. /\ IsRed(heap, s) => /\ Apart(h, U, NIL, NIL) /\ ~IsRed(h, h.root)
                            /\ \E G : \A q : Heights(h, U, G, NIL, q)
       /\ ~IsRed(heap, s) => /\ Repairing(h, child, p, U)
                             /\ \E G : Heights(h, U, G,
                                               IF child # h.root THEN p ELSE NIL,
                                               SideOf(h, p, child))
  <2>1. PICK d \in Sides : heap.kid[s][d] = NIL /\ child = heap.kid[s][Opposite(d)]
    <3>1. child = heap.kid[s][Opposite("left")] /\ "left" \in Sides
      BY DEF Opposite, Sides
    <3> QED
      BY <3>1, <1>1
  <2>2. /\ Shape(heap, T, B) /\ Apart(heap, T, NIL, NIL) /\ ~IsRed(heap, heap.root)
        /\ s \in T /\ Heights(heap, T, H, NIL, NIL)
    BY <1>2, <1>4
  <2> HIDE DEF child
  <2>3. CutKept(heap, h, U, s, child)
    BY <2>1, <2>2, <1>5, CutKeeps
  <2> QED
    BY <2>3 DEF CutKept
<1> HIDE DEF C1
<1>11. /\ ~IsRed(h, h.root) => ~IsRed(g, g.root)
       /\ Apart(h, U, NIL, NIL) => Apart(g, V, NIL, NIL)
       /\ \A H1, d : \A q \in U \cup {NIL} :
             Heights(h, U, H1, q, d) => \E G : Heights(g, V, G, IF q = n THEN s ELSE q, d)
       /\ \A c, p1 : Repairing(h, c, p1, U) /\ c # n =>
             LET r1 == IF p1 = n THEN s ELSE p1
             IN  /\ Repairing(g, c, r1, V) /\ (c = g.root <=> c = h.root)
                 /\ c # h.root => SideOf(g, r1, c) = SideOf(h, p1, c)
  <2>1. Shape(h, U, C1) /\ n \in U /\ s \in Keys /\ s \notin U /\ V = (U \ {n}) \cup {s}
    BY <1>4, <1>6
  <2> HIDE DEF U, V
  <2>2. ~IsRed(h, h.root) => ~IsRed(g, g.root)
    BY <2>1, <1>7, RenamedKeeps
  <2>3. Apart(h, U, NIL, NIL) => Apart(g, V, NIL, NIL)
    BY <2>1, <1>7, RenamedKeeps
  <2>4. ASSUME NEW H1, NEW d, NEW q \in U \cup {NIL}, Heights(h, U, H1, q, d)
        PROVE  \E G : Heights(g, V, G, IF q = n THEN s ELSE q, d)
    BY <2>1, <2>4, <1>7, RenamedKeeps
  <2>5. ASSUME NEW c, NEW p1, Repairing(h, c, p1, U), c # n
        PROVE  LET r1 == IF p1 = n THEN s ELSE p1
               IN  /\ Repairing(g, c, r1, V) /\ (c = g.root <=> c = h.root)
                   /\ c # h.root => SideOf(g, r1, c) = SideOf(h, p1, c)
    BY <2>1, <2>5, <1>7, RenamedKeeps
  <2> QED
    BY <2>2, <2>3, <2>4, <2>5
<1>12. ASSUME IsRed(heap, s)
       PROVE  /\ Apart(g, V, NIL, NIL) /\ ~IsRed(g, g.root)
              /\ \E G : \A q : Heights(g, V, G, NIL, q)
  <2>1. PICK G : Heights(h, U, G, NIL, NIL)
    BY <1>10, <1>12
  <2>2. PICK G1 : Heights(g, V, G1, IF NIL = n THEN s ELSE NIL, NIL)
    BY <2>1, <1>11
  <2>3. Heights(g, V, G1, NIL, NIL)
    BY <2>2, <1>4
  <2>4. \A q : Heights(g, V, G1, NIL, q)
    BY <2>3, <1>9, NoDebtor
  <2> QED
    BY <2>4, <1>10, <1>11, <1>12
<1> HIDE DEF child, p
<1>13. ASSUME ~IsRed(heap, s)
       PROVE  /\ Repairing(g, child, r, V)
              /\ \E G : Heights(g, V, G, IF child # g.root THEN r ELSE NIL, SideOf(g, r, child))
  <2>1. Repairing(h, child, p, U) /\ child # n
    BY <1>4, <1>10, <1>13
  <2>2. /\ Repairing(g, child, r, V) /\ (child = g.root <=> child = h.root)
        /\ child # h.root => SideOf(g, r, child) = SideOf(h, p, child)
    BY <2>1, <1>11
  <2>3. PICK G : Heights(h, U, G, IF child # h.root THEN p ELSE NIL, SideOf(h, p, child))
    BY <1>10, <1>13
  <2>4. CASE child # h.root
    <3>1. Heights(h, U, G, p, SideOf(h, p, child)) /\ p \in U \cup {NIL}
      BY <2>3, <2>4, <1>4
    <3>2. PICK G1 : Heights(g, V, G1, r, SideOf(h, p, child))
      BY <3>1, <1>11
    <3>3. child # g.root /\ SideOf(g, r, child) = SideOf(h, p, child)
      BY <2>2, <2>4
    <3>4. Heights(g, V, G1, IF child # g.root THEN r ELSE NIL, SideOf(g, r, child))
      BY <3>2, <3>3
    <3> QED
      BY <3>4, <2>2
  <2>5. CASE child = h.root
    <3>1. Heights(h, U, G, NIL, SideOf(h, p, child))
      BY <2>3, <2>5
    <3>2. PICK G1 : Heights(g, V, G1, IF NIL = n THEN s ELSE NIL, SideOf(h, p, child))
      BY <3>1, <1>11
    <3>3. Heights(g, V, G1, NIL, SideOf(h, p, child))
      BY <3>2, <1>4
    <3>4. Heights(g, V, G1, NIL, SideOf(g, r, child))
      BY <3>3, <1>9, NoDebtor
    <3>5. Heights(g, V, G1, IF child # g.root THEN r ELSE NIL, SideOf(g, r, child))
      BY <3>4, <2>2, <2>5
    <3> QED
      BY <3>5, <2>2
  <2> QED
    BY <2>4, <2>5
<1>14. IsRed(heap, s) <=> heap.color[s] # "black"
  BY <1>4, ColorIs
<1>15. r \in Pointers /\ Repair(heap.color[s], child, r)
  <2>1. r \in Pointers
    BY <1>4 DEF Pointers
  <2>2. Repair(heap.color[s], child, r)
    BY <1>1
  <2> QED
    BY <2>1, <2>2
<1> HIDE DEF r
<1>16. Becomes(V)
  BY <1>1, <1>9, <1>12, <1>13, <1>14, <1>15, RepairIs
<1> QED
  BY <1>4, <1>16

\* What holds in the loop of __rb_erase_color.
LEMMA EraseIs ==
    ASSUME NEW T, NEW B, NEW H, TreeInv(T, B, H), pc = "erase_color"
    PROVE  /\ Shape(heap, T, B) /\ Repairing(heap, node, parent, T)
           /\ Heights(heap, T, H, IF node # heap.root THEN parent ELSE NIL,
                      SideOf(heap, parent, node))
           /\ parent \in Pointers
<1>1. Debtor(heap, pc, node, parent) = IF node # heap.root THEN parent ELSE NIL
  BY DEF Debtor
<1>2. /\ Shape(heap, T, B)
      /\ Heights(heap, T, H, Debtor(heap, pc, node, parent), SideOf(heap, parent, node))
  BY DEF TreeInv, Good
<1> QED
  BY <1>1, <1>2 DEF TreeInv, Good

\* The test of the loop of __rb_erase_color says that the paths lack a black node.
LEMMA ShortIs ==
    ASSUME NEW T, NEW B, NEW H, TreeInv(T, B, H), pc = "erase_color", Short
    PROVE  Shape(heap, T, B) /\ Lacking(heap, T, node, parent, ShortSide)
           /\ Heights(heap, T, H, parent, ShortSide) /\ parent \in Pointers
<1>1. ~IsRed(heap, node) /\ node # heap.root /\ ShortSide = SideOf(heap, parent, node)
  BY DEF Short, ShortSide
<1> QED
  BY <1>1, EraseIs, LackingIs

\* The sibling is black once it is turned up.
LEMMA SiblingBlackIs ==
    ASSUME NEW T, NEW B, NEW H, TreeInv(T, B, H), pc = "erase_color", Short
    PROVE  /\ Lacking(SiblingBlack, T, node, parent, ShortSide)
           /\ \E C : Shape(SiblingBlack, T, C)
           /\ \E G : Heights(SiblingBlack, T, G, parent, ShortSide)
           /\ ~IsRed(SiblingBlack, Sibling)
           /\ \A y \in B[node], e \in Sides : SiblingBlack.kid[y][e] = heap.kid[y][e]
<1> DEFINE d == ShortSide
           other == heap.kid[parent][Opposite(d)]
           r == Rotate(Paint(Paint(heap, other, "black"), parent, "red"), parent, d)
<1>1. Shape(heap, T, B) /\ Lacking(heap, T, node, parent, d) /\ Heights(heap, T, H, parent, d)
  BY ShortIs
<1>2. CASE IsRed(heap, other)
  <2>1. SiblingBlack = r /\ Sibling = r.kid[parent][Opposite(d)]
    BY <1>2 DEF SiblingBlack, Sibling
  <2> HIDE DEF d
  <2>2. /\ Lacking(r, T, node, parent, d)
        /\ \E C : Shape(r, T, C)
        /\ \E G : Heights(r, T, G, parent, d)
        /\ ~IsRed(r, r.kid[parent][Opposite(d)])
        /\ \A y \in B[node], e \in Sides : r.kid[y][e] = heap.kid[y][e]
    BY <1>1, <1>2, SiblingTurnsUp
  <2> QED
    BY <2>1, <2>2 DEF d
<1>3. CASE ~IsRed(heap, other)
  <2>1. SiblingBlack = heap /\ Sibling = other
    BY <1>3 DEF SiblingBlack, Sibling
  <2> QED
    BY <2>1, <1>1, <1>3
<1> QED
  BY <1>2, <1>3

\* __rb_erase_color, two black nephews: the loop goes on from the parent.
LEMMA EraseRecolorKeeps ==
    ASSUME NEW T, NEW B, NEW H, TreeInv(T, B, H), EraseRecolor
    PROVE  /\ Becomes(T) /\ heap'.kid[parent][ShortSide] = node
           /\ \A y \in B[node], e \in Sides : heap'.kid[y][e] = heap.kid[y][e]
<1> DEFINE S == SiblingBlack
           d == ShortSide
           r == Paint(S, Sibling, "red")
           q == S.parent[parent]
<1>1. /\ pc = "erase_color" /\ Short /\ BlackNephews
      /\ heap' = r /\ node' = parent /\ parent' = q /\ pc' = "erase_color"
  BY DEF EraseRecolor
<1>2. /\ Lacking(S, T, node, parent, d) /\ ~IsRed(S, Sibling)
      /\ \E C : Shape(S, T, C)
      /\ \E G : Heights(S, T, G, parent, d)
      /\ \A y \in B[node], e \in Sides : S.kid[y][e] = heap.kid[y][e]
  BY <1>1, SiblingBlackIs
<1>3. /\ Sibling = S.kid[parent][Opposite(d)]
      /\ \A e \in Sides : ~IsRed(S, S.kid[Sibling][e])
  BY <1>1 DEF Sibling, BlackNephews
<1> HIDE DEF S, d
<1>4. PICK C : Shape(S, T, C)
  BY <1>2
<1>5. PICK G : Heights(S, T, G, parent, d)
  BY <1>2
<1>6. /\ Shape(r, T, C) /\ Repairing(r, parent, q, T)
      /\ \E G1 : Heights(r, T, G1, IF parent # r.root THEN q ELSE NIL, SideOf(r, q, parent))
  <2>1. /\ ~IsRed(S, S.kid[parent][Opposite(d)])
        /\ \A e \in Sides : ~IsRed(S, S.kid[S.kid[parent][Opposite(d)]][e])
        /\ r = Paint(S, S.kid[parent][Opposite(d)], "red")
    BY <1>2, <1>3
  <2> HIDE DEF r
  <2> QED
    BY <2>1, <1>2, <1>4, <1>5, RecolorPasses
<1>7. r.kid = S.kid
  <2>1. S \in Heap
    BY <1>4 DEF Shape
  <2> QED
    BY <2>1 DEF Paint, Heap
<1> HIDE DEF r
<1>8. PICK G1 : Heights(r, T, G1, IF parent # r.root THEN q ELSE NIL, SideOf(r, q, parent))
  BY <1>6
<1>9. q \in Pointers
  BY <1>2, <1>4, HeapFields DEF Lacking, Shape
<1>10. Good(r, "erase_color", parent, q, T, C, G1)
  BY <1>6, <1>8, <1>9, InErase
<1> QED
  BY <1>1, <1>2, <1>10, <1>7 DEF Becomes, Lacking, d

\* __rb_erase_color, a red nephew: up to three rotations, and nothing is missing.
LEMMA EraseRotateKeeps ==
    ASSUME NEW T, NEW B, NEW H, TreeInv(T, B, H), EraseRotate
    PROVE  Becomes(T)
<1> DEFINE S == SiblingBlack
           d == ShortSide
           o == Sibling
           near == S.kid[o][d]
           h1 == IF IsRed(S, S.kid[o][Opposite(d)]) THEN S
                 ELSE Rotate(Paint(Paint(S, near, "black"), o, "red"), o, Opposite(d))
           top == h1.kid[parent][Opposite(d)]
           h2 == Paint(Paint(Paint(h1, top, h1.color[parent]), parent, "black"),
                       h1.kid[top][Opposite(d)], "black")
           r == Rotate(h2, parent, d)
<1>1. /\ pc = "erase_color" /\ Short /\ ~BlackNephews
      /\ heap' = r /\ node' = r.root /\ pc' = "erase_color" /\ parent' = parent
  BY DEF EraseRotate
<1>2. /\ Lacking(S, T, node, parent, d) /\ ~IsRed(S, o)
      /\ \E C : Shape(S, T, C)
      /\ \E G : Heights(S, T, G, parent, d)
      /\ parent \in Pointers /\ d \in Sides
  BY <1>1, SiblingBlackIs, ShortIs DEF Lacking
<1>3. o = S.kid[parent][Opposite(d)] /\ \E e \in Sides : IsRed(S, S.kid[o][e])
  BY <1>1 DEF Sibling, BlackNephews
<1> HIDE DEF S, d, o
<1>4. PICK C : Shape(S, T, C)
  BY <1>2
<1>5. PICK G : Heights(S, T, G, parent, d)
  BY <1>2
<1>6. /\ Lacking(h1, T, node, parent, d)
      /\ \E C1 : Shape(h1, T, C1)
      /\ \E G1 : Heights(h1, T, G1, parent, d)
      /\ ~IsRed(h1, top) /\ IsRed(h1, h1.kid[top][Opposite(d)])
  <2>1. CASE IsRed(S, S.kid[o][Opposite(d)])
    <3>1. h1 = S /\ top = o
      BY <2>1, <1>3
    <3> HIDE DEF h1, top
    <3> QED
      BY <3>1, <2>1, <1>2
  <2>2. CASE ~IsRed(S, S.kid[o][Opposite(d)])
    <3> DEFINE h0 == Rotate(Paint(Paint(S, near, "black"), o, "red"), o, Opposite(d))
    <3>1. h1 = h0 /\ top = h0.kid[parent][Opposite(d)]
      BY <2>2
    <3>2. IsRed(S, near)
      <4>1. PICK e \in Sides : IsRed(S, S.kid[o][e])
        BY <1>3
      <4>2. e = d \/ e = Opposite(d)
        BY <1>2, OppositeIs
      <4> QED
        BY <4>1, <4>2, <2>2
    <3> HIDE DEF h1, top
    <3>3. TurnedOut(h0, T, node, parent, d, near)
      <4>1. /\ Lacking(S, T, node, parent, d) /\ ~IsRed(S, o) /\ IsRed(S, S.kid[o][d])
            /\ ~IsRed(S, S.kid[o][Opposite(d)]) /\ o = S.kid[parent][Opposite(d)]
        BY <3>2, <2>2, <1>2, <1>3
      <4> QED
        BY <4>1, <1>4, <1>5, NephewTurnsOut
    <3> HIDE DEF h0, near
    <3> QED
      BY <3>1, <3>3 DEF TurnedOut
  <2> QED
    BY <2>1, <2>2
<1> HIDE DEF h1
<1>7. PICK C1 : Shape(h1, T, C1)
  BY <1>6
<1>8. PICK G1 : Heights(h1, T, G1, parent, d)
  BY <1>6
<1>9. /\ \E C2 : Shape(r, T, C2)
      /\ \E G2 : \A s : Heights(r, T, G2, NIL, s)
      /\ Apart(r, T, NIL, NIL)
  BY <1>6, <1>7, <1>8, TurnPays
<1> HIDE DEF r
<1>10. PICK C2 : Shape(r, T, C2)
  BY <1>9
<1>11. PICK G2 : \A s : Heights(r, T, G2, NIL, s)
  BY <1>9
<1>12. Repairing(r, r.root, parent, T)
  <2>1. r.root \in T \cup {NIL}
    BY <1>10 DEF Shape
  <2>2. Apart(r, T, r.root, r.root)
    <3>1. ASSUME NEW y \in T, NEW e \in Sides, IsRed(r, y), IsRed(r, r.kid[y][e])  PROVE  FALSE
      <4>1. y # NIL /\ r.kid[y][e] # NIL
        BY <3>1 DEF IsRed
      <4> QED
        BY <4>1, <3>1, <1>9 DEF Apart
    <3> QED
      BY <3>1 DEF Apart
  <2> QED
    BY <2>1, <2>2 DEF Repairing
<1>13. Heights(r, T, G2, IF r.root # r.root THEN parent ELSE NIL, SideOf(r, parent, r.root))
  BY <1>11
<1>14. Good(r, "erase_color", r.root, parent, T, C2, G2)
  BY <1>2, <1>10, <1>12, <1>13, InErase
<1> QED
  BY <1>1, <1>14 DEF Becomes

\* __rb_erase_color ends: at a red node, which turns black and pays, or at the root.
LEMMA EraseEndKeeps ==
    ASSUME NEW T, NEW B, NEW H, TreeInv(T, B, H), EraseEnd
    PROVE  Becomes(T)
<1>1. /\ pc = "erase_color" /\ ~Short
      /\ heap' = (IF node = NIL THEN heap ELSE Paint(heap, node, "black"))
      /\ pc' = "idle" /\ node' = NIL /\ parent' = NIL
  BY DEF EraseEnd, Return
<1>2. /\ Shape(heap, T, B) /\ Repairing(heap, node, parent, T)
      /\ Heights(heap, T, H, IF node # heap.root THEN parent ELSE NIL,
                 SideOf(heap, parent, node))
  BY <1>1, EraseIs
<1>3. IsRed(heap, node) \/ node = heap.root
  BY <1>1 DEF Short
<1>4. /\ node \in T \cup {NIL} /\ Apart(heap, T, node, node)
      /\ node # heap.root => parent \in T /\ heap.kid[parent][SideOf(heap, parent, node)] = node
      /\ IsRed(heap, heap.root) => node = heap.root
      /\ heap \in Heap /\ T \subseteq Keys
  BY <1>2 DEF Repairing, Shape
<1>5. CASE node = NIL
  <2>1. node = heap.root /\ T = {} /\ ~IsRed(heap, heap.root)
    <3>1. node = heap.root /\ ~IsRed(heap, heap.root)
      BY <1>3, <1>5 DEF IsRed
    <3> QED
      BY <3>1, <1>2, <1>5 DEF Shape
  <2>2. Heights(heap, T, H, NIL, SideOf(heap, parent, node))
    BY <2>1, <1>2
  <2>3. \A s : Heights(heap, T, H, NIL, s)
    BY <2>2, <1>2, NoDebtor
  <2>4. Apart(heap, T, NIL, NIL)
    BY <2>1 DEF Apart
  <2>5. Good(heap, "idle", NIL, NIL, T, B, H)
    BY <2>1, <2>3, <2>4, <1>2, AtRest DEF Pointers
  <2> QED
    BY <2>5, <1>1, <1>5 DEF Becomes
<1>6. CASE node # NIL
  <2> DEFINE g == Paint(heap, node, "black")
  <2>1. node \in T /\ node \in Keys
    BY <1>4, <1>6
  <2>2. Blackened(heap, g, node)
    BY <2>1, <1>4, PaintsAre
  <2>3. heap' = g
    BY <1>1, <1>6
  <2> HIDE DEF g
  <2>4. g \in Heap /\ g.root = heap.root /\ g.parent = heap.parent /\ g.kid = heap.kid
    BY <2>2 DEF Blackened, Repainted
  <2>5. Shape(g, T, B)
    BY <2>4, <1>2, SameShape
  <2>6. Apart(g, T, NIL, NIL)
    BY <2>1, <2>2, <1>2, <1>4, BlackeningParts
  <2>7. \E G : \A s : Heights(g, T, G, NIL, s)
    <3>1. CASE node = heap.root
      <4>1. Heights(heap, T, H, NIL, SideOf(heap, parent, node))
        BY <3>1, <1>2
      <4> QED
        BY <4>1, <3>1, <2>1, <2>2, <1>2, BlackenedHeights
    <3>2. CASE node # heap.root
      <4>1. Heights(heap, T, H, parent, SideOf(heap, parent, node))
        BY <3>2, <1>2
      <4>2. /\ IsRed(heap, node) /\ parent \in T /\ SideOf(heap, parent, node) \in Sides
            /\ heap.kid[parent][SideOf(heap, parent, node)] = node
        BY <3>2, <1>3, <1>4, SideOfIs
      <4> QED
        BY <4>1, <4>2, <2>1, <2>2, <1>2, BlackenedHeights
    <3> QED
      BY <3>1, <3>2
  <2>8. ~IsRed(g, g.root)
    <3>1. IsRed(g, heap.root) <=> heap.root # node /\ IsRed(heap, heap.root)
      <4>1. heap.root \in Pointers
        BY <1>4, HeapFields
      <4> QED
        BY <4>1, <2>2 DEF Blackened
    <3> QED
      BY <3>1, <2>4, <1>4
  <2>9. PICK G : \A s : Heights(g, T, G, NIL, s)
    BY <2>7
  <2>10. Good(g, "idle", NIL, NIL, T, B, G)
    BY <2>5, <2>6, <2>8, <2>9, AtRest DEF Pointers
  <2> QED
    BY <2>3, <2>10, <1>1 DEF Becomes
<1> QED
  BY <1>5, <1>6

-----------------------------------------------------------------------------
(* The invariant.                                                           *)

\* The empty tree.
LEMMA InitIs ==
    ASSUME Init  PROVE  Inv
<1> DEFINE T == {}
           B == [x \in T \cup {NIL} |-> {}]
           H == [x \in T \cup {NIL} |-> 0]
<1>1. /\ heap \in Heap /\ heap.root = NIL /\ \A n \in Keys : heap.parent[n] = NIL
      /\ pc = "idle" /\ node = NIL /\ parent = NIL
  BY DEF Init, Heap, Blank, Sides, Pointers
<1>2. Shape(heap, T, B)
  BY <1>1, FS_EmptySet DEF Shape
<1>3. \A s : Heights(heap, T, H, NIL, s)
  BY DEF Heights
<1>4. Apart(heap, T, NIL, NIL) /\ ~IsRed(heap, heap.root)
  BY <1>1 DEF Apart, IsRed
<1> HIDE DEF T, B, H
<1>5. Good(heap, "idle", NIL, NIL, T, B, H)
  BY <1>2, <1>3, <1>4, AtRest DEF Pointers
<1>6. TreeInv(T, B, H)
  BY <1>1, <1>5 DEF TreeInv
<1> QED
  BY <1>6 DEF Inv

\* Whatever step is taken: the nodes of the tree change by one at most, and only where
\* a new key is linked or one is cut out.
LEMMA StepIs ==
    ASSUME NEW T, NEW B, NEW H, TreeInv(T, B, H), [Next]_vars
    PROVE  \/ Becomes(T)
           \/ \E k \in Keys : k \notin T /\ Becomes(T \cup {k})
           \/ \E k \in Keys : k \in T /\ Becomes(T \ {k})
<1>1. ASSUME UNCHANGED vars  PROVE  Becomes(T)
  BY <1>1 DEF vars, TreeInv, Becomes
<1>2. ASSUME NEW k \in Keys, Call(k)  PROVE  Becomes(T)
  BY <1>2, CallKeeps
<1>3. ASSUME NEW k \in Keys, Erase(k)
      PROVE  Becomes(T) \/ (k \in T /\ Becomes(T \ {k}))
  BY <1>3, EraseSplicesKeeps, EraseSearchesKeeps DEF Erase
<1>4. ASSUME Search
      PROVE  Becomes(T) \/ (\E k \in Keys : k \notin T /\ Becomes(T \cup {k}))
  <2>1. CASE Descend
    BY <2>1, DescendKeeps
  <2>2. CASE Found \/ NotFound
    BY <2>2, ReturnKeeps
  <2>3. CASE LinkNode
    BY <2>3, LinkNodeKeeps
  <2> QED
    BY <1>4, <2>1, <2>2, <2>3 DEF Search
<1>5. ASSUME InsertColor  PROVE  Becomes(T)
  <2>1. CASE InsertRecolor
    BY <2>1, InsertRecolorKeeps
  <2>2. CASE InsertRotate
    BY <2>2, InsertRotateKeeps
  <2>3. CASE InsertEnd
    BY <2>3, InsertEndKeeps
  <2> QED
    BY <1>5, <2>1, <2>2, <2>3 DEF InsertColor
<1>6. ASSUME Successor
      PROVE  Becomes(T) \/ (\E k \in Keys : k \in T /\ Becomes(T \ {k}))
  <2>1. CASE SuccessorDescends
    BY <2>1, SuccessorDescendsKeeps
  <2>2. CASE SuccessorReplaces
    <3>1. parent \in T /\ Becomes(T \ {parent})
      BY <2>2, SuccessorReplacesKeeps
    <3>2. parent \in Keys
      BY <3>1 DEF TreeInv, Good, Shape
    <3> QED
      BY <3>1, <3>2
  <2> QED
    BY <1>6, <2>1, <2>2 DEF Successor
<1>7. ASSUME EraseColor  PROVE  Becomes(T)
  <2>1. CASE EraseRecolor
    BY <2>1, EraseRecolorKeeps
  <2>2. CASE EraseRotate
    BY <2>2, EraseRotateKeeps
  <2>3. CASE EraseEnd
    BY <2>3, EraseEndKeeps
  <2> QED
    BY <1>7, <2>1, <2>2, <2>3 DEF EraseColor
<1>8. CASE Next
  <2>1. CASE \E k \in Keys : Call(k) \/ Erase(k)
    BY <2>1, <1>2, <1>3
  <2>2. CASE Search \/ InsertColor \/ Successor \/ EraseColor
    BY <2>2, <1>4, <1>5, <1>6, <1>7
  <2> QED
    BY <1>8, <2>1, <2>2, Zenon DEF Next
<1> QED
  BY <1>1, <1>8

\* A good state after a step.
LEMMA BecomesGood ==
    ASSUME NEW T, Becomes(T)  PROVE  Inv'
BY DEF Becomes, Inv, TreeInv

\* In every round of every loop of rbtree.c the heap is a tree of some keys in order, with
\* equal black heights and parted reds but for what the loop it is in still owes.
THEOREM TreeKept == Spec => []Inv
<1>1. Init => Inv
  BY InitIs
<1>2. Inv /\ [Next]_vars => Inv'
  <2> SUFFICES ASSUME Inv, [Next]_vars  PROVE  Inv'
    OBVIOUS
  <2>1. PICK T, B, H : TreeInv(T, B, H)
    BY DEF Inv
  <2> QED
    BY <2>1, StepIs, BecomesGood
<1> QED
  BY <1>1, <1>2, PTL DEF Spec

-----------------------------------------------------------------------------
(* What the invariant says of the properties of RBTree.                     *)

\* No link leads out of a subtree.
LEMMA SubtreeClosed ==
    ASSUME NEW h, NEW T, NEW B, Shape(h, T, B), NEW n \in T \cup {NIL}
    PROVE  B[n] \in SUBSET Keys /\ n \in B[n] \cup {NIL} /\ Closed(h, B[n])
<1>1. NIL \notin T /\ T \subseteq Keys /\ B[NIL] = {} /\ B[n] \subseteq T
  BY TreeAssumption DEF Shape
<1>2. n \in B[n] \cup {NIL}
  BY NodeFacts, OppositeIs
<1>3. ASSUME NEW y \in B[n], NEW d \in Sides  PROVE  h.kid[y][d] \in B[n] \cup {NIL}
  <2>1. n \in T
    BY <1>1
  <2>2. y \in T /\ B[y] \subseteq B[n]
    BY <2>1, SubtreeWithin
  <2>3. h.kid[y][d] # NIL => h.kid[y][d] \in B[h.kid[y][d]] /\ B[h.kid[y][d]] \subseteq B[y]
    BY <2>2, NodeFacts
  <2> QED
    BY <2>2, <2>3
<1> QED
  BY <1>1, <1>2, <1>3 DEF Closed

\* What the links of the heap lead to from a node are the nodes of the subtree at it: what
\* the invariant says of T and B holds of the tree that the code walks.
LEMMA BelowIs ==
    ASSUME NEW h, NEW T, NEW B, Shape(h, T, B), NEW n \in T \cup {NIL}
    PROVE  Below(h, n) = B[n]
<1> DEFINE holding == {S \in SUBSET Keys : n \in S \cup {NIL} /\ Closed(h, S)}
<1>1. NIL \notin T /\ T \subseteq Keys /\ B[NIL] = {} /\ B[n] \subseteq T
  BY TreeAssumption DEF Shape
<1>2. B[n] \in holding
  BY SubtreeClosed
<1>3. ASSUME NEW k \in B[n], NEW S \in holding, k \notin S  PROVE  FALSE
  <2> DEFINE M == {m \in T : m \in S /\ k \in B[m]}
  <2>1. n \in M
    BY <1>1, <1>3
  <2>2. PICK m \in M : \A d \in Sides : h.kid[m][d] \notin M
    <3>1. M \subseteq T /\ M # {}
      BY <2>1
    <3> HIDE DEF M
    <3> QED
      BY <3>1, Lowest
  <2>3. m \in T /\ m \in S /\ k \in B[m] /\ k # m
    BY <1>3, <2>2
  <2>4. PICK d \in Sides : k \in B[h.kid[m][d]]
    BY <2>3, NodeFacts, OppositeIs
  <2>5. h.kid[m][d] \in T
    BY <2>3, <2>4, <1>1, NodeFacts
  <2>6. h.kid[m][d] \in S
    BY <2>3, <2>5, <1>1 DEF Closed
  <2> QED
    BY <2>2, <2>4, <2>5, <2>6
<1>4. Below(h, n) = {k \in Keys : \A S \in holding : k \in S}
  BY DEF Below
<1>5. B[n] \subseteq Below(h, n)
  BY <1>1, <1>3, <1>4
<1>6. Below(h, n) \subseteq B[n]
  BY <1>2, <1>4
<1> QED
  BY <1>5, <1>6

\* rb_insert_color and rb_erase keep a search tree in every round of their loops, with each
\* node the parent of its kids, and the search of map.c is never past its key.
THEOREM SearchTreeKept == Spec => []SearchTree
<1>1. Inv => SearchTree
  <2> SUFFICES ASSUME NEW T, NEW B, NEW H, TreeInv(T, B, H)  PROVE  SearchTree
    BY DEF Inv
  <2>1. /\ Shape(heap, T, B) /\ pc \in {"idle", "search", "insert_color", "successor", "erase_color"}
        /\ node \in Pointers /\ parent \in Pointers
        /\ pc = "search" => Searching(heap, node, parent, T, B)
    BY DEF TreeInv, Good
  <2>2. /\ T \subseteq Keys /\ NIL \notin T /\ heap \in Heap /\ heap.root \in T \cup {NIL}
        /\ B[heap.root] = T /\ (heap.root # NIL => heap.parent[heap.root] = NIL)
    BY <2>1, TreeAssumption DEF Shape
  <2>3. \A n \in T \cup {NIL} : Below(heap, n) = B[n]
    BY <2>1, BelowIs
  <2>4. Contents = T
    BY <2>2, <2>3 DEF Contents
  <2>5. TypeOK
    BY <2>1, <2>2 DEF TypeOK, Heap
  <2>6. SearchStaysAbove
    <3>1. SUFFICES ASSUME pc = "search", node \in T  PROVE  node \in Below(heap, Link)
      BY <2>4 DEF SearchStaysAbove
    <3>2. Link = LinkFrom(heap, node, parent)
      BY DEF Link, LinkFrom
    <3>3. node \in B[Link] /\ parent \in T \cup {NIL}
      BY <3>1, <3>2, <2>1 DEF Searching
    <3>4. \A x \in T, d \in Sides : heap.kid[x][d] \in T \cup {NIL}
      BY <2>1, NodeFacts
    <3>5. Link \in T \cup {NIL}
      BY <3>3, <3>4, <2>2, OppositeIs DEF Link
    <3> QED
      BY <3>3, <3>5, <2>3
  <2>7. ASSUME NEW n \in T
        PROVE  /\ \A k \in Below(heap, heap.kid[n]["left"]) : k < n
               /\ \A k \in Below(heap, heap.kid[n]["right"]) : k > n
               /\ \A d \in Sides : heap.kid[n][d] # NIL => heap.parent[heap.kid[n][d]] = n
    <3>1. ASSUME NEW d \in Sides
          PROVE  /\ Below(heap, heap.kid[n][d]) = B[heap.kid[n][d]]
                 /\ B[heap.kid[n][d]] \subseteq Keys /\ n \in Keys
                 /\ \A k \in B[heap.kid[n][d]] : OnSide(k, n, d)
                 /\ heap.kid[n][d] # NIL => heap.parent[heap.kid[n][d]] = n
      BY <2>1, <2>2, <2>3, NodeFacts
    <3> QED
      BY <3>1, OppositeIs, OnSideIs
  <2> QED
    BY <2>2, <2>4, <2>5, <2>6, <2>7 DEF SearchTree
<1> QED
  BY <1>1, TreeKept, PTL

\* Of all the steps of map.c and rbtree.c only the linking of a new key and an erasure change
\* what hangs below the root, by that one key: the tree implements KeySet.
THEOREM KeySetKept == Spec => ImplementsKeySet
<1>1. ASSUME NEW T, NEW B, NEW H, TreeInv(T, B, H)  PROVE  Contents = T
  <2>1. Shape(heap, T, B) /\ heap.root \in T \cup {NIL} /\ B[heap.root] = T
    BY <1>1 DEF TreeInv, Good, Shape
  <2> QED
    BY <2>1, BelowIs DEF Contents
<1>2. ASSUME NEW T, Becomes(T)  PROVE  Contents' = T
  <2>1. PICK B, H : Good(heap', pc', node', parent', T, B, H)
    BY <1>2 DEF Becomes
  <2>2. Shape(heap', T, B) /\ heap'.root \in T \cup {NIL} /\ B[heap'.root] = T
    BY <2>1 DEF Good, Shape
  <2> QED
    BY <2>2, BelowIs DEF Contents
<1>3. Init => Set!KeySetInit
  <2> SUFFICES ASSUME Init  PROVE  Contents = {}
    BY DEF Set!KeySetInit
  <2>1. Closed(heap, {}) /\ heap.root = NIL
    BY DEF Closed, Init
  <2> QED
    BY <2>1 DEF Contents, Below
<1>4. Inv /\ [Next]_vars => [Set!KeySetNext]_Contents
  <2> SUFFICES ASSUME Inv, [Next]_vars  PROVE  [Set!KeySetNext]_Contents
    OBVIOUS
  <2>1. PICK T, B, H : TreeInv(T, B, H)
    BY DEF Inv
  <2>2. Contents = T
    BY <2>1, <1>1
  <2>3. CASE Becomes(T)
    BY <2>2, <2>3, <1>2
  <2>4. CASE \E k \in Keys : k \notin T /\ Becomes(T \cup {k})
    BY <2>2, <2>4, <1>2 DEF Set!KeySetNext, Set!Add
  <2>5. CASE \E k \in Keys : k \in T /\ Becomes(T \ {k})
    BY <2>2, <2>5, <1>2 DEF Set!KeySetNext, Set!Remove
  <2> QED
    BY <2>1, <2>3, <2>4, <2>5, StepIs
<1>5. Spec => []Inv
  BY TreeKept
<1> QED
  BY <1>3, <1>4, <1>5, PTL DEF Spec, ImplementsKeySet, Set!KeySetSpec

\* The black nodes of the subtree at x on the path to the end below y.
Blacks(h, B, x, y) == {k \in B[x] : y \in B[k] /\ ~IsRed(h, k)}

\* The path from x to the end e leads through the link of q on side s, which has a credit.
Credited(h, B, x, e, q, s) ==
    q \in B[x] /\ (e[1] \in B[h.kid[q][s]] \/ e = <<q, s>>)

\* The black nodes on the path from a node down to where a link leads nowhere, each counted,
\* are as many as H says, and one less where the path is credited with one.
LEMMA PathsAre ==
    ASSUME NEW h, NEW T, NEW B, Shape(h, T, B), NEW H, NEW q, NEW s \in Sides,
           Heights(h, T, H, q, s), q \in T \cup {NIL},
           NEW y \in T, NEW t \in Sides, h.kid[y][t] = NIL, NEW x \in T, y \in B[x]
    PROVE  /\ IsFiniteSet(Blacks(h, B, x, y))
           /\ H[x] = Cardinality(Blacks(h, B, x, y))
                     + (IF Credited(h, B, x, <<y, t>>, q, s) THEN 1 ELSE 0)
<1> DEFINE Counted(m) ==
              /\ IsFiniteSet(Blacks(h, B, m, y))
              /\ H[m] = Cardinality(Blacks(h, B, m, y))
                        + (IF Credited(h, B, m, <<y, t>>, q, s) THEN 1 ELSE 0)
           S == {m \in T : y \in B[m] /\ ~Counted(m)}
<1>1. /\ NIL \notin T /\ B[NIL] = {} /\ \A m \in T : B[m] \subseteq T /\ m \in B[m]
      /\ \A m \in T \cup {NIL} : B[m] \subseteq T
  BY NodeFacts, OppositeIs, TreeAssumption DEF Shape
<1>2. /\ H \in [T \cup {NIL} -> Nat] /\ H[NIL] = 0
      /\ \A m \in T, d \in Sides :
            H[m] = (IF IsRed(h, m) THEN 0 ELSE 1) + H[h.kid[m][d]]
                   + (IF m = q /\ d = s THEN 1 ELSE 0)
  BY DEF Heights, Weight
<1>3. SUFFICES ASSUME S # {}  PROVE  FALSE
  OBVIOUS
<1>4. PICK m \in S : \A d \in Sides : h.kid[m][d] \notin S
  <2>1. S \subseteq T
    OBVIOUS
  <2> HIDE DEF S
  <2> QED
    BY <1>3, <2>1, Lowest
<1>5. m \in T /\ y \in B[m] /\ ~Counted(m)
  BY <1>4
<1>6. ASSUME NEW d \in Sides
      PROVE  /\ h.kid[m][d] \in T \cup {NIL} /\ m \notin B[h.kid[m][d]]
             /\ B[h.kid[m][d]] \subseteq B[m] /\ B[h.kid[m][d]] \subseteq T
             /\ B[m] = {m} \cup B[h.kid[m][d]] \cup B[h.kid[m][Opposite(d)]]
             /\ B[h.kid[m][d]] \cap B[h.kid[m][Opposite(d)]] = {}
             /\ \A k \in B[h.kid[m][d]] : k \in T /\ B[k] \subseteq B[h.kid[m][d]]
  <2>1. /\ h.kid[m][d] \in T \cup {NIL} /\ m \notin B[h.kid[m][d]]
        /\ B[h.kid[m][d]] \subseteq B[m]
        /\ B[m] = {m} \cup B[h.kid[m][d]] \cup B[h.kid[m][Opposite(d)]]
        /\ B[h.kid[m][d]] \cap B[h.kid[m][Opposite(d)]] = {}
    BY <1>5, NodeFacts
  <2>2. ASSUME NEW k \in B[h.kid[m][d]]  PROVE  k \in T /\ B[k] \subseteq B[h.kid[m][d]]
    <3>1. h.kid[m][d] \in T
      BY <2>1, <2>2, <1>1
    <3> QED
      BY <3>1, SubtreeWithin
  <2> QED
    BY <2>1, <2>2, <1>1
<1> HIDE DEF S
<1>7. CASE m = y
  <2>1. ASSUME NEW k \in B[y], y \in B[k]  PROVE  k = y
    <3>1. SUFFICES ASSUME k # y  PROVE  FALSE
      OBVIOUS
    <3>2. PICK d \in Sides : k \in B[h.kid[y][d]]
      BY <2>1, <3>1, <1>6, <1>7, OppositeIs
    <3> QED
      BY <3>2, <2>1, <1>6, <1>7
  <2>2. Blacks(h, B, y, y) = IF IsRed(h, y) THEN {} ELSE {y}
    BY <2>1, <1>1 DEF Blacks
  <2>3. IsFiniteSet(Blacks(h, B, y, y))
        /\ Cardinality(Blacks(h, B, y, y)) = IF IsRed(h, y) THEN 0 ELSE 1
    <3>1. CASE IsRed(h, y)
      BY <3>1, <2>2, FS_EmptySet
    <3>2. CASE ~IsRed(h, y)
      BY <3>2, <2>2, FS_Singleton
    <3> QED
      BY <3>1, <3>2
  <2>4. Credited(h, B, y, <<y, t>>, q, s) <=> y = q /\ t = s
    <3>1. ASSUME q \in B[y]  PROVE  y \notin B[h.kid[q][s]]
      <4>1. q \in T /\ q \notin B[h.kid[q][s]] /\ B[h.kid[q][s]] \subseteq B[q]
        BY <3>1, <1>1, NodeFacts
      <4> QED
        BY <4>1, <3>1, <2>1
    <3>2. <<y, t>> = <<q, s>> <=> y = q /\ t = s
      OBVIOUS
    <3>3. y \in B[y] /\ <<y, t>>[1] = y
      BY <1>1
    <3> QED
      BY <3>1, <3>2, <3>3 DEF Credited
  <2>5. H[y] = (IF IsRed(h, y) THEN 0 ELSE 1) + (IF y = q /\ t = s THEN 1 ELSE 0)
    BY <1>2
  <2> QED
    BY <2>3, <2>4, <2>5, <1>5, <1>7
<1>8. CASE m # y
  <2>1. PICK d \in Sides : y \in B[h.kid[m][d]]
    BY <1>5, <1>6, <1>8, OppositeIs
  <2> DEFINE c == h.kid[m][d]
             other == h.kid[m][Opposite(d)]
  <2>2. c \in T /\ Counted(c)
    <3>1. c \in T
      BY <2>1, <1>1, <1>6
    <3> QED
      BY <3>1, <2>1, <1>4 DEF S
  <2>3. /\ y \in B[c] /\ m \notin B[c] /\ m \in B[m] /\ B[m] = {m} \cup B[c] \cup B[other]
        /\ \A k \in B[other] : k \notin B[c] /\ k \in T /\ y \notin B[k]
        /\ y \notin B[other]
    <3>1. y \notin B[other]
      BY <2>1, <1>6
    <3>2. Opposite(d) \in Sides
      BY OppositeIs
    <3>3. ASSUME NEW k \in B[other]  PROVE  k \notin B[c] /\ k \in T /\ y \notin B[k]
      BY <3>1, <3>2, <1>6
    <3> QED
      BY <3>1, <3>3, <2>1, <1>1, <1>5, <1>6
  <2> HIDE DEF c, other
  <2>4. Blacks(h, B, m, y) = (IF IsRed(h, m) THEN {} ELSE {m}) \cup Blacks(h, B, c, y)
    BY <2>3, <1>5 DEF Blacks
  <2>5. m \notin Blacks(h, B, c, y)
    BY <2>3 DEF Blacks
  <2>6. IsFiniteSet(Blacks(h, B, c, y)) /\ Cardinality(Blacks(h, B, c, y)) \in Nat
    BY <2>2, FS_CardinalityType
  <2>7. IsFiniteSet(Blacks(h, B, m, y))
        /\ Cardinality(Blacks(h, B, m, y)) =
              (IF IsRed(h, m) THEN 0 ELSE 1) + Cardinality(Blacks(h, B, c, y))
    <3>1. CASE IsRed(h, m)
      BY <3>1, <2>4, <2>6
    <3>2. CASE ~IsRed(h, m)
      <4>1. Blacks(h, B, m, y) = Blacks(h, B, c, y) \cup {m}
        BY <3>2, <2>4
      <4> QED
        BY <4>1, <3>2, <2>5, <2>6, FS_AddElement
    <3> QED
      BY <3>1, <3>2
  <2> DEFINE e == <<y, t>>
             atM == Credited(h, B, m, e, q, s)
             atC == Credited(h, B, c, e, q, s)
  <2>8. e[1] = y /\ \A a, b : e = <<a, b>> => a = y
    OBVIOUS
  <2> HIDE DEF e
  <2>9. atM <=> atC \/ (m = q /\ d = s)
    <3>1. CASE q = m
      <4>1. ~atC
        BY <3>1, <2>3 DEF Credited
      <4>2. e # <<q, s>>
        BY <3>1, <2>8, <1>8
      <4>3. y \in B[h.kid[m][s]] <=> d = s
        <5>1. s = d \/ s = Opposite(d)
          BY OppositeIs
        <5>2. d # Opposite(d)
          BY OppositeIs
        <5> QED
          BY <5>1, <5>2, <2>3 DEF c, other
      <4>4. atM <=> y \in B[h.kid[m][s]]
        BY <3>1, <4>2, <2>3, <2>8 DEF Credited
      <4> QED
        BY <3>1, <4>1, <4>3, <4>4
    <3>2. CASE q # m
      <4>1. ASSUME q \in B[other]  PROVE  y \notin B[h.kid[q][s]] /\ e # <<q, s>>
        <5>1. q \in T /\ y \notin B[q]
          BY <4>1, <2>3
        <5>2. B[h.kid[q][s]] \subseteq B[q] /\ q \in B[q]
          BY <5>1, NodeFacts
        <5> QED
          BY <5>1, <5>2, <2>8
      <4> QED
        BY <3>2, <4>1, <2>3, <2>8 DEF Credited
    <3> QED
      BY <3>1, <3>2
  <2>10. atC => ~(m = q /\ d = s)
    BY <2>3 DEF Credited
  <2>11. H[m] = (IF IsRed(h, m) THEN 0 ELSE 1) + H[c] + (IF m = q /\ d = s THEN 1 ELSE 0)
    BY <1>2, <1>5 DEF c
  <2>12. H[c] = Cardinality(Blacks(h, B, c, y)) + (IF atC THEN 1 ELSE 0)
    BY <2>2 DEF e
  <2>13. ~(H[m] = Cardinality(Blacks(h, B, m, y)) + (IF atM THEN 1 ELSE 0))
    BY <2>7, <1>5 DEF e
  <2> HIDE DEF atM, atC
  <2> QED
    BY <2>6, <2>7, <2>9, <2>10, <2>11, <2>12, <2>13
<1> QED
  BY <1>7, <1>8

\* The paths that end where a link of the tree leads nowhere have as many black nodes each,
\* what __rb_erase_color owes included.
LEMMA HeightsAgree ==
    ASSUME NEW T, NEW B, NEW H, TreeInv(T, B, H)
    PROVE  Cardinality(BlackHeights) <= 1
<1> DEFINE q == Debtor(heap, pc, node, parent)
           s == ShortSide
           atRoot == pc = "erase_color" /\ node = heap.root
           total == H[heap.root] + (IF atRoot THEN 1 ELSE 0)
<1>1. /\ Shape(heap, T, B) /\ s \in Sides /\ s = SideOf(heap, parent, node)
      /\ Heights(heap, T, H, q, s)
      /\ pc = "erase_color" => Repairing(heap, node, parent, T)
  BY SideOfIs DEF TreeInv, Good, ShortSide
<1>2. /\ NIL \notin T /\ B[NIL] = {} /\ B[heap.root] = T /\ heap.root \in T \cup {NIL}
      /\ H \in [T \cup {NIL} -> Nat]
  BY <1>1, TreeAssumption DEF Shape, Heights
<1>3. \A n \in T \cup {NIL} : Below(heap, n) = B[n]
  BY <1>1, BelowIs
<1>4. Contents = T
  BY <1>2, <1>3 DEF Contents
<1>5. /\ pc = "erase_color" /\ node # heap.root =>
            q = parent /\ parent \in T /\ heap.kid[parent][s] = node /\ node \in T \cup {NIL}
      /\ ~(pc = "erase_color" /\ node # heap.root) => q = NIL
  BY <1>1 DEF Debtor, Repairing
<1> HIDE DEF q, s
<1>6. ASSUME NEW e \in Ends
      PROVE  Cardinality({k \in T : e[1] \in B[k] /\ ~IsRed(heap, k)})
                + (IF Owed(e) THEN 1 ELSE 0) = total
  <2>1. PICK y \in T, t \in Sides : e = <<y, t>> /\ heap.kid[y][t] = NIL
    BY <1>4 DEF Ends
  <2>2. heap.root \in T /\ y \in B[heap.root]
    BY <1>2
  <2>3. q \in T \cup {NIL}
    BY <1>5
  <2>4. /\ IsFiniteSet(Blacks(heap, B, heap.root, y))
        /\ H[heap.root] = Cardinality(Blacks(heap, B, heap.root, y))
                          + (IF Credited(heap, B, heap.root, <<y, t>>, q, s) THEN 1 ELSE 0)
    BY <2>1, <2>2, <2>3, <1>1, PathsAre
  <2>5. Blacks(heap, B, heap.root, y) = {k \in T : e[1] \in B[k] /\ ~IsRed(heap, k)}
    BY <2>1, <1>2 DEF Blacks
  <2>6. Owed(e) <=> Credited(heap, B, heap.root, <<y, t>>, q, s) \/ atRoot
    <3>1. CASE pc # "erase_color"
      <4>1. q = NIL /\ ~Owed(e) /\ ~atRoot
        BY <3>1, <1>5 DEF Owed
      <4> QED
        BY <4>1, <1>2 DEF Credited
    <3>2. CASE atRoot
      <4>1. node # NIL /\ e[1] \in Below(heap, node)
        BY <3>2, <2>1, <2>2, <1>2, <1>3
      <4> QED
        BY <3>2, <4>1 DEF Owed
    <3>3. CASE pc = "erase_color" /\ node # heap.root
      <4>1. /\ q = parent /\ parent \in T /\ heap.kid[parent][s] = node
            /\ node \in T \cup {NIL}
        BY <3>3, <1>5
      <4>2. Credited(heap, B, heap.root, <<y, t>>, q, s) <=> y \in B[node] \/ e = <<parent, s>>
        BY <4>1, <2>1, <1>2 DEF Credited
      <4>3. CASE node = NIL
        <5>1. Owed(e) <=> e = <<parent, s>>
          BY <4>3, <3>3 DEF Owed, s
        <5> QED
          BY <5>1, <4>2, <4>3, <3>3, <1>2
      <4>4. CASE node # NIL
        <5>1. Owed(e) <=> y \in B[node]
          BY <4>1, <4>4, <3>3, <2>1, <1>3 DEF Owed
        <5>2. e # <<parent, s>>
          BY <4>1, <4>4, <2>1
        <5> QED
          BY <5>1, <5>2, <4>2, <3>3
      <4> QED
        BY <4>3, <4>4
    <3> QED
      BY <3>1, <3>2, <3>3
  <2>7. Credited(heap, B, heap.root, <<y, t>>, q, s) => ~atRoot
    <3>1. ASSUME atRoot  PROVE  q = NIL
      BY <3>1, <1>5
    <3> QED
      BY <3>1, <1>2 DEF Credited
  <2>8. Cardinality(Blacks(heap, B, heap.root, y)) \in Nat
    BY <2>4, FS_CardinalityType
  <2> HIDE DEF atRoot
  <2> QED
    BY <2>4, <2>5, <2>6, <2>7, <2>8
<1> HIDE DEF total
<1>7. BlackHeights \subseteq {total}
  <2>1. ASSUME NEW b \in BlackHeights  PROVE  b = total
    <3> DEFINE below == [k \in Contents |-> Below(heap, k)]
               passed(e) == {k \in DOMAIN below : e[1] \in below[k] /\ ~IsRed(heap, k)}
    <3>1. PICK e \in Ends : b = Cardinality(passed(e)) + (IF Owed(e) THEN 1 ELSE 0)
      BY DEF BlackHeights
    <3>2. passed(e) = {k \in T : e[1] \in B[k] /\ ~IsRed(heap, k)}
      BY <1>3, <1>4
    <3> QED
      BY <3>1, <3>2, <1>6
  <2> QED
    BY <2>1
<1>8. BlackHeights = {} \/ BlackHeights = {total}
  BY <1>7
<1> QED
  BY <1>8, FS_EmptySet, FS_Singleton

\* rb_insert_color finds a grandparent, and __rb_erase_color a parent and a sibling, before
\* and after the sibling is turned up: neither loop compares them with NULL.
LEMMA NoNullPointerIs ==
    ASSUME NEW T, NEW B, NEW H, TreeInv(T, B, H)
    PROVE  NoNullPointer
<1>1. NIL \notin T
  BY TreeAssumption DEF TreeInv, Good, Shape
<1>2. ASSUME pc = "insert_color", RedParent  PROVE  Grandparent # NIL
  <2>1. Shape(heap, T, B) /\ Inserting(heap, node, T)
    BY <1>2, InsertIs
  <2>2. Clash(heap, T, node, heap.parent[node], Grandparent, ParentSide)
    BY <2>1, <1>2, RedParentIs
  <2> QED
    BY <2>2, <1>1 DEF Clash
<1>3. ASSUME pc = "erase_color", Short
      PROVE  parent # NIL /\ heap.kid[parent][Opposite(ShortSide)] # NIL /\ Sibling # NIL
  <2>1. /\ Shape(heap, T, B) /\ Lacking(heap, T, node, parent, ShortSide)
        /\ Heights(heap, T, H, parent, ShortSide)
    BY <1>3, ShortIs
  <2>2. heap.kid[parent][Opposite(ShortSide)] \in T
    <3> DEFINE d == ShortSide
    <3>1. Lacking(heap, T, node, parent, d) /\ Heights(heap, T, H, parent, d)
      BY <2>1
    <3> HIDE DEF d
    <3>2. heap.kid[parent][Opposite(d)] \in T
      BY <2>1, <3>1, SiblingThere
    <3> QED
      BY <3>2 DEF d
  <2>3. Sibling \in T
    <3> DEFINE d == ShortSide
               S == SiblingBlack
    <3>1. /\ Lacking(S, T, node, parent, d)
          /\ \E C : Shape(S, T, C)
          /\ \E G : Heights(S, T, G, parent, d)
      BY <1>3, SiblingBlackIs
    <3> HIDE DEF d, S
    <3>2. PICK C : Shape(S, T, C)
      BY <3>1
    <3>3. PICK G : Heights(S, T, G, parent, d)
      BY <3>1
    <3>4. S.kid[parent][Opposite(d)] \in T
      BY <3>1, <3>2, <3>3, SiblingThere
    <3> QED
      BY <3>4 DEF Sibling, S, d
  <2> QED
    BY <2>1, <2>2, <2>3, <1>1 DEF Lacking
<1> QED
  BY <1>2, <1>3 DEF NoNullPointer

\* The loop invariants of rb_insert_color and __rb_erase_color, for any number of keys: equal
\* black heights, no red node below a red one but at the node of the loop, a black root when
\* the loop has ended, and no null pointer on the way.
THEOREM RedBlackKept == Spec => []RedBlack
<1>1. Inv => RedBlack
  <2> SUFFICES ASSUME NEW T, NEW B, NEW H, TreeInv(T, B, H)  PROVE  RedBlack
    BY DEF Inv
  <2>1. /\ Shape(heap, T, B)
        /\ pc \in {"idle", "search", "insert_color", "successor", "erase_color"}
        /\ pc \in {"idle", "search", "successor"} =>
              Apart(heap, T, NIL, NIL) /\ ~IsRed(heap, heap.root)
        /\ pc = "insert_color" => Inserting(heap, node, T)
        /\ pc = "erase_color" => Repairing(heap, node, parent, T)
    BY DEF TreeInv, Good
  <2>2. Contents = T
    <3>1. heap.root \in T \cup {NIL} /\ B[heap.root] = T
      BY <2>1 DEF Shape
    <3> QED
      BY <3>1, <2>1, BelowIs DEF Contents
  <2>3. ASSUME NEW n \in T, RedBelowRed(n)
        PROVE  \/ pc = "insert_color" /\ n = node
               \/ pc = "erase_color" /\ node \in {n, heap.parent[n]}
    <3>1. IsRed(heap, n) /\ IsRed(heap, heap.parent[n]) /\ heap.parent[n] # NIL /\ n # NIL
      BY <2>3 DEF RedBelowRed, IsRed
    <3>2. heap.parent[n] \in T /\ \E d \in Sides : heap.kid[heap.parent[n]][d] = n
      BY <3>1, <2>1, ParentOf
    <3>3. ASSUME NEW up, NEW down, Apart(heap, T, up, down)
          PROVE  heap.parent[n] = up \/ n = down
      BY <3>1, <3>2, <3>3 DEF Apart
    <3>4. CASE pc \in {"idle", "search", "successor"}
      BY <3>1, <3>3, <3>4, <2>1
    <3>5. CASE pc = "insert_color"
      <4>1. Apart(heap, T, NIL, node)
        BY <3>5, <2>1 DEF Inserting
      <4> QED
        BY <4>1, <3>1, <3>3, <3>5
    <3>6. CASE pc = "erase_color"
      <4>1. Apart(heap, T, node, node)
        BY <3>6, <2>1 DEF Repairing
      <4> QED
        BY <4>1, <3>3, <3>6
    <3> QED
      BY <3>4, <3>5, <3>6, <2>1
  <2>4. ASSUME IsRed(heap, heap.root)
        PROVE  pc \in {"insert_color", "erase_color"} /\ node = heap.root
    BY <2>4, <2>1 DEF Inserting, Repairing
  <2> QED
    BY <2>2, <2>3, <2>4, NoNullPointerIs, HeightsAgree DEF RedBlack
<1> QED
  BY <1>1, TreeKept, PTL

-----------------------------------------------------------------------------
(* Every round of every loop leaves fewer nodes ahead.                      *)

\* A subtree none of whose links has changed has the same nodes as before, wherever it
\* hangs now.
LEMMA SameBelow ==
    ASSUME NEW h, NEW T, NEW B, Shape(h, T, B), NEW g, NEW C, Shape(g, T, C),
           NEW n \in T \cup {NIL}, \A y \in B[n], d \in Sides : g.kid[y][d] = h.kid[y][d]
    PROVE  C[n] = B[n]
<1>1. B[n] = Below(h, n) /\ C[n] = Below(g, n)
  BY BelowIs
<1>2. ASSUME NEW f, NEW A, Shape(f, T, A)
      PROVE  A[n] \in SUBSET Keys /\ n \in A[n] \cup {NIL} /\ Closed(f, A[n])
  BY <1>2, SubtreeClosed
<1>3. Closed(g, B[n])
  BY <1>2 DEF Closed
<1>4. C[n] \subseteq B[n]
  BY <1>1, <1>2, <1>3 DEF Below
<1>5. Closed(h, C[n])
  BY <1>2, <1>4 DEF Closed
<1>6. B[n] \subseteq C[n]
  BY <1>1, <1>2, <1>5 DEF Below
<1> QED
  BY <1>4, <1>6

\* The nodes ahead, in the terms of the invariant.
LEMMA AheadIs ==
    ASSUME NEW T, NEW B, NEW H, TreeInv(T, B, H)
    PROVE  /\ pc = "search" => Link \in T \cup {NIL} /\ Ahead = B[Link]
           /\ pc = "successor" => node \in T /\ Ahead = B[node]
           /\ pc = "insert_color" => Ahead = IF RedParent THEN T \ B[node] ELSE {}
           /\ pc = "erase_color" => Ahead = IF Short THEN T \ B[node] ELSE {}
           /\ IsFiniteSet(Ahead)
<1>1. /\ Shape(heap, T, B)
      /\ heap.root \in T \cup {NIL} /\ B[heap.root] = T /\ IsFiniteSet(T)
      /\ B \in [T \cup {NIL} -> SUBSET T]
  BY DEF TreeInv, Good, Shape
<1>2. \A x \in T \cup {NIL} : Below(heap, x) = B[x]
  BY <1>1, BelowIs
<1>3. Contents = T
  BY <1>1, <1>2 DEF Contents
<1>4. ASSUME pc = "search"  PROVE  Link \in T \cup {NIL} /\ Ahead = B[Link]
  <2>1. parent \in T \cup {NIL}
    BY <1>4 DEF TreeInv, Good, Searching
  <2>2. \A x \in T, d \in Sides : heap.kid[x][d] \in T \cup {NIL}
    BY <1>1, NodeFacts
  <2>3. Link \in T \cup {NIL}
    BY <2>1, <2>2, <1>1, OppositeIs DEF Link
  <2>4. Ahead = Below(heap, Link)
    BY <1>4 DEF Ahead
  <2> QED
    BY <2>3, <2>4, <1>2
<1>5. ASSUME pc = "successor"  PROVE  node \in T /\ Ahead = B[node]
  <2>1. Succeeding(heap, node, parent, T, B)
    BY <1>5 DEF TreeInv, Good
  <2>2. parent \in T /\ node \in B[heap.kid[parent]["right"]]
    BY <2>1 DEF Succeeding
  <2>3. B[heap.kid[parent]["right"]] \subseteq B[parent] /\ B[parent] \subseteq T
    BY <2>2, <1>1, NodeFacts, OppositeIs
  <2>4. node \in T
    BY <2>2, <2>3
  <2>5. Ahead = Below(heap, node)
    BY <1>5 DEF Ahead
  <2> QED
    BY <2>4, <2>5, <1>2
<1>6. ASSUME pc = "insert_color"  PROVE  Ahead = IF RedParent THEN T \ B[node] ELSE {}
  <2>1. node \in T
    BY <1>6 DEF TreeInv, Good, Inserting
  <2>2. Ahead = IF RedParent THEN Contents \ Below(heap, node) ELSE {}
    BY <1>6 DEF Ahead
  <2> QED
    BY <2>1, <2>2, <1>2, <1>3
<1>7. ASSUME pc = "erase_color"  PROVE  Ahead = IF Short THEN T \ B[node] ELSE {}
  <2>1. node \in T \cup {NIL}
    BY <1>7 DEF TreeInv, Good, Repairing
  <2>2. Ahead = IF Short THEN Contents \ Below(heap, node) ELSE {}
    BY <1>7 DEF Ahead
  <2> QED
    BY <2>1, <2>2, <1>2, <1>3
<1>8. IsFiniteSet(Ahead)
  <2>1. \A x \in T \cup {NIL} : B[x] \subseteq T
    BY <1>1
  <2>2. pc = "idle" => Ahead = {}
    BY DEF Ahead
  <2>3. pc \in {"idle", "search", "insert_color", "successor", "erase_color"}
    BY DEF TreeInv, Good
  <2>4. Ahead \subseteq T
    BY <2>1, <2>2, <2>3, <1>4, <1>5, <1>6, <1>7
  <2> QED
    BY <2>4, <1>1, FS_Subset
<1> QED
  BY <1>4, <1>5, <1>6, <1>7, <1>8

\* The search and the search for the successor go down.
LEMMA DescentAdvances ==
    ASSUME NEW T, NEW B, NEW H, TreeInv(T, B, H), Descend \/ SuccessorDescends
    PROVE  Nearer
<1>1. Shape(heap, T, B)
  BY DEF TreeInv, Good
<1>2. CASE Descend
  <2> DEFINE l == Link
             d == IF node < l THEN "left" ELSE "right"
  <2>1. pc = "search" /\ pc' = "search" /\ heap' = heap /\ node' = node /\ parent' = l /\ l # NIL
    BY <1>2 DEF Descend
  <2>2. l \in T /\ Ahead = B[l] /\ IsFiniteSet(Ahead)
    BY <2>1, AheadIs
  <2> HIDE DEF l
  <2>3. Link' = heap.kid[l][d]
    BY <2>1 DEF Link
  <2>4. d \in Sides
    BY OppositeIs
  <2> HIDE DEF d
  <2>5. /\ heap.kid[l][d] \in T \cup {NIL} /\ B[heap.kid[l][d]] \subseteq B[l]
        /\ l \in B[l] /\ l \notin B[heap.kid[l][d]]
    BY <2>2, <2>4, <1>1, NodeFacts
  <2>6. Ahead' = Below(heap, heap.kid[l][d])
    BY <2>1, <2>3 DEF Ahead
  <2>7. Ahead' = B[heap.kid[l][d]]
    BY <2>5, <2>6, <1>1, BelowIs
  <2> QED
    BY <2>1, <2>2, <2>5, <2>7 DEF Nearer
<1>3. CASE SuccessorDescends
  <2>1. /\ pc = "successor" /\ pc' = "successor" /\ heap' = heap
        /\ node' = heap.kid[node]["left"]
    BY <1>3 DEF SuccessorDescends
  <2>2. node \in T /\ Ahead = B[node] /\ IsFiniteSet(Ahead)
    BY <2>1, AheadIs
  <2>3. /\ heap.kid[node]["left"] \in T \cup {NIL} /\ B[heap.kid[node]["left"]] \subseteq B[node]
        /\ node \in B[node] /\ node \notin B[heap.kid[node]["left"]]
    BY <2>2, <1>1, NodeFacts, OppositeIs
  <2>4. Ahead' = Below(heap, heap.kid[node]["left"])
    BY <2>1 DEF Ahead
  <2>5. Ahead' = B[heap.kid[node]["left"]]
    BY <2>3, <2>4, <1>1, BelowIs
  <2> QED
    BY <2>1, <2>2, <2>3, <2>5 DEF Nearer
<1> QED
  BY <1>2, <1>3

\* A step that ends a loop.
LEMMA LoopsEnd ==
    ASSUME \/ Found \/ NotFound \/ LinkNode \/ SuccessorReplaces
           \/ InsertEnd \/ EraseEnd
    PROVE  Nearer
<1>1. /\ Found \/ NotFound => pc = "search" /\ pc' = "idle"
      /\ LinkNode => pc = "search" /\ pc' = "insert_color"
      /\ InsertEnd => pc = "insert_color" /\ pc' = "idle"
      /\ EraseEnd => pc = "erase_color" /\ pc' = "idle"
  BY DEF Found, NotFound, LinkNode, InsertEnd, EraseEnd, Return
<1>2. SuccessorReplaces => pc = "successor" /\ pc' \in {"idle", "erase_color"}
  BY DEF SuccessorReplaces, Repair
<1>3. LoopsAhead' < LoopsAhead
  BY <1>1, <1>2 DEF LoopsAhead
<1> QED
  BY <1>3 DEF Nearer

\* What lies outside the subtree that a climbing loop is at, after a round of it.
LEMMA ClimbAdvances ==
    ASSUME NEW T, NEW B, NEW H, TreeInv(T, B, H), NEW C, Shape(heap', T, C),
           pc \in {"insert_color", "erase_color"}, pc' = pc,
           IF pc = "insert_color" THEN RedParent ELSE Short,
           node' \in T, NEW m \in C[node'], B[node] \subseteq C[node'], m \notin B[node]
    PROVE  Nearer
<1>1. Ahead = T \ B[node] /\ IsFiniteSet(Ahead)
  BY AheadIs
<1>2. Below(heap', node') = C[node'] /\ Contents' = T
  <2>1. heap'.root \in T \cup {NIL} /\ C[heap'.root] = T
    BY DEF Shape
  <2> QED
    BY <2>1, BelowIs DEF Contents
<1>3. m \in T
  BY DEF Shape
<1>4. Ahead' \subseteq T \ C[node']
  BY <1>2 DEF Ahead
<1>5. Ahead' \subseteq Ahead /\ m \in Ahead /\ m \notin Ahead'
  BY <1>1, <1>3, <1>4
<1> QED
  BY <1>1, <1>5 DEF Nearer

\* A round that makes the test of its loop fail leaves nothing ahead.
LEMMA LastRound ==
    ASSUME NEW T, NEW B, NEW H, TreeInv(T, B, H), NEW m \in T, m \notin B[node],
           \/ pc = "insert_color" /\ RedParent /\ ~RedParent'
           \/ pc = "erase_color" /\ Short /\ ~Short',
           pc' = pc
    PROVE  Nearer
<1>1. Ahead = T \ B[node] /\ IsFiniteSet(Ahead)
  BY AheadIs
<1>2. Ahead' = {}
  BY DEF Ahead
<1> QED
  BY <1>1, <1>2 DEF Nearer

\* rb_insert_color goes up to the grandparent, or the clash is gone.
LEMMA InsertAdvances ==
    ASSUME NEW T, NEW B, NEW H, TreeInv(T, B, H), InsertRecolor \/ InsertRotate
    PROVE  Nearer
<1> DEFINE p == heap.parent[node]
           g == Grandparent
<1>1. pc = "insert_color" /\ pc' = pc /\ RedParent
  BY DEF InsertRecolor, InsertRotate
<1>2. Shape(heap, T, B) /\ Clash(heap, T, node, p, g, ParentSide)
  BY <1>1, InsertIs, RedParentIs
<1> HIDE DEF p, g
<1>3. p \in T /\ g \in T /\ B[node] \subseteq B[p] /\ B[p] \subseteq B[g] /\ p \in B[p] /\ p \notin B[node]
  <2>1. p \in T /\ g \in T /\ ParentSide \in Sides /\ heap.kid[g][ParentSide] = p
    BY <1>2 DEF Clash
  <2>2. PICK e \in Sides : heap.kid[p][e] = node
    BY <1>2 DEF Clash
  <2>3. B[heap.kid[p][e]] \subseteq B[p] /\ p \in B[p] /\ p \notin B[heap.kid[p][e]]
    BY <2>1, <1>2, NodeWithin
  <2>4. B[heap.kid[g][ParentSide]] \subseteq B[g]
    BY <2>1, <1>2, NodeWithin
  <2> QED
    BY <2>1, <2>2, <2>3, <2>4
<1>4. CASE InsertRecolor
  <2>1. Shape(heap', T, B) /\ node' = g
    BY <1>4, InsertRecolorKeeps DEF InsertRecolor, g
  <2> QED
    BY <2>1, <1>1, <1>3, ClimbAdvances
<1>5. CASE InsertRotate
  <2>1. ~RedParent'
    BY <1>5, InsertRotateKeeps
  <2> QED
    BY <2>1, <1>1, <1>3, LastRound
<1> QED
  BY <1>4, <1>5

\* __rb_erase_color goes up to the parent, or nothing is missing any more: a sibling that is
\* turned up on the way does not change what hangs below the node.
LEMMA EraseAdvances ==
    ASSUME NEW T, NEW B, NEW H, TreeInv(T, B, H), EraseRecolor \/ EraseRotate
    PROVE  Nearer
<1> DEFINE d == ShortSide
<1>1. pc = "erase_color" /\ pc' = pc /\ Short
  BY DEF EraseRecolor, EraseRotate
<1>2. /\ Shape(heap, T, B)
      /\ parent \in T /\ d \in Sides /\ heap.kid[parent][d] = node
  BY <1>1, ShortIs DEF Lacking
<1> HIDE DEF d
<1>3. node \in T \cup {NIL} /\ parent \notin B[node]
  BY <1>2, NodeFacts
<1>4. CASE EraseRecolor
  <2>1. /\ Becomes(T) /\ heap'.kid[parent][d] = node /\ node' = parent
        /\ \A y \in B[node], e \in Sides : heap'.kid[y][e] = heap.kid[y][e]
    BY <1>4, EraseRecolorKeeps DEF EraseRecolor, d
  <2>2. PICK C : Shape(heap', T, C)
    BY <2>1 DEF Becomes, Good
  <2>3. C[node] = B[node]
    BY <2>1, <2>2, <1>2, <1>3, SameBelow
  <2>4. parent \in C[parent] /\ C[node] \subseteq C[parent]
    BY <2>1, <2>2, <1>2, NodeWithin
  <2> QED
    BY <2>1, <2>2, <2>3, <2>4, <1>1, <1>2, <1>3, ClimbAdvances
<1>5. CASE EraseRotate
  <2>1. ~Short'
    BY <1>5 DEF EraseRotate, Short
  <2> QED
    BY <2>1, <1>1, <1>2, <1>3, LastRound
<1> QED
  BY <1>4, <1>5

\* A put, a get or an erase that has begun gets nearer to its end with every round of its
\* loops: those of map.c and of the search for the successor go down, those of
\* rb_insert_color and __rb_erase_color go up, past every rotation that they make.
THEOREM RoundsAdvance == Spec => EveryRoundAdvances
<1>1. Inv /\ [Next]_vars => [pc # "idle" => Nearer]_vars
  <2> SUFFICES ASSUME Inv, Next, pc # "idle"  PROVE  Nearer
    OBVIOUS
  <2>1. PICK T, B, H : TreeInv(T, B, H)
    BY DEF Inv
  <2>2. ASSUME NEW k \in Keys  PROVE  ~Call(k) /\ ~Erase(k)
    BY DEF Call, Erase, EraseSplices, EraseSearches
  <2>3. Search \/ InsertColor \/ Successor \/ EraseColor
    BY <2>2, Zenon DEF Next
  <2>4. CASE Search
    BY <2>1, <2>4, DescentAdvances, LoopsEnd DEF Search
  <2>5. CASE InsertColor
    BY <2>1, <2>5, InsertAdvances, LoopsEnd DEF InsertColor
  <2>6. CASE Successor
    BY <2>1, <2>6, DescentAdvances, LoopsEnd DEF Successor
  <2>7. CASE EraseColor
    BY <2>1, <2>7, EraseAdvances, LoopsEnd DEF EraseColor
  <2> QED
    BY <2>3, <2>4, <2>5, <2>6, <2>7
<1>2. Spec => []Inv
  BY TreeKept
<1> QED
  BY <1>1, <1>2, PTL DEF Spec, EveryRoundAdvances

-----------------------------------------------------------------------------
(* The walks.                                                               *)

\* Induction from the root down: of the nodes of a set, one is the root or has its
\* parent outside the set.
LEMMA Highest ==
    ASSUME NEW h, NEW T, NEW B, Shape(h, T, B), NEW S, S \subseteq T, S # {}
    PROVE  \E x \in S : x = h.root \/ h.parent[x] \in T \ S
<1> SUFFICES ASSUME \A x \in S : x # h.root /\ h.parent[x] \notin T \ S  PROVE  FALSE
  OBVIOUS
<1> DEFINE above == {y \in T \ S : \E x \in S : x \in B[y]}
<1>1. above \subseteq T /\ above # {}
  <2>1. PICK x \in S : x \in T /\ x # h.root
    OBVIOUS
  <2>2. h.root \in T \cup {NIL} /\ B[h.root] = T /\ B[NIL] = {}
    BY DEF Shape
  <2>3. h.root \in T \ S
    BY <2>1, <2>2
  <2> QED
    BY <2>1, <2>2, <2>3
<1>2. PICK y \in above : \A d \in Sides : h.kid[y][d] \notin above
  <2> HIDE DEF above
  <2> QED
    BY <1>1, Lowest
<1>3. PICK x \in S : x \in B[y]
  BY <1>2
<1>4. y \in T /\ y \notin S /\ x # y
  BY <1>2
<1>5. PICK d \in Sides : x \in B[h.kid[y][d]]
  BY <1>3, <1>4, NodeFacts, OppositeIs
<1>6. h.kid[y][d] \in T /\ h.parent[h.kid[y][d]] = y
  <2>1. h.kid[y][d] # NIL
    BY <1>5 DEF Shape
  <2> QED
    BY <2>1, <1>4, NodeFacts
<1>7. h.kid[y][d] \notin S
  BY <1>4, <1>6
<1> QED
  BY <1>2, <1>3, <1>5, <1>6, <1>7

\* A key outside a subtree is on one side of all its nodes.
LEMMA SubtreeOnOneSide ==
    ASSUME NEW h, NEW T, NEW B, Shape(h, T, B), NEW m \in T, NEW k \in T, k \notin B[m],
           NEW x \in B[m], NEW d \in Sides, OnSide(k, m, d)
    PROVE  OnSide(k, x, d)
<1> DEFINE Splits(y) == \E z \in B[y], e \in Sides : OnSide(k, y, e) /\ ~OnSide(k, z, e)
           S == {y \in T : k \notin B[y] /\ Splits(y)}
<1>1. T \subseteq Keys /\ h.root \in T \cup {NIL} /\ B[h.root] = T /\ B[NIL] = {} /\ NIL \notin T
  BY TreeAssumption DEF Shape
<1>2. S = {}
  <2> SUFFICES ASSUME S # {}  PROVE  FALSE
    OBVIOUS
  <2>1. PICK y \in S : y = h.root \/ h.parent[y] \in T \ S
    <3>1. S \subseteq T
      OBVIOUS
    <3> HIDE DEF S
    <3> QED
      BY <3>1, Highest
  <2> DEFINE p == h.parent[y]
  <2>2. y \in T /\ k \notin B[y] /\ y # h.root
    BY <1>1, <2>1
  <2>3. p \in T /\ p \notin S
    BY <2>1, <2>2
  <2>4. PICK z \in B[y], e \in Sides : OnSide(k, y, e) /\ ~OnSide(k, z, e)
    BY <2>1
  <2>5. PICK f \in Sides : h.kid[p][f] = y
    BY <2>2, ParentOf
  <2>6. B[y] \subseteq B[p] /\ y \in B[y]
    BY <2>2, <2>3, <2>5, NodeFacts, OppositeIs
  <2>7. CASE k \notin B[p]
    <3>1. ~Splits(p)
      BY <2>3, <2>7
    <3>2. p \in Keys /\ k \in Keys /\ p # k
      BY <2>3, <2>7, <1>1, NodeFacts, OppositeIs
    <3>3. PICK g \in Sides : OnSide(k, p, g)
      BY <3>2, OnSideIs, OppositeIs
    <3>4. OnSide(k, y, g) /\ OnSide(k, z, g)
      BY <3>1, <3>3, <2>4, <2>6
    <3>5. g = e
      BY <3>2, <3>4, <2>2, <2>4, <1>1, OnSideIs, OppositeIs
    <3> QED
      BY <3>4, <3>5, <2>4
  <2>8. CASE k \in B[p]
    <3> DEFINE o == Opposite(f)
    <3>1. o \in Sides /\ Opposite(o) = f /\ o # f
      BY OppositeIs
    <3>2. k = p \/ OnSide(k, p, o)
      BY <2>2, <2>3, <2>5, <2>8, <3>1, NodeFacts
    <3>3. \A w \in B[y] : OnSide(w, p, f) /\ w \in T
      BY <2>2, <2>3, <2>5, NodeFacts
    <3>4. \A w \in B[y] : OnSide(k, w, o)
      <4> SUFFICES ASSUME NEW w \in B[y]  PROVE  OnSide(k, w, o)
        OBVIOUS
      <4>1. w \in Keys /\ p \in Keys /\ k \in Keys /\ OnSide(p, w, o)
        BY <3>1, <3>3, <2>3, <1>1, OnSideIs
      <4> QED
        BY <4>1, <3>1, <3>2, OnSideIs
    <3>5. OnSide(k, y, o) /\ OnSide(k, z, o) /\ y \in Keys /\ k \in Keys
      BY <3>4, <2>2, <2>4, <2>6, <1>1
    <3>6. o = e
      BY <3>1, <3>5, <2>4, OnSideIs, OppositeIs
    <3> QED
      BY <3>5, <3>6, <2>4
  <2> QED
    BY <2>7, <2>8
<1> QED
  BY <1>2

\* Of S, c is the key nearest to what lies on the other side from d.
Nearest(c, S, d) ==
    IF S = {} THEN c = NIL ELSE c \in S /\ \A k \in S : k = c \/ OnSide(k, c, d)

\* There is one nearest key at most.
LEMMA NearestIsOne ==
    ASSUME NEW S \in SUBSET Keys, NEW d \in Sides, NEW b, Nearest(b, S, d), NEW c, Nearest(c, S, d)
    PROVE  b = c
<1>1. CASE S = {}
  BY <1>1 DEF Nearest
<1>2. CASE S # {}
  <2>1. b \in S /\ c \in S /\ b \in Keys /\ c \in Keys
    BY <1>2 DEF Nearest
  <2>2. b = c \/ (OnSide(b, c, d) /\ OnSide(c, b, d))
    BY <2>1 DEF Nearest
  <2> QED
    BY <2>1, <2>2, OnSideIs
<1> QED
  BY <1>1, <1>2

\* The nodes that a walk can be at are those of the tree.
LEMMA NodesAre ==
    ASSUME NEW T, NEW B, Shape(heap, T, B)  PROVE  Nodes = T
<1>1. T \subseteq Keys
  BY DEF Shape
<1> QED
  BY <1>1, InTreeIs DEF Nodes

\* Where the links on side d end is the key that has all others of the subtree on its
\* other side: the recursion has one solution on a tree.
LEMMA UtmostIs ==
    ASSUME NEW T, NEW B, Shape(heap, T, B), NEW n \in T, NEW d \in Sides
    PROVE  Nearest(Utmost(n, d), B[n], Opposite(d))
<1> DEFINE IsLast(f) == f = [m \in T |-> IF heap.kid[m][d] = NIL THEN m ELSE f[heap.kid[m][d]]]
           last == CHOOSE f : IsLast(f)
           o == Opposite(d)
<1>1. Utmost(n, d) = last[n]
  <2>1. Nodes = T
    BY NodesAre
  <2> QED
    BY <2>1 DEF Utmost
<1>2. /\ NIL \notin T /\ T \subseteq Keys
      /\ o \in Sides /\ Opposite(o) = d
  BY TreeAssumption, OppositeIs DEF Shape
<1>3. \A m \in T : /\ m \in B[m] /\ B[m] \subseteq T
                   /\ B[m] = {m} \cup B[heap.kid[m][d]] \cup B[heap.kid[m][o]]
                   /\ heap.kid[m][d] \in T \cup {NIL}
                   /\ \A k \in B[heap.kid[m][d]] : OnSide(k, m, d)
                   /\ \A k \in B[heap.kid[m][o]] : OnSide(k, m, o)
  BY <1>2, NodeFacts
<1>4. ASSUME NEW x \in T, heap.kid[x][d] = NIL  PROVE  Nearest(x, B[x], o)
  <2>1. B[NIL] = {}
    BY DEF Shape
  <2> QED
    BY <2>1, <1>3, <1>4 DEF Nearest
<1>5. ASSUME NEW x \in T, heap.kid[x][d] # NIL, NEW u, Nearest(u, B[heap.kid[x][d]], o)
      PROVE  Nearest(u, B[x], o)
  <2> DEFINE c == heap.kid[x][d]
  <2>1. c \in T
    BY <1>3, <1>5
  <2>2. u \in B[c] /\ \A k \in B[c] : k = u \/ OnSide(k, u, o)
    BY <2>1, <1>3, <1>5 DEF Nearest
  <2>3. u \in B[x] /\ OnSide(u, x, d)
    BY <2>2, <1>3
  <2>4. x \in Keys /\ u \in Keys /\ OnSide(x, u, o)
    BY <2>3, <1>2, <1>3, OnSideIs
  <2>5. ASSUME NEW k \in B[x]  PROVE  k = u \/ OnSide(k, u, o)
    <3>1. k = x \/ k \in B[c] \/ OnSide(k, x, o)
      BY <1>3
    <3>2. k \in Keys
      BY <1>2, <1>3
    <3>3. OnSide(k, x, o) => OnSide(k, u, o)
      BY <2>4, <3>2, <1>2, OnSideIs
    <3> QED
      BY <2>2, <2>4, <3>1, <3>3
  <2> QED
    BY <2>3, <2>5 DEF Nearest
<1>6. \A m \in T : \E u : Nearest(u, B[m], o)
  <2> DEFINE S == {m \in T : ~\E u : Nearest(u, B[m], o)}
  <2> SUFFICES ASSUME S # {}  PROVE  FALSE
    OBVIOUS
  <2>1. PICK x \in S : \A e \in Sides : heap.kid[x][e] \notin S
    <3>1. S \subseteq T
      OBVIOUS
    <3> HIDE DEF S
    <3> QED
      BY <3>1, Lowest
  <2> QED
    BY <2>1, <1>3, <1>4, <1>5
<1>7. ASSUME NEW m \in T, NEW b, NEW c, Nearest(b, B[m], o), Nearest(c, B[m], o)  PROVE  b = c
  <2>1. B[m] \in SUBSET Keys
    BY <1>2, <1>3
  <2> QED
    BY <2>1, <1>2, <1>7, NearestIsOne
<1>8. \E f : IsLast(f)
  <2> DEFINE F == [m \in T |-> CHOOSE u : Nearest(u, B[m], o)]
  <2>1. \A m \in T : Nearest(F[m], B[m], o)
    BY <1>6
  <2>2. ASSUME NEW m \in T
        PROVE  F[m] = IF heap.kid[m][d] = NIL THEN m ELSE F[heap.kid[m][d]]
    <3> HIDE DEF F
    <3> QED
      BY <2>1, <1>3, <1>4, <1>5, <1>7
  <2>3. IsLast(F)
    BY <2>2
  <2> QED
    BY <2>3
<1>9. IsLast(last)
  BY <1>8
<1> HIDE DEF last
<1>10. \A m \in T : Nearest(last[m], B[m], o)
  <2> DEFINE S == {m \in T : ~Nearest(last[m], B[m], o)}
  <2> SUFFICES ASSUME S # {}  PROVE  FALSE
    OBVIOUS
  <2>1. PICK x \in S : \A e \in Sides : heap.kid[x][e] \notin S
    <3>1. S \subseteq T
      OBVIOUS
    <3> HIDE DEF S
    <3> QED
      BY <3>1, Lowest
  <2>2. last[x] = IF heap.kid[x][d] = NIL THEN x ELSE last[heap.kid[x][d]]
    BY <1>9, <2>1
  <2> QED
    BY <2>1, <2>2, <1>3, <1>4, <1>5
<1> QED
  BY <1>1, <1>10

\* The climb ends at the nearest key on side d among those outside the subtree.
LEMMA ClimbIs ==
    ASSUME NEW T, NEW B, Shape(heap, T, B), NEW n \in T, NEW d \in Sides
    PROVE  Nearest(Climb(n, d), {k \in T \ B[n] : OnSide(k, n, d)}, d)
<1> DEFINE IsUp(f) == f = [m \in T |-> LET p == heap.parent[m]
                                       IN  IF p # NIL /\ heap.kid[p][d] = m THEN f[p] ELSE p]
           up == CHOOSE f : IsUp(f)
           o == Opposite(d)
           Rest(m) == {k \in T \ B[m] : OnSide(k, m, d)}
<1>1. Climb(n, d) = up[n]
  <2>1. Nodes = T
    BY NodesAre
  <2> QED
    BY <2>1 DEF Climb
<1>2. /\ NIL \notin T /\ T \subseteq Keys
      /\ o \in Sides /\ Opposite(o) = d /\ o # d
      /\ \A e \in Sides : e = d \/ e = o
  BY TreeAssumption, OppositeIs DEF Shape
<1>3. ASSUME NEW m \in T, heap.parent[m] = NIL  PROVE  Rest(m) = {}
  <2>1. m = heap.root /\ B[heap.root] = T
    BY <1>3, ParentOf DEF Shape
  <2> QED
    BY <2>1
<1>4. ASSUME NEW m \in T, heap.parent[m] # NIL
      PROVE  /\ heap.parent[m] \in T /\ m # heap.root
             /\ heap.kid[heap.parent[m]][d] = m \/ heap.kid[heap.parent[m]][o] = m
  BY <1>2, <1>4, ParentOf
<1>5. ASSUME NEW p \in T, NEW e \in Sides, heap.kid[p][e] \in T
      PROVE  LET m == heap.kid[p][e]
             IN  /\ m \in B[m] /\ B[m] \subseteq B[p] /\ p \in B[p] /\ p \notin B[m]
                 /\ OnSide(m, p, e) /\ OnSide(p, m, Opposite(e))
                 /\ \A k \in B[p] : k \in B[m] \/ k = p \/ OnSide(k, p, Opposite(e))
                 /\ \A k \in T \ B[p], f \in Sides : OnSide(k, m, f) <=> OnSide(k, p, f)
  <2> DEFINE m == heap.kid[p][e]
  <2>1. /\ m \in B[m] /\ B[m] \subseteq B[p] /\ p \in B[p] /\ p \notin B[m]
        /\ OnSide(m, p, e)
        /\ B[p] = {p} \cup B[m] \cup B[heap.kid[p][Opposite(e)]]
        /\ \A k \in B[heap.kid[p][Opposite(e)]] : OnSide(k, p, Opposite(e))
    BY <1>2, <1>5, NodeFacts, OppositeIs
  <2>2. p \in Keys /\ m \in Keys /\ OnSide(p, m, Opposite(e))
    BY <1>2, <1>5, <2>1, OnSideIs
  <2>3. ASSUME NEW k \in T \ B[p], NEW f \in Sides, OnSide(k, p, f)  PROVE  OnSide(k, m, f)
    <3> HIDE DEF m
    <3> QED
      BY <2>1, <2>3, SubtreeOnOneSide
  <2>4. ASSUME NEW k \in T \ B[p], NEW f \in Sides, OnSide(k, m, f)  PROVE  OnSide(k, p, f)
    <3>1. k \in Keys /\ k # p /\ Opposite(f) \in Sides /\ Opposite(f) # f
      BY <1>2, <2>1, <2>4, OppositeIs
    <3>2. PICK g \in Sides : OnSide(k, p, g)
      BY <3>1, <2>2, OnSideIs, OppositeIs
    <3>3. OnSide(k, m, g)
      BY <2>3, <3>2
    <3>4. g = f
      BY <3>1, <3>3, <2>2, <2>4, OnSideIs, OppositeIs
    <3> QED
      BY <3>2, <3>4
  <2> QED
    BY <2>1, <2>2, <2>3, <2>4
<1>6. ASSUME NEW m \in T, heap.parent[m] # NIL, heap.kid[heap.parent[m]][d] = m
      PROVE  Rest(m) = Rest(heap.parent[m])
  <2> DEFINE p == heap.parent[m]
  <2>1. /\ p \in T /\ m = heap.kid[p][d]
        /\ B[m] \subseteq B[p] /\ OnSide(p, m, o)
        /\ \A k \in B[p] : k \in B[m] \/ k = p \/ OnSide(k, p, o)
        /\ \A k \in T \ B[p] : OnSide(k, m, d) <=> OnSide(k, p, d)
    BY <1>4, <1>5, <1>6
  <2>2. ASSUME NEW k \in T \ B[m], OnSide(k, m, d)  PROVE  k \notin B[p]
    <3>1. k \in Keys /\ m \in Keys /\ p \in Keys
      BY <1>2, <1>6, <2>1
    <3>2. ~OnSide(k, m, o)
      BY <3>1, <1>2, <2>2, OnSideIs
    <3>3. OnSide(k, p, o) => OnSide(k, m, o)
      BY <3>1, <1>2, <2>1, OnSideIs
    <3> QED
      BY <3>2, <3>3, <2>1
  <2> QED
    BY <2>1, <2>2
<1>7. ASSUME NEW m \in T, heap.parent[m] # NIL, heap.kid[heap.parent[m]][d] # m
      PROVE  Nearest(heap.parent[m], Rest(m), d)
  <2> DEFINE p == heap.parent[m]
  <2>1. p \in T /\ m = heap.kid[p][o]
    BY <1>4, <1>7
  <2>2. /\ p \notin B[m] /\ OnSide(p, m, d)
        /\ \A k \in B[p] : k \in B[m] \/ k = p \/ OnSide(k, p, d)
        /\ \A k \in T \ B[p] : OnSide(k, m, d) <=> OnSide(k, p, d)
    BY <1>2, <1>5, <2>1
  <2>3. p \in Rest(m) /\ \A k \in Rest(m) : k = p \/ OnSide(k, p, d)
    BY <2>1, <2>2
  <2> HIDE DEF Rest
  <2> QED
    BY <2>3 DEF Nearest
<1> HIDE DEF Rest
<1>8. \A m \in T : \E c : Nearest(c, Rest(m), d)
  <2> DEFINE S == {m \in T : ~\E c : Nearest(c, Rest(m), d)}
  <2> SUFFICES ASSUME S # {}  PROVE  FALSE
    OBVIOUS
  <2>1. PICK x \in S : x = heap.root \/ heap.parent[x] \in T \ S
    <3>1. S \subseteq T
      OBVIOUS
    <3> HIDE DEF S
    <3> QED
      BY <3>1, Highest
  <2>2. CASE heap.parent[x] = NIL
    <3>1. Nearest(NIL, Rest(x), d)
      BY <2>1, <2>2, <1>3 DEF Nearest
    <3> QED
      BY <3>1, <2>1
  <2>3. CASE heap.parent[x] # NIL
    <3>1. heap.parent[x] \in T \ S
      BY <2>1, <2>3, <1>4
    <3> QED
      BY <3>1, <2>1, <2>3, <1>6, <1>7
  <2> QED
    BY <2>2, <2>3
<1>9. \E f : IsUp(f)
  <2> DEFINE F == [m \in T |-> CHOOSE c : Nearest(c, Rest(m), d)]
  <2>1. \A m \in T : Nearest(F[m], Rest(m), d)
    BY <1>8
  <2> HIDE DEF F
  <2>2. ASSUME NEW m \in T, NEW c, Nearest(c, Rest(m), d)  PROVE  F[m] = c
    <3>1. Rest(m) \in SUBSET Keys
      BY <1>2 DEF Rest
    <3> QED
      BY <3>1, <2>1, <2>2, NearestIsOne
  <2>3. ASSUME NEW m \in T
        PROVE  F[m] = LET p == heap.parent[m]
                      IN  IF p # NIL /\ heap.kid[p][d] = m THEN F[p] ELSE p
    <3>1. CASE heap.parent[m] = NIL
      <4>1. Nearest(NIL, Rest(m), d)
        BY <3>1, <1>3 DEF Nearest
      <4> QED
        BY <4>1, <3>1, <2>2
    <3>2. CASE heap.parent[m] # NIL /\ heap.kid[heap.parent[m]][d] = m
      <4>1. Nearest(F[heap.parent[m]], Rest(m), d)
        BY <3>2, <2>1, <1>4, <1>6
      <4> QED
        BY <4>1, <3>2, <2>2
    <3>3. CASE heap.parent[m] # NIL /\ heap.kid[heap.parent[m]][d] # m
      BY <3>3, <2>2, <1>7
    <3> QED
      BY <3>1, <3>2, <3>3
  <2>4. IsUp(F)
    BY <2>3 DEF F
  <2> QED
    BY <2>4
<1>10. IsUp(up)
  BY <1>9
<1> HIDE DEF up
<1>11. \A m \in T : Nearest(up[m], Rest(m), d)
  <2> DEFINE S == {m \in T : ~Nearest(up[m], Rest(m), d)}
  <2> SUFFICES ASSUME S # {}  PROVE  FALSE
    OBVIOUS
  <2>1. PICK x \in S : x = heap.root \/ heap.parent[x] \in T \ S
    <3>1. S \subseteq T
      OBVIOUS
    <3> HIDE DEF S
    <3> QED
      BY <3>1, Highest
  <2>2. up[x] = LET p == heap.parent[x]
                IN  IF p # NIL /\ heap.kid[p][d] = x THEN up[p] ELSE p
    BY <1>10, <2>1
  <2>3. CASE heap.parent[x] = NIL
    <3>1. up[x] = NIL
      BY <2>2, <2>3
    <3>2. Nearest(NIL, Rest(x), d)
      BY <2>1, <2>3, <1>3 DEF Nearest
    <3> QED
      BY <3>1, <3>2, <2>1
  <2>4. CASE heap.parent[x] # NIL
    <3>1. heap.parent[x] \in T \ S
      BY <2>1, <2>4, <1>4
    <3> QED
      BY <3>1, <2>1, <2>2, <2>4, <1>6, <1>7
  <2> QED
    BY <2>3, <2>4
<1> QED
  BY <1>1, <1>11 DEF Rest

\* The neighbour of a node on side d is the nearest of all keys on that side.
LEMMA NeighbourIs ==
    ASSUME NEW T, NEW B, Shape(heap, T, B), NEW n \in T, NEW d \in Sides
    PROVE  Nearest(Neighbour(n, d), {k \in T : OnSide(k, n, d)}, d)
<1> DEFINE c == heap.kid[n][d]
           o == Opposite(d)
<1>1. /\ NIL \notin T /\ T \subseteq Keys /\ B[NIL] = {}
      /\ o \in Sides /\ Opposite(o) = d /\ o # d
  BY TreeAssumption, OppositeIs DEF Shape
<1>2. /\ c \in T \cup {NIL}
      /\ B[n] = {n} \cup B[c] \cup B[heap.kid[n][o]] /\ B[n] \subseteq T
      /\ \A k \in B[c] : OnSide(k, n, d)
      /\ \A k \in B[heap.kid[n][o]] : OnSide(k, n, o)
  BY <1>1, NodeFacts
<1>3. \A k \in B[n] : OnSide(k, n, d) <=> k \in B[c]
  <2> SUFFICES ASSUME NEW k \in B[n], OnSide(k, n, d), k \notin B[c]  PROVE  FALSE
    BY <1>2
  <2>1. k \in Keys /\ n \in Keys
    BY <1>1, <1>2
  <2>2. k = n \/ OnSide(k, n, o)
    BY <1>2
  <2> QED
    BY <2>1, <2>2, <1>1, OnSideIs
<1>4. CASE c = NIL
  <2>1. {k \in T : OnSide(k, n, d)} = {k \in T \ B[n] : OnSide(k, n, d)}
    BY <1>1, <1>3, <1>4
  <2>2. Neighbour(n, d) = Climb(n, d)
    BY <1>4 DEF Neighbour
  <2> QED
    BY <2>1, <2>2, ClimbIs
<1>5. CASE c # NIL
  <2> DEFINE u == Utmost(c, o)
  <2>1. Neighbour(n, d) = u
    BY <1>5 DEF Neighbour
  <2>2. c \in T /\ Nearest(u, B[c], d) /\ c \in B[c]
    <3>1. c \in T
      BY <1>2, <1>5
    <3>2. Nearest(u, B[c], Opposite(o))
      BY <3>1, <1>1, UtmostIs
    <3> QED
      BY <3>1, <3>2, <1>1, NodeFacts
  <2> HIDE DEF u
  <2>3. u \in B[c] /\ \A k \in B[c] : k = u \/ OnSide(k, u, d)
    BY <2>2 DEF Nearest
  <2>4. u \in T /\ u \in B[n] /\ OnSide(u, n, d)
    BY <2>3, <1>2
  <2>5. ASSUME NEW k \in T, OnSide(k, n, d)  PROVE  k = u \/ OnSide(k, u, d)
    <3>1. CASE k \in B[n]
      BY <3>1, <2>3, <2>5, <1>3
    <3>2. CASE k \notin B[n]
      BY <3>2, <2>4, <2>5, SubtreeOnOneSide
    <3> QED
      BY <3>1, <3>2
  <2> QED
    BY <2>1, <2>4, <2>5 DEF Nearest
<1> QED
  BY <1>4, <1>5

\* rb_first, rb_last, rb_next and rb_prev, in every round of every loop of a tree of
\* any size: from one end to the other they visit every key once, in order.
THEOREM TraversalKept == Spec => []Traversal
<1>1. Inv => Traversal
  <2> SUFFICES ASSUME NEW T, NEW B, NEW H, TreeInv(T, B, H)  PROVE  Traversal
    BY DEF Inv
  <2>1. Shape(heap, T, B)
    BY DEF TreeInv, Good
  <2>2. /\ heap.root \in T \cup {NIL} /\ B[heap.root] = T /\ B[NIL] = {} /\ NIL \notin T
        /\ T \subseteq Keys
    BY <2>1, TreeAssumption DEF Shape
  <2>3. Contents = T
    BY <2>1, <2>2, BelowIs DEF Contents
  <2>4. ASSUME NEW d \in Sides  PROVE  Nearest(End(d), T, Opposite(d))
    <3>1. CASE heap.root = NIL
      BY <3>1, <2>2 DEF End, Nearest
    <3>2. CASE heap.root # NIL
      <4>1. heap.root \in T /\ End(d) = Utmost(heap.root, d)
        BY <3>2, <2>2 DEF End
      <4>2. Nearest(Utmost(heap.root, d), B[heap.root], Opposite(d))
        BY <4>1, <2>1, UtmostIs
      <4> QED
        BY <4>1, <4>2, <2>2
    <3> QED
      BY <3>1, <3>2
  <2>5. ASSUME NEW S \in SUBSET T, NEW c
        PROVE  /\ Nearest(c, S, "right") => IsLeast(c, S)
               /\ Nearest(c, S, "left") => IsGreatest(c, S)
    <3>1. S \subseteq Keys /\ S \subseteq Int
      BY <2>2, TreeAssumption
    <3>2. \A k \in S : /\ (k = c \/ OnSide(k, c, "right")) /\ c \in S => c <= k
                       /\ (k = c \/ OnSide(k, c, "left")) /\ c \in S => c >= k
      <4> SUFFICES ASSUME NEW k \in S, c \in S
                   PROVE  /\ k = c \/ OnSide(k, c, "right") => c <= k
                          /\ k = c \/ OnSide(k, c, "left") => c >= k
        OBVIOUS
      <4>1. k \in Int /\ c \in Int /\ k \in Keys /\ c \in Keys
        BY <3>1
      <4>2. (OnSide(k, c, "right") <=> k > c) /\ (OnSide(k, c, "left") <=> k < c)
        BY <4>1, OnSideIs
      <4> QED
        BY <4>1, <4>2
    <3> QED
      BY <3>2 DEF Nearest, IsLeast, IsGreatest
  <2>6. IsLeast(End("left"), T) /\ IsGreatest(End("right"), T)
    BY <2>4, <2>5, OppositeIs
  <2>7. ASSUME NEW n \in T
        PROVE  /\ IsLeast(Neighbour(n, "right"), {k \in T : k > n})
               /\ IsGreatest(Neighbour(n, "left"), {k \in T : k < n})
    <3>1. /\ {k \in T : OnSide(k, n, "right")} = {k \in T : k > n}
          /\ {k \in T : OnSide(k, n, "left")} = {k \in T : k < n}
      BY DEF OnSide
    <3>2. /\ Nearest(Neighbour(n, "right"), {k \in T : k > n}, "right")
          /\ Nearest(Neighbour(n, "left"), {k \in T : k < n}, "left")
      BY <3>1, <2>1, NeighbourIs, OppositeIs
    <3> QED
      BY <3>2, <2>5
  <2> QED
    BY <2>3, <2>6, <2>7 DEF Traversal
<1> QED
  BY <1>1, TreeKept, PTL
=============================================================================
