-------------------------- MODULE ValuePool_proofs --------------------------
(***************************************************************************)
(* What ValuePool guarantees for every block size, every set of keys and   *)
(* all values.  The strings of a pool lie one after the other below        *)
(* pvalue, so that a write never reaches another one; and the strings a    *)
(* remap still has to move always fit in what is left of the fresh pool,   *)
(* because they did not overlap in a block of the same size.               *)
(***************************************************************************)
EXTENDS ValuePool, FiniteSetTheorems, SequenceTheorems, TLAPS

Val(k) == StringAt(ptr[k])          \* what a node's pointer leads to
Low(k) == ptr[k].off                \* the first and last byte of it
High(k) == ptr[k].off + Len(Val(k))

\* Every node points to a whole string below pvalue of a pool that is there.
SlotInv == \A k \in nodes : /\ Val(k) \in Values
                            /\ StoredAt(ptr[k], Val(k))
                            /\ High(k) < used[ptr[k].pool]
                            /\ ptr[k].pool \in alive

\* The strings of a pool are apart.
ApartInv == \A j, k \in nodes : j # k /\ ptr[j].pool = ptr[k].pool
                                  => High(j) < Low(k) \/ High(k) < Low(j)

\* Which pools there are, and which of them the nodes point into.
PhaseInv == /\ cur = 0 => pc # "remap" /\ nodes = {} /\ refused = Nothing
            /\ pc = "crashed" => cur = 0
            /\ pc = "ready" /\ cur # 0 =>
                   cur \in alive /\ \A k \in nodes : ptr[k].pool = cur
            /\ pc = "remap" =>
                   /\ Tmp \in alive
                   /\ \A k \in todo : ptr[k].pool = cur
                   /\ \A k \in nodes \ todo : ptr[k].pool = Tmp
            /\ pc # "remap" => todo = {}

\* The strings still to be moved fit in the fresh pool; those that were moved
\* fill it without a gap.
SpaceInv == /\ pc = "remap" =>
                  /\ used[Tmp] + Cardinality(LiveCells(todo)) <= Block
                  /\ used[Tmp] = Cardinality(LiveCells(nodes \ todo))
            /\ pc = "ready" /\ refused # Nothing =>
                  used[cur] = Cardinality(LiveCells(nodes))

IInv == TypeOK /\ SlotInv /\ ApartInv /\ PhaseInv /\ SpaceInv

-----------------------------------------------------------------------------
(* Strings in a block.                                                      *)

LEMMA ValueIsSeq ==
  ASSUME NEW v \in Values
  PROVE  v \in Seq(Chars) /\ Len(v) \in Nat /\ \A i \in 1..Len(v) : v[i] \in Chars
  <1>1. v \in Seq(Chars)
    BY PoolAssumption
  <1>2. QED
    BY <1>1, LenProperties, ElementOfSeq

\* One address holds at most one string: the terminator is no character.
LEMMA StoredUnique ==
  ASSUME NEW m, NEW o \in Int, NEW v \in Values, NEW w \in Values,
         StoredIn(m, o, v), StoredIn(m, o, w)
  PROVE  v = w
  <1>1. v \in Seq(Chars) /\ Len(v) \in Nat /\ \A i \in 1..Len(v) : v[i] \in Chars
    BY ValueIsSeq
  <1>2. w \in Seq(Chars) /\ Len(w) \in Nat /\ \A i \in 1..Len(w) : w[i] \in Chars
    BY ValueIsSeq
  <1>3. ~(Len(v) < Len(w))
    <2> SUFFICES ASSUME Len(v) < Len(w) PROVE FALSE
      OBVIOUS
    <2>1. Len(v) + 1 \in 1..Len(w)
      BY <1>1, <1>2
    <2>2. m[o + (Len(v) + 1) - 1] = w[Len(v) + 1]
      BY <2>1 DEF StoredIn
    <2>3. o + (Len(v) + 1) - 1 = o + Len(v)
      BY <1>1
    <2>4. w[Len(v) + 1] = NUL
      BY <2>2, <2>3 DEF StoredIn
    <2>5. QED
      BY <1>2, <2>1, <2>4, PoolAssumption
  <1>4. ~(Len(w) < Len(v))
    <2> SUFFICES ASSUME Len(w) < Len(v) PROVE FALSE
      OBVIOUS
    <2>1. Len(w) + 1 \in 1..Len(v)
      BY <1>1, <1>2
    <2>2. m[o + (Len(w) + 1) - 1] = v[Len(w) + 1]
      BY <2>1 DEF StoredIn
    <2>3. o + (Len(w) + 1) - 1 = o + Len(w)
      BY <1>2
    <2>4. v[Len(w) + 1] = NUL
      BY <2>2, <2>3 DEF StoredIn
    <2>5. QED
      BY <1>1, <2>1, <2>4, PoolAssumption
  <1>5. Len(v) = Len(w)
    BY <1>1, <1>2, <1>3, <1>4
  <1>6. \A i \in 1..Len(v) : v[i] = w[i]
    BY <1>5 DEF StoredIn
  <1>7. QED
    BY <1>1, <1>2, <1>5, <1>6, SeqEqual

\* strlen and strcpy find the string that is stored there.
LEMMA StringIs ==
  ASSUME NEW m, NEW o \in Int, NEW v \in Values, StoredIn(m, o, v)
  PROVE  StringIn(m, o) = v
  BY StoredUnique DEF StringIn

\* What strcpy wrote is there.
LEMMA WrittenIsStored ==
  ASSUME NEW m, NEW o \in Addresses, NEW v \in Values, o + Len(v) < Block
  PROVE  StoredIn(Written(m, o, v), o, v)
  <1>1. Len(v) \in Nat
    BY ValueIsSeq
  <1>2. o \in Nat /\ Block \in Nat
    BY PoolAssumption DEF Addresses
  <1>3. ASSUME NEW i \in 1..Len(v) PROVE Written(m, o, v)[o + i - 1] = v[i]
    <2>1. o + i - 1 \in Addresses /\ o + i - 1 \in o..(o + Len(v) - 1)
      BY <1>1, <1>2 DEF Addresses
    <2>2. (o + i - 1) - o + 1 = i
      BY <1>1, <1>2
    <2>3. QED
      BY <2>1, <2>2 DEF Written
  <1>4. Written(m, o, v)[o + Len(v)] = NUL
    <2>1. o + Len(v) \in Addresses /\ o + Len(v) \notin o..(o + Len(v) - 1)
      BY <1>1, <1>2 DEF Addresses
    <2>2. QED
      BY <2>1 DEF Written
  <1>5. QED
    BY <1>3, <1>4 DEF StoredIn

\* A string that lies elsewhere in the block stays as it is.
LEMMA WrittenElsewhere ==
  ASSUME NEW m, NEW o \in Addresses, NEW v \in Values,
         NEW p \in Addresses, NEW w \in Values, StoredIn(m, p, w),
         p + Len(w) < o \/ o + Len(v) < p
  PROVE  StoredIn(Written(m, o, v), p, w)
  <1>1. Len(v) \in Nat /\ Len(w) \in Nat
    BY ValueIsSeq
  <1>2. o \in Nat /\ p \in Nat /\ Block \in Nat /\ p + Len(w) < Block
    BY PoolAssumption DEF Addresses, StoredIn
  <1>3. \A a \in p..(p + Len(w)) : Written(m, o, v)[a] = m[a]
    <2> SUFFICES ASSUME NEW a \in p..(p + Len(w)) PROVE Written(m, o, v)[a] = m[a]
      OBVIOUS
    <2>1. a \in Addresses
      BY <1>1, <1>2 DEF Addresses
    <2>2. a \notin o..(o + Len(v) - 1) /\ a # o + Len(v)
      BY <1>1, <1>2
    <2>3. QED
      BY <2>1, <2>2 DEF Written
  <1>4. \A i \in 1..Len(w) : p + i - 1 \in p..(p + Len(w))
    BY <1>1, <1>2
  <1>5. p + Len(w) \in p..(p + Len(w))
    BY <1>1, <1>2
  <1>6. QED
    BY <1>3, <1>4, <1>5 DEF StoredIn

\* A block stays a block of bytes.
LEMMA WrittenType ==
  ASSUME NEW m \in [Addresses -> Chars \cup {NUL}], NEW o \in Addresses, NEW v \in Values
  PROVE  Written(m, o, v) \in [Addresses -> Chars \cup {NUL}]
  <1>1. Len(v) \in Nat /\ \A i \in 1..Len(v) : v[i] \in Chars
    BY ValueIsSeq
  <1>2. ASSUME NEW a \in Addresses, a \in o..(o + Len(v) - 1)
        PROVE  v[a - o + 1] \in Chars
    <2>1. a - o + 1 \in 1..Len(v)
      BY <1>1, <1>2, PoolAssumption DEF Addresses
    <2>2. QED
      BY <1>1, <2>1
  <1>3. QED
    BY <1>2 DEF Written

-----------------------------------------------------------------------------
(* Strings behind pointers, before and after a write.                       *)

LEMMA PointerType ==
  ASSUME TypeOK, NEW k \in Keys
  PROVE  ptr[k].pool \in Pools /\ ptr[k].off \in Addresses /\ ptr[k].off \in Nat
  BY PoolAssumption DEF TypeOK, Pointers, Addresses

\* A string that is not where v is written is what it was.
LEMMA OthersKept ==
  ASSUME TypeOK, SlotInv,
         NEW q \in Pools, NEW o \in Addresses, NEW v \in Values,
         mem' = [mem EXCEPT ![q] = Written(mem[q], o, v)],
         NEW j \in nodes, ptr'[j] = ptr[j],
         ptr[j].pool = q => High(j) < o \/ o + Len(v) < Low(j)
  PROVE  Val(j)' = Val(j) /\ StoredAt(ptr[j], Val(j))'
  <1>1. j \in Keys /\ ptr[j].pool \in Pools /\ ptr[j].off \in Addresses /\ ptr[j].off \in Int
    BY PointerType DEF TypeOK
  <1>2. Val(j) \in Values /\ StoredIn(mem[ptr[j].pool], ptr[j].off, Val(j))
    BY DEF SlotInv, StoredAt
  <1>3. StoredIn(mem'[ptr[j].pool], ptr[j].off, Val(j))
    <2>1. CASE ptr[j].pool = q
      <3>1. mem'[q] = Written(mem[q], o, v)
        BY DEF TypeOK
      <3>2. QED
        BY <1>1, <1>2, <2>1, <3>1, WrittenElsewhere DEF High, Low
    <2>2. CASE ptr[j].pool # q
      <3>1. mem'[ptr[j].pool] = mem[ptr[j].pool]
        BY <1>1, <2>2 DEF TypeOK
      <3>2. QED
        BY <1>2, <3>1
    <2>3. QED
      BY <2>1, <2>2
  <1>4. StringIn(mem'[ptr[j].pool], ptr[j].off) = Val(j)
    BY <1>1, <1>2, <1>3, StringIs
  <1>5. QED
    BY <1>3, <1>4 DEF Val, StringAt, StoredAt

\* The pointer to what was written leads to what was written.
LEMMA NewString ==
  ASSUME TypeOK,
         NEW q \in Pools, NEW o \in Addresses, NEW v \in Values, o + Len(v) < Block,
         mem' = [mem EXCEPT ![q] = Written(mem[q], o, v)],
         NEW k \in Keys, ptr'[k].pool = q, ptr'[k].off = o
  PROVE  Val(k)' = v /\ StoredAt(ptr[k], v)'
  <1>1. mem'[q] = Written(mem[q], o, v)
    BY DEF TypeOK
  <1>2. StoredIn(mem'[q], o, v)
    BY <1>1, WrittenIsStored
  <1>3. o \in Int
    BY DEF Addresses
  <1>4. StringIn(mem'[q], o) = v
    BY <1>2, <1>3, StringIs
  <1>5. QED
    BY <1>2, <1>4 DEF Val, StringAt, StoredAt

\* A pool that a string does not lie in may be allocated, cleared or freed.
LEMMA PoolKept ==
  ASSUME TypeOK, SlotInv, NEW j \in nodes,
         ptr'[j] = ptr[j], mem'[ptr[j].pool] = mem[ptr[j].pool]
  PROVE  Val(j)' = Val(j) /\ StoredAt(ptr[j], Val(j))'
  BY DEF SlotInv, Val, StringAt, StoredAt

-----------------------------------------------------------------------------
(* Counting bytes.                                                          *)

LEMMA CountString ==
  ASSUME NEW A, IsFiniteSet(A), NEW a \in Int, NEW n \in Nat,
         A \cap (a..(a + n)) = {}
  PROVE  /\ IsFiniteSet(A \cup (a..(a + n)))
         /\ Cardinality(A \cup (a..(a + n))) = Cardinality(A) + n + 1
  <1>1. IsFiniteSet(a..(a + n)) /\ Cardinality(a..(a + n)) = n + 1
    BY FS_Interval
  <1>2. Cardinality(A \cap (a..(a + n))) = 0
    BY FS_EmptySet
  <1>3. Cardinality(A) \in Nat
    BY FS_CardinalityType
  <1> DEFINE B == a..(a + n)
  <1>4. /\ IsFiniteSet(A \cup B)
        /\ Cardinality(A \cup B) = Cardinality(A) + Cardinality(B) - Cardinality(A \cap B)
    <2> HIDE DEF B
    <2>1. IsFiniteSet(B)
      BY <1>1 DEF B
    <2>2. QED
      BY <2>1, FS_Union
  <1>5. QED
    BY <1>1, <1>2, <1>3, <1>4

LEMMA NodeBytes ==
  ASSUME TypeOK, SlotInv, NEW k \in nodes
  PROVE  /\ Low(k) \in Nat /\ High(k) \in Nat /\ High(k) < Block
         /\ Len(Val(k)) \in Nat /\ High(k) = Low(k) + Len(Val(k))
         /\ Cells(k) = Low(k)..High(k)
         /\ used[ptr[k].pool] \in Nat /\ used[ptr[k].pool] <= Block
  <1>1. ptr[k].pool \in Pools /\ ptr[k].off \in Nat
    BY PointerType DEF TypeOK
  <1>2. Val(k) \in Values /\ High(k) < Block
    BY DEF SlotInv, StoredAt, StoredIn, High
  <1>3. Len(Val(k)) \in Nat
    BY <1>2, ValueIsSeq
  <1>4. Cells(k) = Low(k)..High(k)
    BY DEF Cells, Low, High, Val
  <1>5. used[ptr[k].pool] \in 0..Block
    BY <1>1 DEF TypeOK
  <1>6. QED
    BY <1>1, <1>2, <1>3, <1>4, <1>5, PoolAssumption DEF Low, High

LEMMA LiveBytes ==
  ASSUME TypeOK, SlotInv, NEW S \in SUBSET nodes
  PROVE  /\ LiveCells(S) \subseteq Addresses
         /\ IsFiniteSet(LiveCells(S))
         /\ Cardinality(LiveCells(S)) \in Nat
         /\ Cardinality(LiveCells(S)) <= Block
  <1>1. ASSUME NEW k \in S PROVE Cells(k) \subseteq Addresses
    <2>1. Low(k) \in Nat /\ High(k) \in Nat /\ High(k) < Block /\ Cells(k) = Low(k)..High(k)
      BY NodeBytes
    <2>2. QED
      BY <2>1, PoolAssumption DEF Addresses
  <1>2. LiveCells(S) \subseteq Addresses
    BY <1>1 DEF LiveCells
  <1>3. IsFiniteSet(Addresses) /\ Cardinality(Addresses) = Block
    BY FS_Interval, PoolAssumption DEF Addresses
  <1>4. QED
    BY <1>2, <1>3, FS_Subset, FS_CardinalityType

\* Taking one string away takes its bytes away.
LEMMA OneLess ==
  ASSUME TypeOK, SlotInv, ApartInv, NEW S \in SUBSET nodes, NEW k \in S,
         \A j \in S : ptr[j].pool = ptr[k].pool
  PROVE  Cardinality(LiveCells(S)) =
             Cardinality(LiveCells(S \ {k})) + Size(Val(k))
  <1>1. \A j \in S \ {k} : Cells(j) \cap Cells(k) = {}
    <2> SUFFICES ASSUME NEW j \in S \ {k} PROVE Cells(j) \cap Cells(k) = {}
      OBVIOUS
    <2>1. High(j) < Low(k) \/ High(k) < Low(j)
      BY DEF ApartInv
    <2>2. QED
      BY <2>1, NodeBytes
  <1>2. LiveCells(S) = LiveCells(S \ {k}) \cup Cells(k)
    BY DEF LiveCells
  <1>3. LiveCells(S \ {k}) \cap Cells(k) = {}
    BY <1>1 DEF LiveCells
  <1>4. Cells(k) = Low(k)..(Low(k) + Len(Val(k))) /\ Low(k) \in Int /\ Len(Val(k)) \in Nat
    BY NodeBytes
  <1>5. IsFiniteSet(LiveCells(S \ {k})) /\ Cardinality(LiveCells(S \ {k})) \in Nat
    BY LiveBytes
  <1>6. Cardinality(LiveCells(S)) = Cardinality(LiveCells(S \ {k})) + Len(Val(k)) + 1
    <2> DEFINE A == LiveCells(S \ {k})
               a == Low(k)
               n == Len(Val(k))
    <2>1. A \cap (a..(a + n)) = {} /\ IsFiniteSet(A) /\ a \in Int /\ n \in Nat
      BY <1>3, <1>4, <1>5
    <2>2. LiveCells(S) = A \cup (a..(a + n))
      BY <1>2, <1>4
    <2> HIDE DEF A, a, n
    <2>3. Cardinality(A \cup (a..(a + n))) = Cardinality(A) + n + 1
      BY <2>1, CountString
    <2>4. QED
      BY <2>2, <2>3 DEF A, n
  <1>7. QED
    BY <1>4, <1>5, <1>6 DEF Size

\* The next string of a remap fits: RemapNode never crashes.
LEMMA NextFits ==
  ASSUME IInv, pc = "remap", NEW k \in todo
  PROVE  /\ Fits(Tmp, Val(k))
         /\ used[Tmp] + Size(Val(k)) + Cardinality(LiveCells(todo \ {k})) <= Block
  <1> USE DEF IInv
  <1>1. todo \in SUBSET nodes /\ k \in nodes
    BY DEF TypeOK
  <1>2. \A j \in todo : ptr[j].pool = ptr[k].pool
    BY DEF PhaseInv
  <1>3. Cardinality(LiveCells(todo)) = Cardinality(LiveCells(todo \ {k})) + Size(Val(k))
    BY <1>1, <1>2, OneLess
  <1>4. Cardinality(LiveCells(todo \ {k})) \in Nat
    BY <1>1, LiveBytes
  <1>5. Size(Val(k)) \in Nat
    BY <1>1, NodeBytes DEF Size
  <1>6. Tmp \in Pools
    BY DEF PhaseInv, TypeOK, Tmp, Pools
  <1>7. used[Tmp] \in Nat
    BY <1>6, PoolAssumption DEF TypeOK
  <1>8. used[Tmp] + Cardinality(LiveCells(todo)) <= Block
    BY DEF SpaceInv
  <1>9. QED
    BY <1>3, <1>4, <1>5, <1>7, <1>8, PoolAssumption DEF Fits

-----------------------------------------------------------------------------
(* What an action does to the strings behind the pointers.                  *)

LEMMA InPlaceEffect ==
  ASSUME IInv, NEW k \in Keys, NEW v \in Values, PutInPlace(k, v)
  PROVE  /\ k \in nodes /\ Low(k) + Len(v) <= High(k) /\ Len(v) \in Nat
         /\ Val(k)' = v /\ StoredAt(ptr[k], v)'
         /\ \A j \in nodes \ {k} : Val(j)' = Val(j) /\ StoredAt(ptr[j], Val(j))'
  <1> USE DEF IInv
  <1>1. k \in nodes /\ Len(v) \in Nat /\ Len(v) <= Len(Val(k))
    BY ValueIsSeq DEF PutInPlace, Val
  <1>2. /\ Low(k) \in Nat /\ High(k) \in Nat /\ High(k) < Block
        /\ High(k) = Low(k) + Len(Val(k)) /\ Len(Val(k)) \in Nat
    BY <1>1, NodeBytes
  <1>3. Low(k) + Len(v) <= High(k) /\ Low(k) + Len(v) < Block
    BY <1>1, <1>2, PoolAssumption
  <1>4. ptr[k].pool \in Pools /\ Low(k) \in Addresses
    BY PointerType DEF Low
  <1>5. mem' = [mem EXCEPT ![ptr[k].pool] = Written(mem[ptr[k].pool], Low(k), v)]
    BY DEF PutInPlace, Low
  <1>6. ptr' = ptr
    BY DEF PutInPlace
  <1>7. Val(k)' = v /\ StoredAt(ptr[k], v)'
    BY <1>3, <1>4, <1>5, <1>6, NewString DEF Low
  <1>8. ASSUME NEW j \in nodes \ {k}
        PROVE  Val(j)' = Val(j) /\ StoredAt(ptr[j], Val(j))'
    <2>1. ptr[j].pool = ptr[k].pool => High(j) < Low(k) \/ High(k) < Low(j)
      BY <1>1 DEF ApartInv
    <2>2. High(j) \in Nat /\ Low(j) \in Nat
      BY NodeBytes
    <2>3. ptr[j].pool = ptr[k].pool => High(j) < Low(k) \/ Low(k) + Len(v) < Low(j)
      BY <1>1, <1>2, <1>3, <2>1, <2>2
    <2>4. QED
      BY <1>4, <1>5, <1>6, <2>3, OthersKept
  <1>9. QED
    BY <1>1, <1>3, <1>7, <1>8

LEMMA AllocateEffect ==
  ASSUME IInv, NEW p \in Pools, NEW k \in Keys, NEW v \in Values, Allocate(p, k, v)
  PROVE  /\ Len(v) \in Nat /\ used[p] \in Nat
         /\ used' = [used EXCEPT ![p] = used[p] + Size(v)] /\ Size(v) = Len(v) + 1
         /\ used[p] + Len(v) < Block
         /\ ptr'[k].pool = p /\ ptr'[k].off = used[p]
         /\ Val(k)' = v /\ StoredAt(ptr[k], v)'
         /\ \A j \in nodes \ {k} : /\ ptr'[j] = ptr[j]
                                   /\ Val(j)' = Val(j) /\ StoredAt(ptr[j], Val(j))'
  <1> USE DEF IInv
  <1>1. Len(v) \in Nat /\ used[p] \in Nat /\ used[p] <= Block
    BY ValueIsSeq, PoolAssumption DEF TypeOK
  <1>2. used[p] + Len(v) < Block
    BY <1>1, PoolAssumption DEF Allocate, Fits, Size
  <1>3. used' = [used EXCEPT ![p] = used[p] + Size(v)] /\ Size(v) = Len(v) + 1
    BY DEF Allocate, Size
  <1>4. used[p] \in Addresses
    BY <1>1, <1>2, PoolAssumption DEF Addresses
  <1>5. ptr'[k].pool = p /\ ptr'[k].off = used[p]
    BY DEF Allocate, TypeOK
  <1>6. mem' = [mem EXCEPT ![p] = Written(mem[p], used[p], v)]
    BY DEF Allocate
  <1>7. Val(k)' = v /\ StoredAt(ptr[k], v)'
    BY <1>2, <1>4, <1>5, <1>6, NewString
  <1>8. ASSUME NEW j \in nodes \ {k}
        PROVE  ptr'[j] = ptr[j] /\ Val(j)' = Val(j) /\ StoredAt(ptr[j], Val(j))'
    <2>1. ptr'[j] = ptr[j]
      BY DEF Allocate, TypeOK
    <2>2. ptr[j].pool = p => High(j) < used[p]
      BY DEF SlotInv
    <2>3. Val(j)' = Val(j) /\ StoredAt(ptr[j], Val(j))'
      BY <1>4, <1>6, <2>1, <2>2, OthersKept
    <2>4. QED
      BY <2>1, <2>3
  <1>9. QED
    BY <1>1, <1>2, <1>3, <1>5, <1>7, <1>8

\* RemapNode is always its first branch.
LEMMA RemapMoves ==
  ASSUME IInv, NEW k \in Keys, RemapNode(k)
  PROVE  /\ pc = "remap" /\ k \in todo /\ k \in nodes
         /\ Tmp \in Pools /\ cur \in Pools /\ Tmp # cur
         /\ Val(k) \in Values
         /\ Allocate(Tmp, k, Val(k))
         /\ todo' = todo \ {k} /\ pc' = pc
  <1> USE DEF IInv
  <1>1. pc = "remap" /\ k \in todo /\ k \in nodes
    BY DEF RemapNode, IsNext, TypeOK
  <1>2. Tmp \in Pools /\ cur \in Pools /\ Tmp # cur
    BY <1>1 DEF PhaseInv, TypeOK, Tmp, Pools
  <1>3. Fits(Tmp, Val(k)) /\ Val(k) \in Values
    BY <1>1, NextFits DEF SlotInv
  <1>4. QED
    BY <1>1, <1>2, <1>3 DEF RemapNode, Val

-----------------------------------------------------------------------------
(* The parts of the invariant, one after the other.                         *)

LEMMA TypeInit == Init => TypeOK
  <1> SUFFICES ASSUME Init PROVE TypeOK
    OBVIOUS
  <1>1. mem \in [Pools -> [Addresses -> Chars \cup {NUL}]]
    BY DEF Init, Blank
  <1>2. ptr \in [Keys -> Pointers]
    BY PoolAssumption DEF Init, Nowhere, Pointers, Pools, Addresses
  <1>3. used \in [Pools -> 0..Block]
    BY PoolAssumption DEF Init
  <1>4. QED
    BY <1>1, <1>2, <1>3 DEF Init, TypeOK

LEMMA TypeStep == IInv /\ [Next]_vars => TypeOK'
  <1> SUFFICES ASSUME IInv, [Next]_vars PROVE TypeOK'
    OBVIOUS
  <1> USE DEF IInv
  <1>1. Blank \in [Addresses -> Chars \cup {NUL}]
    BY DEF Blank
  <1>2. 0 \in 0..Block
    BY PoolAssumption
  <1>3. CASE MemoryInit
    BY <1>1, <1>2, <1>3 DEF MemoryInit, NewPool, TypeOK, Pools
  <1>4. ASSUME NEW k \in Keys, NEW v \in Values, PutInPlace(k, v) PROVE TypeOK'
    <2>1. ptr[k].pool \in Pools /\ ptr[k].off \in Addresses
      BY PointerType
    <2>2. Written(mem[ptr[k].pool], ptr[k].off, v) \in [Addresses -> Chars \cup {NUL}]
      BY <2>1, WrittenType DEF TypeOK
    <2>3. QED
      BY <1>4, <2>1, <2>2 DEF PutInPlace, TypeOK
  <1>5. ASSUME NEW p \in Pools, NEW k \in Keys, NEW v \in Values, Allocate(p, k, v)
        PROVE  /\ mem' \in [Pools -> [Addresses -> Chars \cup {NUL}]]
               /\ ptr' \in [Keys -> Pointers]
               /\ used' \in [Pools -> 0..Block]
    <2>1. /\ Len(v) \in Nat /\ used[p] \in Nat /\ Size(v) = Len(v) + 1
          /\ used[p] + Len(v) < Block
      BY <1>5, AllocateEffect
    <2>2. used[p] \in Addresses /\ used[p] + Size(v) \in 0..Block
      BY <2>1, PoolAssumption DEF Addresses
    <2>3. Written(mem[p], used[p], v) \in [Addresses -> Chars \cup {NUL}]
      BY <2>2, WrittenType DEF TypeOK
    <2>4. [pool |-> p, off |-> used[p]] \in Pointers
      BY <2>2 DEF Pointers
    <2>5. QED
      BY <1>5, <2>2, <2>3, <2>4 DEF Allocate, TypeOK
  <1>6. ASSUME NEW k \in Keys, NEW v \in Values, PutAllocated(k, v) PROVE TypeOK'
    <2>1. cur \in Pools /\ Allocate(cur, k, v)
      BY <1>6 DEF PutAllocated, TypeOK
    <2>2. QED
      BY <1>5, <1>6, <2>1 DEF PutAllocated, TypeOK
  <1>7. ASSUME NEW k \in Keys, NEW v \in Values, PutRefused(k, v) PROVE TypeOK'
    <2>1. Tmp \in Pools
      BY <1>7 DEF PutRefused, TypeOK, Tmp, Pools
    <2>2. <<k, v>> \in Keys \X Values
      OBVIOUS
    <2>3. QED
      BY <1>1, <1>2, <1>7, <2>1, <2>2 DEF PutRefused, NewPool, TypeOK
  <1>8. ASSUME NEW k \in Keys, RemapNode(k) PROVE TypeOK'
    <2>1. /\ Allocate(Tmp, k, Val(k)) /\ Val(k) \in Values /\ Tmp \in Pools
          /\ todo' = todo \ {k} /\ pc' = pc
      BY <1>8, RemapMoves
    <2>2. QED
      BY <1>5, <1>8, <2>1 DEF RemapNode, TypeOK
  <1>9. CASE RemapDone
    <2>1. cur \in Pools /\ Tmp \in Pools
      BY <1>9 DEF RemapDone, PhaseInv, TypeOK, Tmp, Pools
    <2>2. QED
      BY <1>1, <1>2, <1>9, <2>1 DEF RemapDone, FreePool, TypeOK
  <1>10. CASE MemoryDestroy
    <2>1. todo = {}
      BY <1>10 DEF MemoryDestroy, PhaseInv
    <2>2. Nowhere \in [Keys -> Pointers]
      BY PoolAssumption DEF Nowhere, Pointers, Pools, Addresses
    <2>3. QED
      BY <1>1, <1>2, <1>10, <2>1, <2>2 DEF MemoryDestroy, FreePool, TypeOK
  <1>11. ASSUME NEW k \in Keys, NEW v \in Values, PutWithoutPool(k, v) PROVE TypeOK'
    BY <1>11 DEF PutWithoutPool, TypeOK
  <1>12. CASE UNCHANGED vars
    BY <1>12 DEF vars, TypeOK
  <1>13. QED
    BY <1>3, <1>4, <1>6, <1>7, <1>8, <1>9, <1>10, <1>11, <1>12 DEF Next, Put

LEMMA PhaseInit == Init => PhaseInv
  BY DEF Init, PhaseInv

LEMMA PhaseStep == IInv /\ [Next]_vars => PhaseInv'
  <1> SUFFICES ASSUME IInv, [Next]_vars PROVE PhaseInv'
    OBVIOUS
  <1> USE DEF IInv
  <1>1. CASE MemoryInit
    BY <1>1 DEF MemoryInit, NewPool, PhaseInv
  <1>2. ASSUME NEW k \in Keys, NEW v \in Values, PutInPlace(k, v) PROVE PhaseInv'
    BY <1>2 DEF PutInPlace, PhaseInv
  <1>3. ASSUME NEW k \in Keys, NEW v \in Values, PutAllocated(k, v) PROVE PhaseInv'
    <2>1. cur \in Pools /\ Allocate(cur, k, v)
      BY <1>3 DEF PutAllocated, TypeOK
    <2>2. ptr'[k].pool = cur /\ \A j \in nodes \ {k} : ptr'[j] = ptr[j]
      BY <2>1, AllocateEffect
    <2>3. /\ pc = "ready" /\ pc' = pc /\ cur # 0 /\ cur' = cur /\ alive' = alive
          /\ todo' = todo /\ nodes' = nodes \cup {k} /\ todo' = {}
      BY <1>3 DEF PutAllocated, PhaseInv
    <2>4. \A j \in nodes' : ptr'[j].pool = cur'
      BY <2>2, <2>3 DEF PhaseInv
    <2>5. QED
      BY <2>3, <2>4 DEF PhaseInv
  <1>4. ASSUME NEW k \in Keys, NEW v \in Values, PutRefused(k, v) PROVE PhaseInv'
    BY <1>4 DEF PutRefused, NewPool, PhaseInv, Tmp
  <1>5. ASSUME NEW k \in Keys, RemapNode(k) PROVE PhaseInv'
    <2>1. /\ pc = "remap" /\ k \in todo /\ k \in nodes
          /\ Tmp \in Pools /\ Val(k) \in Values /\ Allocate(Tmp, k, Val(k))
          /\ todo' = todo \ {k} /\ pc' = pc
      BY <1>5, RemapMoves
    <2>2. ptr'[k].pool = Tmp /\ \A j \in nodes \ {k} : ptr'[j] = ptr[j]
      BY <2>1, AllocateEffect
    <2>3. /\ cur' = cur /\ Tmp' = Tmp /\ alive' = alive /\ nodes' = nodes /\ cur # 0
      BY <1>5, <2>1 DEF RemapNode, Tmp, PhaseInv
    <2>4. todo \subseteq nodes
      BY DEF TypeOK
    <2>5. \A j \in todo' : ptr'[j].pool = cur'
      BY <2>1, <2>2, <2>3, <2>4 DEF PhaseInv
    <2>6. \A j \in nodes' \ todo' : ptr'[j].pool = Tmp'
      BY <2>1, <2>2, <2>3 DEF PhaseInv
    <2>7. QED
      BY <2>1, <2>3, <2>5, <2>6 DEF PhaseInv
  <1>6. CASE RemapDone
    <2>1. Tmp \in Pools /\ Tmp # cur /\ Tmp # 0
      BY <1>6 DEF RemapDone, PhaseInv, TypeOK, Tmp, Pools
    <2>2. QED
      BY <1>6, <2>1 DEF RemapDone, FreePool, PhaseInv
  <1>7. CASE MemoryDestroy
    BY <1>7 DEF MemoryDestroy, PhaseInv
  <1>8. ASSUME NEW k \in Keys, NEW v \in Values, PutWithoutPool(k, v) PROVE PhaseInv'
    BY <1>8 DEF PutWithoutPool, PhaseInv
  <1>9. CASE UNCHANGED vars
    BY <1>9 DEF vars, PhaseInv, Tmp
  <1>10. QED
    BY <1>1, <1>2, <1>3, <1>4, <1>5, <1>6, <1>7, <1>8, <1>9 DEF Next, Put

-----------------------------------------------------------------------------
\* Slots and distances, together: they change in the same actions.
LEMMA SlotInit == Init => SlotInv /\ ApartInv
  BY DEF Init, SlotInv, ApartInv

LEMMA SlotStep == IInv /\ [Next]_vars => SlotInv' /\ ApartInv'
  <1> SUFFICES ASSUME IInv, [Next]_vars PROVE SlotInv' /\ ApartInv'
    OBVIOUS
  <1> USE DEF IInv
  <1>1. CASE MemoryInit \/ MemoryDestroy
    <2>1. nodes' = {}
      BY <1>1 DEF MemoryInit, MemoryDestroy, PhaseInv
    <2>2. QED
      BY <2>1 DEF SlotInv, ApartInv
  <1>2. ASSUME NEW k \in Keys, NEW v \in Values, PutInPlace(k, v)
        PROVE  SlotInv' /\ ApartInv'
    <2>1. /\ k \in nodes /\ Low(k) + Len(v) <= High(k) /\ Len(v) \in Nat
          /\ Val(k)' = v /\ StoredAt(ptr[k], v)'
          /\ \A j \in nodes \ {k} : Val(j)' = Val(j) /\ StoredAt(ptr[j], Val(j))'
      BY <1>2, InPlaceEffect
    <2>2. nodes' = nodes /\ ptr' = ptr /\ used' = used /\ alive' = alive
      BY <1>2 DEF PutInPlace
    <2>3. \A j \in nodes \ {k} : High(j)' = High(j) /\ Low(j)' = Low(j)
      BY <2>1, <2>2 DEF High, Low
    <2>4. High(k)' <= High(k) /\ High(k)' \in Nat /\ Low(k)' = Low(k)
      BY <2>1, <2>2, NodeBytes DEF High, Low
    <2>5. \A j \in nodes : /\ High(j) \in Nat /\ Low(j) \in Nat
                           /\ used[ptr[j].pool] \in Nat
      BY NodeBytes
    <2>6. SlotInv'
      <3>1. ASSUME NEW j \in nodes
            PROVE  /\ Val(j)' \in Values /\ StoredAt(ptr[j], Val(j))'
                   /\ High(j)' < used'[ptr'[j].pool] /\ ptr'[j].pool \in alive'
        BY <2>1, <2>2, <2>3, <2>4, <2>5 DEF SlotInv
      <3>2. QED
        BY <2>2, <3>1 DEF SlotInv
    <2>7. ApartInv'
      <3> SUFFICES ASSUME NEW i \in nodes, NEW j \in nodes,
                          i # j, ptr[i].pool = ptr[j].pool
                   PROVE  High(i)' < Low(j)' \/ High(j)' < Low(i)'
        BY <2>2 DEF ApartInv
      <3>1. High(i) < Low(j) \/ High(j) < Low(i)
        BY DEF ApartInv
      <3>2. High(i)' <= High(i) /\ High(j)' <= High(j) /\ High(i)' \in Nat /\ High(j)' \in Nat
        BY <2>3, <2>4, <2>5
      <3>3. Low(i)' = Low(i) /\ Low(j)' = Low(j)
        BY <2>3, <2>4
      <3>4. QED
        BY <2>5, <3>1, <3>2, <3>3
    <2>8. QED
      BY <2>6, <2>7
  <1>3. ASSUME NEW p \in Pools, NEW k \in Keys, NEW v \in Values, Allocate(p, k, v),
               p \in alive, alive' = alive, nodes' = nodes \cup {k}
        PROVE  SlotInv' /\ ApartInv'
    <2>1. /\ Len(v) \in Nat /\ used[p] \in Nat /\ Size(v) = Len(v) + 1
          /\ used' = [used EXCEPT ![p] = used[p] + Size(v)]
          /\ ptr'[k].pool = p /\ ptr'[k].off = used[p]
          /\ Val(k)' = v /\ StoredAt(ptr[k], v)'
          /\ \A j \in nodes \ {k} : /\ ptr'[j] = ptr[j]
                                    /\ Val(j)' = Val(j) /\ StoredAt(ptr[j], Val(j))'
      BY <1>3, AllocateEffect
    <2>2. /\ used'[p] = used[p] + Len(v) + 1
          /\ \A q \in Pools \ {p} : used'[q] = used[q]
      BY <2>1 DEF TypeOK
    <2>3. Low(k)' = used[p] /\ High(k)' = used[p] + Len(v)
      BY <2>1 DEF Low, High
    <2>4. \A j \in nodes \ {k} : Low(j)' = Low(j) /\ High(j)' = High(j)
      BY <2>1 DEF Low, High
    <2>5. \A j \in nodes : /\ High(j) \in Nat /\ Low(j) \in Nat
                           /\ ptr[j].pool \in Pools
                           /\ High(j) < used[ptr[j].pool] /\ used[ptr[j].pool] \in Nat
      BY NodeBytes, PointerType DEF SlotInv, TypeOK
    <2>6. SlotInv'
      <3>1. ASSUME NEW j \in nodes \ {k}
            PROVE  /\ Val(j)' \in Values /\ StoredAt(ptr[j], Val(j))'
                   /\ High(j)' < used'[ptr'[j].pool] /\ ptr'[j].pool \in alive'
        <4>1. High(j) < used'[ptr[j].pool]
          <5>1. CASE ptr[j].pool = p
            BY <2>1, <2>2, <2>5, <5>1
          <5>2. CASE ptr[j].pool # p
            BY <2>2, <2>5, <5>2
          <5>3. QED
            BY <5>1, <5>2
        <4>2. QED
          BY <1>3, <2>1, <2>4, <4>1 DEF SlotInv
      <3>2. /\ Val(k)' \in Values /\ StoredAt(ptr[k], Val(k))'
            /\ High(k)' < used'[ptr'[k].pool] /\ ptr'[k].pool \in alive'
        <4>1. High(k)' < used'[p]
          BY <2>1, <2>2, <2>3
        <4>2. QED
          BY <1>3, <2>1, <4>1
      <3>3. QED
        BY <1>3, <3>1, <3>2 DEF SlotInv
    <2>7. ApartInv'
      <3>1. ASSUME NEW i \in nodes \ {k}, ptr'[i].pool = p
            PROVE  High(i)' < Low(k)'
        BY <2>1, <2>3, <2>4, <2>5, <3>1
      <3>2. ASSUME NEW i \in nodes \ {k}, NEW j \in nodes \ {k},
                   i # j, ptr'[i].pool = ptr'[j].pool
            PROVE  High(i)' < Low(j)' \/ High(j)' < Low(i)'
        BY <2>1, <2>4, <3>2 DEF ApartInv
      <3>3. QED
        BY <1>3, <2>1, <3>1, <3>2 DEF ApartInv
    <2>8. QED
      BY <2>6, <2>7
  <1>4. ASSUME NEW k \in Keys, NEW v \in Values, PutAllocated(k, v)
        PROVE  SlotInv' /\ ApartInv'
    <2>1. /\ cur \in Pools /\ cur \in alive /\ Allocate(cur, k, v)
          /\ alive' = alive /\ nodes' = nodes \cup {k}
      BY <1>4 DEF PutAllocated, PhaseInv, TypeOK
    <2>2. QED
      BY <1>3, <2>1
  <1>5. ASSUME NEW k \in Keys, RemapNode(k) PROVE SlotInv' /\ ApartInv'
    <2>1. /\ pc = "remap" /\ k \in nodes /\ Tmp \in Pools
          /\ Val(k) \in Values /\ Allocate(Tmp, k, Val(k))
      BY <1>5, RemapMoves
    <2>2. Tmp \in alive /\ alive' = alive /\ nodes' = nodes \cup {k}
      BY <1>5, <2>1 DEF RemapNode, PhaseInv
    <2>3. QED
      BY <1>3, <2>1, <2>2
  <1>6. ASSUME nodes' = nodes, ptr' = ptr,
               \A j \in nodes : /\ ptr[j].pool \in alive'
                                /\ mem'[ptr[j].pool] = mem[ptr[j].pool]
                                /\ used'[ptr[j].pool] = used[ptr[j].pool]
        PROVE  SlotInv' /\ ApartInv'
    <2>1. \A j \in nodes : Val(j)' = Val(j) /\ StoredAt(ptr[j], Val(j))'
      BY <1>6, PoolKept
    <2>2. \A j \in nodes : High(j)' = High(j) /\ Low(j)' = Low(j)
      BY <1>6, <2>1 DEF High, Low
    <2>3. QED
      BY <1>6, <2>1, <2>2 DEF SlotInv, ApartInv
  <1>7. ASSUME NEW k \in Keys, NEW v \in Values, PutRefused(k, v)
        PROVE  SlotInv' /\ ApartInv'
    <2>1. cur \in Pools /\ Tmp # cur /\ \A j \in nodes : ptr[j].pool = cur
      BY <1>7 DEF PutRefused, PhaseInv, TypeOK, Tmp, Pools
    <2>2. cur \in alive'
      BY <1>7 DEF PutRefused, NewPool, PhaseInv
    <2>3. mem'[cur] = mem[cur] /\ used'[cur] = used[cur] /\ nodes' = nodes /\ ptr' = ptr
      BY <1>7, <2>1 DEF PutRefused, NewPool, TypeOK
    <2>4. QED
      BY <1>6, <2>1, <2>2, <2>3
  <1>8. CASE RemapDone
    <2>1. /\ cur \in Pools /\ Tmp \in Pools /\ Tmp # cur
          /\ \A j \in nodes : ptr[j].pool = Tmp
      BY <1>8 DEF RemapDone, PhaseInv, TypeOK, Tmp, Pools
    <2>2. /\ Tmp \in alive' /\ mem'[Tmp] = mem[Tmp] /\ used'[Tmp] = used[Tmp]
          /\ nodes' = nodes /\ ptr' = ptr
      BY <1>8, <2>1 DEF RemapDone, FreePool, PhaseInv, TypeOK
    <2>3. QED
      BY <1>6, <2>1, <2>2
  <1>9. CASE UNCHANGED vars \/ \E k \in Keys, v \in Values : PutWithoutPool(k, v)
    <2>1. nodes' = nodes /\ ptr' = ptr /\ alive' = alive /\ mem' = mem /\ used' = used
      BY <1>9 DEF vars, PutWithoutPool
    <2>2. QED
      BY <1>6, <2>1 DEF SlotInv
  <1>10. QED
    BY <1>1, <1>2, <1>4, <1>5, <1>7, <1>8, <1>9 DEF Next, Put

-----------------------------------------------------------------------------
LEMMA SpaceInit == Init => SpaceInv
  BY DEF Init, SpaceInv

\* Strings that stay where they are take the bytes they took.
LEMMA SameBytes ==
  ASSUME NEW S, \A j \in S : ptr'[j] = ptr[j] /\ Val(j)' = Val(j)
  PROVE  UNION {Cells(j)' : j \in S} = LiveCells(S)
  BY DEF LiveCells, Cells, Val

LEMMA SpaceStep == IInv /\ [Next]_vars => SpaceInv'
  <1> SUFFICES ASSUME IInv, [Next]_vars PROVE SpaceInv'
    OBVIOUS
  <1> USE DEF IInv
  <1>1. CASE MemoryInit \/ MemoryDestroy
    BY <1>1 DEF MemoryInit, MemoryDestroy, PhaseInv, SpaceInv
  <1>2. ASSUME NEW k \in Keys, NEW v \in Values,
               PutInPlace(k, v) \/ PutAllocated(k, v) \/ PutWithoutPool(k, v)
        PROVE  SpaceInv'
    BY <1>2 DEF PutInPlace, PutAllocated, PutWithoutPool, SpaceInv
  <1>3. ASSUME NEW k \in Keys, NEW v \in Values, PutRefused(k, v) PROVE SpaceInv'
    <2>1. cur \in Pools /\ Tmp \in Pools /\ Tmp # cur /\ \A j \in nodes : ptr[j].pool = cur
      BY <1>3 DEF PutRefused, PhaseInv, TypeOK, Tmp, Pools
    <2>2. /\ mem'[cur] = mem[cur] /\ used'[Tmp] = 0 /\ nodes' = nodes /\ ptr' = ptr
          /\ todo' = nodes /\ pc' = "remap" /\ Tmp' = Tmp
      BY <1>3, <2>1 DEF PutRefused, NewPool, TypeOK, Tmp
    <2>3. \A j \in nodes : ptr'[j] = ptr[j] /\ Val(j)' = Val(j)
      BY <2>1, <2>2, PoolKept
    <2>4. LiveCells(todo)' = LiveCells(nodes)
      BY <2>2, <2>3, SameBytes DEF LiveCells
    <2>5. LiveCells(nodes \ todo)' = {}
      BY <2>2 DEF LiveCells
    <2>6. Cardinality(LiveCells(nodes)) \in Nat /\ Cardinality(LiveCells(nodes)) <= Block
      BY LiveBytes
    <2>7. Cardinality(LiveCells(nodes \ todo))' = 0
      BY <2>5, FS_EmptySet
    <2>8. used'[Tmp'] = Cardinality(LiveCells(nodes \ todo))'
      BY <2>2, <2>7
    <2>9. used'[Tmp'] + Cardinality(LiveCells(todo))' <= Block
      BY <2>2, <2>4, <2>6
    <2>10. QED
      BY <2>2, <2>8, <2>9 DEF SpaceInv
  <1>4. ASSUME NEW k \in Keys, RemapNode(k) PROVE SpaceInv'
    <2>1. /\ pc = "remap" /\ k \in todo /\ k \in nodes /\ Tmp \in Pools
          /\ Val(k) \in Values /\ Allocate(Tmp, k, Val(k))
          /\ todo' = todo \ {k} /\ pc' = pc
      BY <1>4, RemapMoves
    <2>2. nodes' = nodes /\ Tmp' = Tmp /\ todo \subseteq nodes
      BY <1>4 DEF RemapNode, Tmp, TypeOK
    <2>3. /\ Len(Val(k)) \in Nat /\ used[Tmp] \in Nat /\ Size(Val(k)) = Len(Val(k)) + 1
          /\ used' = [used EXCEPT ![Tmp] = used[Tmp] + Size(Val(k))]
          /\ ptr'[k].off = used[Tmp] /\ Val(k)' = Val(k)
          /\ \A j \in nodes \ {k} : ptr'[j] = ptr[j] /\ Val(j)' = Val(j)
      BY <2>1, AllocateEffect
    <2>4. used'[Tmp] = used[Tmp] + Size(Val(k))
      BY <2>1, <2>3 DEF TypeOK
    <2>5. used'[Tmp'] + Cardinality(LiveCells(todo))' <= Block
      <3>1. \A j \in todo \ {k} : ptr'[j] = ptr[j] /\ Val(j)' = Val(j)
        BY <2>2, <2>3
      <3>2. LiveCells(todo)' = LiveCells(todo \ {k})
        BY <2>1, <3>1, SameBytes DEF LiveCells
      <3>3. used[Tmp] + Size(Val(k)) + Cardinality(LiveCells(todo \ {k})) <= Block
        BY <2>1, NextFits
      <3>4. QED
        BY <2>2, <2>4, <3>2, <3>3
    <2>6. used'[Tmp'] = Cardinality(LiveCells(nodes \ todo))'
      <3> DEFINE A == LiveCells(nodes \ todo)
                 a == used[Tmp]
                 n == Len(Val(k))
      <3>1. nodes' \ todo' = (nodes \ todo) \cup {k}
        BY <2>1, <2>2
      <3>2. UNION {Cells(j)' : j \in nodes \ todo} = A
        BY <2>1, <2>3, SameBytes
      <3>3. Cells(k)' = a..(a + n)
        BY <2>3 DEF Cells, Val
      <3>4. LiveCells(nodes \ todo)' = A \cup (a..(a + n))
        BY <3>1, <3>2, <3>3 DEF LiveCells
      <3>5. A \cap (a..(a + n)) = {}
        <4>1. ASSUME NEW j \in nodes \ todo PROVE Cells(j) \cap (a..(a + n)) = {}
          <5>1. High(j) < used[Tmp]
            BY <2>1 DEF SlotInv, PhaseInv
          <5>2. Low(j) \in Nat /\ High(j) \in Nat /\ Cells(j) = Low(j)..High(j)
            BY NodeBytes
          <5>3. QED
            BY <2>3, <5>1, <5>2
        <4>2. QED
          BY <4>1 DEF LiveCells
      <3>6. IsFiniteSet(A) /\ Cardinality(A) = used[Tmp] /\ a \in Int /\ n \in Nat
        BY <2>1, <2>3, LiveBytes DEF SpaceInv
      <3>7. Cardinality(A \cup (a..(a + n))) = Cardinality(A) + n + 1
        <4> HIDE DEF A, a, n
        <4>1. QED
          BY <3>5, <3>6, CountString
      <3>8. Cardinality(A \cup (a..(a + n))) = used[Tmp] + Size(Val(k))
        BY <2>3, <3>6, <3>7
      <3>9. QED
        BY <2>2, <2>4, <3>4, <3>8
    <2>7. QED
      BY <2>1, <2>5, <2>6 DEF SpaceInv
  <1>5. CASE RemapDone
    <2>1. /\ cur \in Pools /\ Tmp \in Pools /\ Tmp # cur /\ pc = "remap" /\ todo = {}
          /\ \A j \in nodes : ptr[j].pool = Tmp
      BY <1>5 DEF RemapDone, PhaseInv, TypeOK, Tmp, Pools
    <2>2. /\ mem'[Tmp] = mem[Tmp] /\ used'[Tmp] = used[Tmp] /\ cur' = Tmp
          /\ nodes' = nodes /\ ptr' = ptr /\ pc' = "ready"
      BY <1>5, <2>1 DEF RemapDone, FreePool, TypeOK
    <2>3. \A j \in nodes : ptr'[j] = ptr[j] /\ Val(j)' = Val(j)
      BY <2>1, <2>2, PoolKept
    <2>4. LiveCells(nodes)' = LiveCells(nodes)
      BY <2>2, <2>3, SameBytes DEF LiveCells
    <2>5. nodes \ todo = nodes
      BY <2>1
    <2>6. used[Tmp] = Cardinality(LiveCells(nodes))
      BY <2>1, <2>5 DEF SpaceInv
    <2>7. used'[cur'] = Cardinality(LiveCells(nodes))'
      BY <2>2, <2>4, <2>6
    <2>8. QED
      BY <2>2, <2>7 DEF SpaceInv
  <1>6. CASE UNCHANGED vars
    BY <1>6 DEF vars, SpaceInv, LiveCells, Cells, StringAt, Tmp
  <1>7. QED
    BY <1>1, <1>2, <1>3, <1>4, <1>5, <1>6 DEF Next, Put

-----------------------------------------------------------------------------
\* The five parts together are inductive, so they hold in every state.
THEOREM Inductive == Spec => []IInv
  <1>1. Init => IInv
    BY TypeInit, SlotInit, PhaseInit, SpaceInit DEF IInv
  <1>2. IInv /\ [Next]_vars => IInv'
    BY TypeStep, SlotStep, PhaseStep, SpaceStep DEF IInv
  <1>3. QED
    BY <1>1, <1>2, PTL DEF Spec

\* Every variable keeps its type; pvalue never leaves the block.
THEOREM Typing == Spec => []TypeOK
  <1>1. IInv => TypeOK
    BY DEF IInv
  <1>2. QED
    BY Inductive, <1>1, PTL

\* A node's pointer always leads to a whole string in a pool that is not freed.
THEOREM PointersAreGood == Spec => []NoDangling
  <1>1. IInv => NoDangling
    <2> SUFFICES ASSUME IInv, NEW k \in nodes
                 PROVE  /\ ptr[k].pool \in alive
                        /\ \E v \in Values : /\ StoredAt(ptr[k], v)
                                             /\ ptr[k].off + Len(v) < used[ptr[k].pool]
      BY DEF NoDangling
    <2>1. QED
      BY DEF IInv, SlotInv, High
  <1>2. QED
    BY Inductive, <1>1, PTL

\* The strings of two nodes never share a byte.
THEOREM StringsAreApart == Spec => []Disjoint
  <1>1. IInv => Disjoint
    <2> SUFFICES ASSUME IInv, NEW j \in nodes, NEW k \in nodes,
                        j # k, ptr[j].pool = ptr[k].pool
                 PROVE  Cells(j) \cap Cells(k) = {}
      BY DEF Disjoint
    <2>1. High(j) < Low(k) \/ High(k) < Low(j)
      BY DEF IInv, ApartInv
    <2>2. /\ Cells(j) = Low(j)..High(j) /\ Cells(k) = Low(k)..High(k)
          /\ Low(j) \in Nat /\ High(j) \in Nat /\ Low(k) \in Nat /\ High(k) \in Nat
      BY NodeBytes DEF IInv
    <2>3. QED
      BY <2>1, <2>2
  <1>2. QED
    BY Inductive, <1>1, PTL

\* realloc_value_memory never runs out of the fresh pool, whatever was put
\* before: the NULL that it does not check for is never returned there.
THEOREM RemapNeverOverflows == Spec => []RemapFits
  <1>1. IInv => RemapFits
    BY DEF IInv, PhaseInv, RemapFits
  <1>2. QED
    BY Inductive, <1>1, PTL

\* A retry that is refused again is one that no remap could make room for.
THEOREM RemapLeavesNoWaste == Spec => RefusedAgainOnlyWhenFull
  <1> DEFINE Full == \A k \in Keys, v \in Values :
                        refused = <<k, v>> /\ PutRefused(k, v)
                            => Cardinality(LiveCells(nodes)) + Size(v) > Block
  <1>1. IInv => Full
    <2> SUFFICES ASSUME IInv, NEW k \in Keys, NEW v \in Values,
                        refused = <<k, v>>, PutRefused(k, v)
                 PROVE  Cardinality(LiveCells(nodes)) + Size(v) > Block
      OBVIOUS
    <2>1. refused # Nothing
      BY PoolAssumption
    <2>2. used[cur] = Cardinality(LiveCells(nodes))
      BY <2>1 DEF IInv, SpaceInv, PutRefused
    <2>3. cur \in Pools
      BY DEF PutRefused, IInv, TypeOK
    <2>4. used[cur] \in Nat
      BY <2>3, PoolAssumption DEF IInv, TypeOK
    <2>5. ~(Block - used[cur] >= Size(v))
      BY DEF PutRefused, Fits
    <2>6. Size(v) \in Nat
      BY ValueIsSeq DEF Size
    <2>7. QED
      BY <2>2, <2>4, <2>5, <2>6, PoolAssumption
  <1>2. IInv /\ [Next]_vars => [Full]_vars
    BY <1>1
  <1>3. QED
    BY Inductive, <1>2, PTL DEF Spec, RefusedAgainOnlyWhenFull

-----------------------------------------------------------------------------
(* The pool implements the map.                                             *)
LEMMA MapInitially == Init => Map!MapInit
  BY DEF Init, Map!MapInit

LEMMA MapStep == IInv /\ [Next]_vars => [Map!MapNext]_(Map!mapvars)
  <1> SUFFICES ASSUME IInv, [Next]_vars PROVE [Map!MapNext]_(Map!mapvars)
    OBVIOUS
  <1> DEFINE map == [k \in Keys |-> IF k \in nodes THEN StringAt(ptr[k]) ELSE Absent]
  <1> USE DEF IInv
  <1>1. ASSUME nodes' = nodes, \A j \in nodes : Val(j)' = Val(j) PROVE map' = map
    BY <1>1 DEF Val
  <1>2. ASSUME NEW k \in Keys, NEW v \in Values,
               nodes' = nodes \cup {k}, Val(k)' = v,
               \A j \in nodes \ {k} : Val(j)' = Val(j),
               refused' = Nothing
        PROVE  Map!MapNext
    <2>1. map' = [map EXCEPT ![k] = v]
      BY <1>2 DEF Val
    <2>2. Map!Store(k, v)
      BY <1>2, <2>1 DEF Map!Store
    <2>3. QED
      BY <2>2 DEF Map!MapNext
  <1>3. CASE MemoryInit
    <2>1. nodes = {} /\ nodes' = {} /\ refused' = refused
      BY <1>3 DEF MemoryInit, PhaseInv
    <2>2. map' = map
      BY <1>1, <2>1
    <2>3. QED
      BY <2>1, <2>2 DEF Map!mapvars
  <1>4. ASSUME NEW k \in Keys, NEW v \in Values, PutInPlace(k, v) PROVE Map!MapNext
    <2>1. k \in nodes /\ Val(k)' = v /\ \A j \in nodes \ {k} : Val(j)' = Val(j)
      BY <1>4, InPlaceEffect
    <2>2. nodes' = nodes \cup {k} /\ refused' = Nothing
      BY <1>4, <2>1 DEF PutInPlace
    <2>3. QED
      BY <1>2, <2>1, <2>2
  <1>5. ASSUME NEW k \in Keys, NEW v \in Values, PutAllocated(k, v) PROVE Map!MapNext
    <2>1. cur \in Pools /\ Allocate(cur, k, v)
      BY <1>5 DEF PutAllocated, TypeOK
    <2>2. Val(k)' = v /\ \A j \in nodes \ {k} : Val(j)' = Val(j)
      BY <2>1, AllocateEffect
    <2>3. nodes' = nodes \cup {k} /\ refused' = Nothing
      BY <1>5 DEF PutAllocated
    <2>4. QED
      BY <1>2, <2>2, <2>3
  <1>6. ASSUME NEW k \in Keys, NEW v \in Values, PutRefused(k, v) PROVE Map!MapNext
    <2>1. cur \in Pools /\ Tmp # cur /\ \A j \in nodes : ptr[j].pool = cur
      BY <1>6 DEF PutRefused, PhaseInv, TypeOK, Tmp, Pools
    <2>2. mem'[cur] = mem[cur] /\ nodes' = nodes /\ ptr' = ptr
      BY <1>6, <2>1 DEF PutRefused, NewPool, TypeOK
    <2>3. \A j \in nodes : Val(j)' = Val(j)
      BY <2>1, <2>2, PoolKept
    <2>4. map' = map /\ refused' = <<k, v>>
      BY <1>1, <1>6, <2>2, <2>3 DEF PutRefused
    <2>5. QED
      BY <2>4 DEF Map!MapNext, Map!Refuse
  <1>7. ASSUME NEW k \in Keys, RemapNode(k) PROVE UNCHANGED Map!mapvars
    <2>1. k \in nodes /\ Tmp \in Pools /\ Val(k) \in Values /\ Allocate(Tmp, k, Val(k))
      BY <1>7, RemapMoves
    <2>2. Val(k)' = Val(k) /\ \A j \in nodes \ {k} : Val(j)' = Val(j)
      BY <2>1, AllocateEffect
    <2>3. nodes' = nodes /\ refused' = refused
      BY <1>7 DEF RemapNode
    <2>4. map' = map
      BY <1>1, <2>2, <2>3
    <2>5. QED
      BY <2>3, <2>4 DEF Map!mapvars
  <1>8. CASE RemapDone
    <2>1. /\ cur \in Pools /\ Tmp \in Pools /\ Tmp # cur
          /\ \A j \in nodes : ptr[j].pool = Tmp
      BY <1>8 DEF RemapDone, PhaseInv, TypeOK, Tmp, Pools
    <2>2. mem'[Tmp] = mem[Tmp] /\ nodes' = nodes /\ ptr' = ptr /\ refused' = refused
      BY <1>8, <2>1 DEF RemapDone, FreePool, TypeOK
    <2>3. \A j \in nodes : Val(j)' = Val(j)
      BY <2>1, <2>2, PoolKept
    <2>4. map' = map
      BY <1>1, <2>2, <2>3
    <2>5. QED
      BY <2>2, <2>4 DEF Map!mapvars
  <1>9. CASE MemoryDestroy
    <2>1. map' = [k \in Keys |-> Absent] /\ refused' = Nothing
      BY <1>9 DEF MemoryDestroy
    <2>2. QED
      BY <2>1 DEF Map!MapNext, Map!Clear, Map!MapInit
  <1>10. CASE UNCHANGED vars \/ \E k \in Keys, v \in Values : PutWithoutPool(k, v)
    <2>1. nodes' = nodes /\ ptr' = ptr /\ mem' = mem /\ refused' = refused
      BY <1>10 DEF vars, PutWithoutPool
    <2>2. map' = map
      BY <1>1, <2>1 DEF Val, StringAt
    <2>3. QED
      BY <2>1, <2>2 DEF Map!mapvars
  <1>11. QED
    BY <1>3, <1>4, <1>5, <1>6, <1>7, <1>8, <1>9, <1>10 DEF Next, Put

\* A put stores its value under its key or is refused; no put, no overwriting
\* in place and no remap changes what another key holds.
THEOREM PoolIsMap == Spec => ImplementsMap
  <1>1. QED
    BY Inductive, MapInitially, MapStep, PTL DEF Spec, ImplementsMap, Map!MapSpec
=============================================================================
