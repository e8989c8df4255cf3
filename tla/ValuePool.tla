----------------------------- MODULE ValuePool ------------------------------
(***************************************************************************)
(* The values of the property tree: property/rbtree/map.c over the bump    *)
(* allocator of memPool.h.  A node of the tree holds a pointer into a      *)
(* block of Block bytes; a value is a NUL-terminated string there.  The    *)
(* allocator never frees one string, so a put that finds the block used up *)
(* gives up, and instead moves every live string to a fresh block, one     *)
(* node after the other in key order (realloc_value_memory).               *)
(*                                                                         *)
(* The tree itself is the set of its keys here (RBTree has its nodes).     *)
(* A caller holds wmutex, so the operations do not overlap.                *)
(***************************************************************************)
EXTENDS Integers, Sequences, FiniteSets

CONSTANTS Keys,         \* the keys, ordered as strcmp orders them
          Chars,        \* what a value is made of
          Values,       \* the values that are put
          NUL,          \* the terminator, and what memset fills a block with
          Block,        \* BLOCKSIZE
          Absent, Nothing   \* see ValueMap

ASSUME PoolAssumption ==
    /\ Keys \subseteq Int
    /\ NUL \notin Chars
    /\ Values \subseteq Seq(Chars)
    /\ Block \in Nat \ {0}
    /\ Nothing \notin Keys \X Values

VARIABLES cur,      \* cur_pool: 1 or 2, or 0 for NULL
          alive,    \* the pools that are malloc'ed and not freed
          used,     \* per pool, pvalue - soblock
          mem,      \* per pool, the bytes of its block
          nodes,    \* the keys in the tree
          ptr,      \* per key, where data->val points: the pool and the offset
          todo,     \* the nodes the loop of realloc_value_memory has not reached
          pc,       \* "ready", "remap" (in that loop) or "crashed"
          refused   \* history: the key and value the last put gave up, if it did

vars == <<cur, alive, used, mem, nodes, ptr, todo, pc, refused>>

Pools == {1, 2}
Tmp == 3 - cur              \* the pool that is not cur_pool
Addresses == 0..Block - 1
Pointers == [pool : Pools, off : Addresses]

Size(v) == Len(v) + 1       \* strlen(v) + 1

\* The string v, with its terminator, is at offset o of block m.
StoredIn(m, o, v) ==
    /\ o + Len(v) < Block
    /\ \A i \in 1..Len(v) : m[o + i - 1] = v[i]
    /\ m[o + Len(v)] = NUL
StoredAt(p, v) == StoredIn(mem[p.pool], p.off, v)

\* What strlen, strcpy and printf find at a pointer.
StringIn(m, o) == CHOOSE v \in Values : StoredIn(m, o, v)
StringAt(p) == StringIn(mem[p.pool], p.off)

\* strcpy: block m once v is written at offset o.
Written(m, o, v) ==
    [a \in Addresses |-> IF a \in o..(o + Len(v) - 1) THEN v[a - o + 1]
                         ELSE IF a = o + Len(v) THEN NUL ELSE m[a]]

Blank == [a \in Addresses |-> NUL]

Fits(p, v) == Block - used[p] >= Size(v)        \* mp_malloc succeeds

\* mp_malloc on a pool, strcpy to the new string, the node's pointer to it.
Allocate(p, k, v) ==
    /\ Fits(p, v)
    /\ mem' = [mem EXCEPT ![p] = Written(mem[p], used[p], v)]
    /\ ptr' = [ptr EXCEPT ![k] = [pool |-> p, off |-> used[p]]]
    /\ used' = [used EXCEPT ![p] = used[p] + Size(v)]

\* mp_free_all: what the block held is nobody's any more.
FreePool(p) == /\ alive' = alive \ {p}
               /\ used' = [used EXCEPT ![p] = 0]
               /\ mem' = [mem EXCEPT ![p] = Blank]

\* The pointers of keys that have no node mean nothing.
Nowhere == [k \in Keys |-> [pool |-> 1, off |-> 0]]

Init == /\ cur = 0
        /\ alive = {}
        /\ used = [p \in Pools |-> 0]
        /\ mem = [p \in Pools |-> Blank]
        /\ nodes = {}
        /\ ptr = Nowhere
        /\ todo = {}
        /\ pc = "ready"
        /\ refused = Nothing

\* Mutant: pvalue starts one byte into the block.
NewPoolShifted(p) == /\ alive' = alive \cup {p}
                     /\ used' = [used EXCEPT ![p] = 1]
                     /\ mem' = [mem EXCEPT ![p] = Blank]

\* malloc and memPoolInit
NewPool(p) == /\ alive' = alive \cup {p}
              /\ used' = [used EXCEPT ![p] = 0]
              /\ mem' = [mem EXCEPT ![p] = Blank]

\* memory_init: its callers run it once, or after memory_destroy.
MemoryInit ==
    /\ pc = "ready" /\ cur = 0
    /\ NewPool(1)
    /\ cur' = 1
    /\ UNCHANGED <<nodes, ptr, todo, pc, refused>>

-----------------------------------------------------------------------------
(* put *)

\* The key is there and the value is not longer: strcpy over the old one.
PutInPlace(k, v) ==
    /\ pc = "ready" /\ cur # 0
    /\ k \in nodes
    /\ Len(v) <= Len(StringAt(ptr[k]))
    /\ mem' = [mem EXCEPT ![ptr[k].pool] =
                   Written(mem[ptr[k].pool], ptr[k].off, v)]
    /\ refused' = Nothing
    /\ UNCHANGED <<cur, alive, used, nodes, ptr, todo, pc>>

\* A put that has to allocate: a longer value, or a new key.
Allocates(k, v) == k \in nodes => Len(v) > Len(StringAt(ptr[k]))

PutAllocated(k, v) ==
    /\ pc = "ready" /\ cur # 0
    /\ Allocates(k, v)
    /\ Allocate(cur, k, v)
    /\ nodes' = nodes \cup {k}
    /\ refused' = Nothing
    /\ UNCHANGED <<cur, alive, todo, pc>>

\* Mutant: the node whose value is put is left out of the remap.
PutRefusedSkips(k, v) ==
    /\ pc = "ready" /\ cur # 0
    /\ Allocates(k, v)
    /\ ~Fits(cur, v)
    /\ NewPool(Tmp)
    /\ todo' = nodes \ {k}
    /\ pc' = "remap"
    /\ refused' = <<k, v>>
    /\ UNCHANGED <<cur, nodes, ptr>>

\* mp_malloc returned NULL: the value is dropped (and the new node leaks), and
\* realloc_value_memory begins with a fresh pool.
PutRefused(k, v) ==
    /\ pc = "ready" /\ cur # 0
    /\ Allocates(k, v)
    /\ ~Fits(cur, v)
    /\ NewPool(Tmp)
    /\ todo' = nodes
    /\ pc' = "remap"
    /\ refused' = <<k, v>>
    /\ UNCHANGED <<cur, nodes, ptr>>

\* Without a pool mp_malloc says "Memory Pool need Init" and returns NULL, and
\* realloc_value_memory goes on to mp_free_all(cur_pool).
PutWithoutPool(k, v) ==
    /\ pc = "ready" /\ cur = 0
    /\ pc' = "crashed"
    /\ UNCHANGED <<cur, alive, used, mem, nodes, ptr, todo, refused>>

Put(k, v) == \/ PutInPlace(k, v) \/ PutAllocated(k, v)
             \/ PutRefused(k, v) \/ PutWithoutPool(k, v)

-----------------------------------------------------------------------------
(* realloc_value_memory *)

\* map_first and map_next visit the nodes in key order.
IsNext(k) == k \in todo /\ \A j \in todo : k <= j

\* Mutant: strlen(value_tmp)+2 bytes are taken for each string.
RemapNodeRoomy(k) ==
    /\ pc = "remap"
    /\ IsNext(k)
    /\ LET v == StringAt(ptr[k]) IN
       IF Block - used[Tmp] >= Size(v) + 1
          THEN /\ mem' = [mem EXCEPT ![Tmp] = Written(mem[Tmp], used[Tmp], v)]
               /\ ptr' = [ptr EXCEPT ![k] = [pool |-> Tmp, off |-> used[Tmp]]]
               /\ used' = [used EXCEPT ![Tmp] = used[Tmp] + Size(v) + 1]
               /\ todo' = todo \ {k}
               /\ UNCHANGED pc
          ELSE /\ pc' = "crashed"
               /\ UNCHANGED <<used, mem, ptr, todo>>
    /\ UNCHANGED <<cur, alive, nodes, refused>>

\* The result of mp_malloc is not looked at: if it is NULL, strcpy crashes.
RemapNode(k) ==
    /\ pc = "remap"
    /\ IsNext(k)
    /\ IF Fits(Tmp, StringAt(ptr[k]))
          THEN /\ Allocate(Tmp, k, StringAt(ptr[k]))
               /\ todo' = todo \ {k}
               /\ UNCHANGED pc
          ELSE /\ pc' = "crashed"
               /\ UNCHANGED <<used, mem, ptr, todo>>
    /\ UNCHANGED <<cur, alive, nodes, refused>>

\* Mutant: the fresh pool is freed instead of the used-up one.
RemapDoneFreesFresh ==
    /\ pc = "remap" /\ todo = {}
    /\ FreePool(Tmp)
    /\ cur' = Tmp
    /\ pc' = "ready"
    /\ UNCHANGED <<nodes, ptr, todo, refused>>

RemapDone ==
    /\ pc = "remap" /\ todo = {}
    /\ FreePool(cur)
    /\ cur' = Tmp
    /\ pc' = "ready"
    /\ UNCHANGED <<nodes, ptr, todo, refused>>

\* __prop_memory_destroy: every node is erased and freed, then the pool.
MemoryDestroy ==
    /\ pc = "ready" /\ cur # 0
    /\ nodes' = {}
    /\ ptr' = Nowhere
    /\ FreePool(cur)
    /\ cur' = 0
    /\ refused' = Nothing
    /\ UNCHANGED <<todo, pc>>

Next == \/ MemoryInit \/ RemapDone \/ MemoryDestroy
        \/ \E k \in Keys : \/ \E v \in Values : Put(k, v)
                           \/ RemapNode(k)

Spec == Init /\ [][Next]_vars

-----------------------------------------------------------------------------
TypeOK == /\ cur \in Pools \cup {0}
          /\ alive \subseteq Pools
          /\ used \in [Pools -> 0..Block]
          /\ mem \in [Pools -> [Addresses -> Chars \cup {NUL}]]
          /\ nodes \subseteq Keys
          /\ ptr \in [Keys -> Pointers]
          /\ todo \subseteq nodes
          /\ pc \in {"ready", "remap", "crashed"}
          /\ refused \in (Keys \X Values) \cup {Nothing}

\* The bytes a live value takes, and all those of a set of nodes.
Cells(k) == LET p == ptr[k] IN p.off..(p.off + Len(StringAt(p)))
LiveCells(S) == UNION {Cells(k) : k \in S}

\* Every node's pointer leads into a pool that is not freed, to a whole string
\* below pvalue, before, during and after a remap.
NoDangling ==
    pc # "crashed" =>
        \A k \in nodes : /\ ptr[k].pool \in alive
                         /\ \E v \in Values :
                               /\ StoredAt(ptr[k], v)
                               /\ ptr[k].off + Len(v) < used[ptr[k].pool]

\* Overwriting a value in place can never reach the string of another node,
\* however often values shrank, grew and moved before.
Disjoint == \A j, k \in nodes :
                j # k /\ ptr[j].pool = ptr[k].pool => Cells(j) \cap Cells(k) = {}

\* A remap never runs out of the fresh pool: realloc_value_memory may skip the
\* check of mp_malloc's result.  The only crash is a put without a pool.
RemapFits == pc = "crashed" => cur = 0

\* The remap squeezes all the waste out: a put that is refused twice in a row
\* does not fit next to the live values, so that no remap could make room.
RefusedAgainOnlyWhenFull ==
    [][\A k \in Keys, v \in Values :
          refused = <<k, v>> /\ PutRefused(k, v)
              => Cardinality(LiveCells(nodes)) + Size(v) > Block]_vars

\* "Complete memory remap! Please retry property set!": the same put, tried
\* again after the remap, is not refused.
RetryStores ==
    [][\A k \in Keys, v \in Values :
          ~(refused = <<k, v>> /\ PutRefused(k, v))]_vars

Map == INSTANCE ValueMap
           WITH map <- [k \in Keys |-> IF k \in nodes THEN StringAt(ptr[k])
                                                      ELSE Absent]

\* What get finds behind the pointers is the map of ValueMap: a put changes
\* the value of its key and no other, a remap changes none.
ImplementsMap == Map!MapSpec
=============================================================================
