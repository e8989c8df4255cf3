------------------------------ MODULE ValueMap ------------------------------
(***************************************************************************)
(* What put, get and the destroy loop of property/rbtree/map.c promise: a  *)
(* map from keys to values.  A put stores its value, or is refused and     *)
(* changes nothing; no put changes the value of another key.  ValuePool    *)
(* implements this module.                                                 *)
(***************************************************************************)
CONSTANTS Keys, Values,
          Absent,       \* the key is not in the map
          Nothing       \* no put has just been refused

VARIABLES map,          \* the value of every key
          refused       \* the put that has just been refused

mapvars == <<map, refused>>

MapInit == /\ map = [k \in Keys |-> Absent]
           /\ refused = Nothing

Store(k, v) == /\ map' = [map EXCEPT ![k] = v]
               /\ refused' = Nothing

Refuse(k, v) == /\ refused' = <<k, v>>
                /\ UNCHANGED map

Clear == MapInit'

MapNext == \/ \E k \in Keys, v \in Values : Store(k, v) \/ Refuse(k, v)
           \/ Clear

MapSpec == MapInit /\ [][MapNext]_mapvars
=============================================================================
