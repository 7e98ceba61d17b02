--------------------------- MODULE MCMemoryStore ---------------------------
(***************************************************************************)
(* Instances of MemoryStore for TLC: three ids in two shards.              *)
(***************************************************************************)
EXTENDS MemoryStore

CONSTANTS i1, i2, i3, empty, w1, w2

MCShardOf == [id \in Ids |-> IF id \in {i1, empty} THEN 1 ELSE 2]
=============================================================================
