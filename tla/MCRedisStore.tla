---------------------------- MODULE MCRedisStore ----------------------------
(***************************************************************************)
(* Instances of RedisStore for TLC: two replicas at most, a caller or two  *)
(* in each.                                                                *)
(***************************************************************************)
EXTENDS RedisStore

CONSTANTS r1, r2, c1, c2, c3, i1, i2, t1, t2

\* c1 and c3 run in the first replica, c2 in the second.
Placement == [c \in Callers |-> IF c = c2 THEN r2 ELSE r1]

\* Either one text under each id, as a disciplined client has it, or any.
OneText == [i \in Ids |-> {IF i = i1 THEN t1 ELSE t2}]
AnyText == [i \in Ids |-> Texts]
=============================================================================
