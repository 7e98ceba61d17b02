--------------------------- MODULE MCConversation ---------------------------
(***************************************************************************)
(* Instances of Conversation for TLC: three turns and two values, one of   *)
(* which has a quote in it.                                                *)
(***************************************************************************)
EXTENDS Conversation, TLC

CONSTANTS t1, t2, t3, plain, name, escaped

Alike == Permutations(Turns)

\* JSON writes a plain value as it is, and a name with a quote in it otherwise.
AsJSON == plain :> plain @@ name :> escaped
=============================================================================
