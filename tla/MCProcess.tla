----------------------------- MODULE MCProcess -----------------------------
(***************************************************************************)
(* Instances of Process for TLC.  t and u are open texts.  The mask of t   *)
(* is mostly stars and looks like a mask; u is long with one short value,  *)
(* so its mask um does not.  When a detector fails t keeps a value in the  *)
(* open (tp) and u comes back whole.                                       *)
(***************************************************************************)
EXTENDS Process, FiniteSets, TLC

CONSTANTS a, b, id1, p1, p2, t, tm, tp, u, um, star, r1, r2, r3

MCTexts == {t, tm, tp, u, um}

Stars == [x \in MCTexts |->
            CASE x \in {t, tm, tp} -> tm
              [] x \in {u, um} -> um]

Failing == [x \in MCTexts |->
              CASE x = t -> {tp}
                [] x = u -> {u}
                [] OTHER -> {x}]

MCEngine == [rule \in {star} |-> Stars]
MCPartial == [rule \in {star} |-> Failing]
MCMaskLike == [rule \in {star} |-> {tm}]

Settings(enabled, demask, closed, passthrough) ==
  [enabled |-> enabled, demask |-> demask, closed |-> closed,
   passthrough |-> passthrough, rule |-> star]

\* a demasks and fails open; b may not demask, is strict and passes unknown
\* masks through.  After a reload a is strict too, or b is disabled.
MCPolicies ==
  {[s \in {a, b} |-> IF s = a THEN Settings(TRUE, TRUE, FALSE, FALSE)
                              ELSE Settings(TRUE, FALSE, TRUE, TRUE)],
   [s \in {a, b} |-> IF s = a THEN Settings(TRUE, TRUE, TRUE, FALSE)
                              ELSE Settings(FALSE, FALSE, TRUE, TRUE)]}

OnePolicy == {[s \in {a, b} |-> Settings(TRUE, TRUE, FALSE, s = b)]}

Sending(payloads, systems) == [id : {id1}, payload : payloads, system : systems]

AllCalls == Sending({t, tm}, {a, b}) \cup Sending({u}, {a})
OneText == Sending({t, tm}, {a, b})
TwoTexts == Sending({t, u}, {a})

Alike == Permutations({r1, r2, r3})
=============================================================================
