---------------------------- MODULE SettingsLaws ----------------------------
(***************************************************************************)
(* What must hold of the settings after any sequence of changes of their   *)
(* file, by hand and through the interface.  An input is such a sequence;  *)
(* a change by hand is written whatever it says, and taken only if it can  *)
(* be (Settings), one through the interface is refused otherwise (Edits).  *)
(***************************************************************************)
EXTENDS Algorithms, TLC

C == INSTANCE Settings
E == INSTANCE Edits
K == INSTANCE CustomTypes
P == INSTANCE Masks

\* A checker without a key, an application with one, and a system kept off.
FirstFile ==
  [server |-> <<>>, limits |-> <<>>, store |-> <<>>, defaults |-> <<>>, logging |-> <<>>, capture |-> <<>>,
   custom |-> <<[name |-> "PASSNO", pattern |-> "ok", group |-> 0, validator |-> "", requireAnchor |-> FALSE]>>,
   systems |-> [checker |-> [enabled |-> TRUE],
                app |-> [enabled |-> TRUE, auth |-> [kind |-> "key", key |-> "h1"], types |-> <<"FIO", "card">>,
                         perType |-> [CARD |-> "token"]],
                spare |-> [enabled |-> FALSE, auth |-> [kind |-> "key", key |-> "h2", header |-> "X-Spare"], preset |-> "initials"]]]

RedisEnv == [redis |-> "redis:6379"]
LogEnv == [level |-> "warn", redact |-> TRUE]
AdminToken == "secret"

\* What a change does: to the file, to the settings in force; what was in force, and
\* whether it was what the file said; whether the interface confirmed the change.
Step(world, change) ==
  LET Take(file) == LET parsed == C!Parse(file, RedisEnv) IN IF parsed = <<>> THEN world.served ELSE parsed[1]
      ByHand == CASE change.op = "section" -> [world.file EXCEPT ![change.section] = change.patch @@ @]
                  [] change.op = "system" -> [world.file EXCEPT !.systems[change.system] = change.patch @@ @]
                  [] change.op = "custom" -> [world.file EXCEPT !.custom = Append(@, change.type)]
      edited == E!HandleRulesPost(world.file, change, RedisEnv, AdminToken)
      Changed(file, confirmed) == [file |-> file, served |-> Take(file), old |-> world.served,
                                   whole |-> C!Parse(world.file, RedisEnv) = <<world.served>>, confirmed |-> confirmed]
  IN CASE change.op \in {"section", "system", "custom"} -> Changed(ByHand, FALSE)
       [] edited # E!Refused -> Changed(edited[1], TRUE)
       [] OTHER -> Changed(world.file, FALSE)

FirstWorld ==
  LET served == C!Parse(FirstFile, RedisEnv)[1]
  IN [file |-> FirstFile, served |-> served, old |-> served, whole |-> TRUE, confirmed |-> FALSE]

World == FoldLeft(Step, FirstWorld, input)

ShownTypes(c) == C!CoverageTypes(c)

\* Whatever was written, the settings in force can be served by: one key names one
\* system and no key at most one, whose masks keep the length of every fragment;
\* no mode is unknown; a request waits for its turn less than for its answer.
AcceptedSettingsServe ==
  kind = "settings" =>
    LET c == World.served
    IN /\ \A h \in {"X-System-Key", "X-Spare"}, k \in {"h1", "h2"} : Cardinality(C!ResolveSystem((h :> k), c)) <= 1
       /\ \A n \in C!ResolveSystem(<<>>, c), t \in ShownTypes(c) :
            P!PreservesLength(P!PresetFor(C!MaskOptions(c.systems[n], c.defaults), t))
       /\ \A n \in {n \in DOMAIN c.systems : C!Enabled(c.systems[n])} :
            /\ C!ErrorMode(c.systems[n], c.defaults) \in {"open", "closed"}
            /\ C!DateMode(c.systems[n], c.defaults) \in {"anchor_only", "pii_context", "any"}
            /\ ~C!Keyless(c.systems[n])
       /\ c.limits.maxWait < c.server.writeTimeout

\* A change the interface has confirmed is in force and is all that changed: the
\* system masks the types that were asked for and no others, a type is there or
\* gone, and nobody without the right made it (Edits).
EditsDoWhatTheySay ==
  (kind = "settings" /\ input # <<>> /\ World.confirmed) =>
    LET change == Last(input)
        c == World.served
        old == World.old
        Names(types) == {C!Upper(types[i]) : i \in DOMAIN types}
        other == {n \in DOMAIN c.systems : "system" \notin DOMAIN change \/ n # change.system}
    IN /\ change.from = "loopback" \/ change.token = AdminToken
       /\ World.whole => /\ \A n \in other : c.systems[n] = old.systems[n]
                         /\ [c EXCEPT !.systems = <<>>, !.custom = <<>>] = [old EXCEPT !.systems = <<>>, !.custom = <<>>]
       /\ change.op = "set_system_types" =>
            \A t \in {t \in ShownTypes(c) : t = C!Upper(t)} :
              C!Allows(c.systems[change.system], t) <=> {t, "ALL"} \cap Names(change.types) # {}
       /\ change.op = "set_system_enabled" =>
            (C!Enabled(c.systems[change.system]) <=> change.enabled /\ ~C!Keyless(c.systems[change.system]))
       /\ change.op = "add_type" => C!Upper(change.type.name) \in C!CustomNames(c)
       /\ change.op = "remove_type" => C!Upper(change.name) \notin C!CustomNames(c)

\* What a new start would do otherwise is reported, since the running service does
\* not do it (restartRequiredChanges): no change of the file passes in silence but
\* one, of the saving of requests, which a start alone opens too (openCapture).
RestartIsAskedFor ==
  kind = "settings" =>
    LET world == World
        Started(c) == [server |-> c.server, limits |-> c.limits, store |-> c.store,
                       logging |-> C!LogConfig(c.logging, LogEnv), capture |-> C!Capturing(c.capture)]
        before == Started(world.old)
        after == Started(world.served)
        changed == {part \in DOMAIN after : before[part] # after[part]}
    IN changed \ {"capture"} # {} => C!RestartRequiredChanges(world.old, world.served) # {}

\* The pages tell one story: what the list of rules and the list of systems show as
\* masked is what the matrix shows masked and what is masked, for every type they
\* can name (handleRulesGet, handleSystems, handleCoverage).
PagesAgree ==
  kind = "settings" =>
    LET c == World.served
    IN \A n \in {n \in DOMAIN c.systems : C!Enabled(c.systems[n])}, t \in {t \in ShownTypes(c) : t = C!Upper(t)} :
         LET s == c.systems[n]
         IN /\ (s.allTypes \/ t \in C!RuleTypes(s)) <=> C!CoverageCell(c, n, t) # "off"
            /\ C!CoverageCell(c, n, t) # "off" <=> {"ALL", t} \cap {C!Upper(x) : x \in ToSet(C!SystemTypes(s))} # {}
            /\ C!CoverageCell(c, n, t) \in {"off", P!PresetFor(C!MaskOptions(s, c.defaults), t)}

-----------------------------------------------------------------------------
(* The added types at work: an input is what their rules match in a text.   *)

CustomRules ==
  <<[name |-> "PASSNO", pattern |-> "ok", group |-> 1, validator |-> "", requireAnchor |-> TRUE],
    [name |-> "BADGE", pattern |-> "ok", group |-> 0, validator |-> "luhn", requireAnchor |-> FALSE]>>

Limit == 3

\* What the added types find does not depend on the order of their rules, as long
\* as they do not find too much; and it is never too much (customSpanLimit).
CustomOrderIsFree ==
  kind = "custom" =>
    LET found == K!DetectCustom(CustomRules, input, Limit)
    IN /\ Len(found) <= Limit
       /\ Len(input) <= Limit => found = K!DetectCustom(Reverse(CustomRules), input, Limit)

-----------------------------------------------------------------------------
\* After any changes of the file, by hand and through the interface, the settings
\* in force can be served by, are what was confirmed, and are what every page shows;
\* what only a restart brings is told, but for the saving of requests (config.go,
\* edit.go, rules.go, coverage.go, main.go).
SettingsMeanWhatTheySay ==
  [][Run =>
       /\ AcceptedSettingsServe
       /\ EditsDoWhatTheySay
       /\ RestartIsAskedFor
       /\ PagesAgree
       /\ CustomOrderIsFree]_vars
=============================================================================
