-------------------------------- MODULE Edits --------------------------------
(***************************************************************************)
(* internal/config/edit.go and internal/api/rules.go: the changes of the   *)
(* settings file made through the interface.  A request is a record with   *)
(* the fields that were sent; an answer is the new file, or a refusal.     *)
(***************************************************************************)
LOCAL INSTANCE Integers
LOCAL INSTANCE Sequences
LOCAL INSTANCE SequencesExt
LOCAL INSTANCE TLC
LOCAL INSTANCE Settings
LOCAL INSTANCE CustomTypes

Refused == <<>>

Sent(request, field) == field \in DOMAIN request

\* Names are known by their letters, whatever their case.
TypeNamesKnown(file, types) ==
  LET known == {"ALL"} \cup AllTypes \cup {Upper(file.custom[i].name) : i \in DOMAIN file.custom}
  IN \A i \in DOMAIN types : Upper(types[i]) \in known

\* Mutant of SetSystemTypes: an empty list is written too.
SetSystemTypesEmpty(file, system, types) ==
  IF system \notin DOMAIN file.systems \/ ~TypeNamesKnown(file, types) THEN Refused
  ELSE <<[file EXCEPT !.systems[system] = [types |-> types] @@ @]>>

\* An empty list would mean all the types.
SetSystemTypes(file, system, types) ==
  IF types = <<>> \/ system \notin DOMAIN file.systems \/ ~TypeNamesKnown(file, types) THEN Refused
  ELSE <<[file EXCEPT !.systems[system] = [types |-> types] @@ @]>>

SetSystemEnabled(file, system, enabled) ==
  IF system \notin DOMAIN file.systems THEN Refused
  ELSE <<[file EXCEPT !.systems[system] = [enabled |-> enabled] @@ @]>>

SetSystemAllowPersons(file, system, persons) ==
  IF system \notin DOMAIN file.systems THEN Refused
  ELSE <<[file EXCEPT !.systems[system] = [allowPersons |-> persons] @@ @]>>

CustomTypeIndex(file, name) == {i \in DOMAIN file.custom : file.custom[i].name = name}

\* The rule must compile, though those already in the file need not.
AddCustomType(file, type) ==
  IF ~Compiles(type) \/ CustomTypeIndex(file, type.name) # {} THEN Refused
  ELSE <<[file EXCEPT !.custom = Append(@, type)]>>

\* The first of that name.
RemoveCustomType(file, name) ==
  LET found == CustomTypeIndex(file, name)
  IN IF found = {} THEN Refused
     ELSE <<[file EXCEPT !.custom = RemoveAt(@, CHOOSE i \in found : \A j \in found : i <= j)]>>

ApplyRuleChange(file, request) ==
  CASE request.op = "set_system_types" /\ Sent(request, "system") /\ Sent(request, "types") ->
         SetSystemTypes(file, request.system, request.types)
    [] request.op = "set_system_enabled" /\ Sent(request, "system") /\ Sent(request, "enabled") ->
         SetSystemEnabled(file, request.system, request.enabled)
    [] request.op = "set_system_allow_persons" /\ Sent(request, "system") /\ Sent(request, "persons") ->
         SetSystemAllowPersons(file, request.system, request.persons)
    [] request.op = "add_type" /\ Sent(request, "type") ->
         AddCustomType(file, [request.type EXCEPT !.name = Upper(@)])
    [] request.op = "remove_type" /\ Sent(request, "name") -> RemoveCustomType(file, Upper(request.name))
    [] OTHER -> Refused

\* Nothing is written that the service would not take.
EditFile(file, request, env) ==
  LET edited == ApplyRuleChange(file, request)
  IN IF edited # Refused /\ Parse(edited[1], env) # <<>> THEN edited ELSE Refused

\* From the machine itself, or with the token of the administrator if one is set.
MayWrite(request, adminToken) ==
  \/ request.from = "loopback"
  \/ adminToken # "" /\ request.token = adminToken

HandleRulesPost(file, request, env, adminToken) ==
  IF MayWrite(request, adminToken) THEN EditFile(file, request, env) ELSE Refused
=============================================================================
