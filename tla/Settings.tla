------------------------------ MODULE Settings ------------------------------
(***************************************************************************)
(* internal/config/config.go: from the settings file to the settings the   *)
(* service runs by, and what the handlers ask of them; the read-only       *)
(* views of internal/api that show them.                                   *)
(*                                                                         *)
(* A section of the file is a record of the fields that are set: a field   *)
(* left out, or zero, is not in its domain.  Times are in milliseconds.    *)
(* The systems are a function of their names, custom types a sequence.     *)
(***************************************************************************)
LOCAL INSTANCE Integers
LOCAL INSTANCE Sequences
LOCAL INSTANCE SequencesExt
LOCAL INSTANCE FiniteSets
LOCAL INSTANCE TLC
LOCAL INSTANCE Masks

\* What strings.ToUpper makes of the names that are not in upper case already.
Upper(name) ==
  CASE name = "card" -> "CARD" [] name = "snils" -> "SNILS" [] name = "passno" -> "PASSNO"
    [] name \in {"all", "All"} -> "ALL" [] OTHER -> name

\* pii.AllTypes, some of them, and types the detectors know that it leaves out.
AllTypes == {"FIO", "CARD", "POSTCODE", "IP_ADDRESS"}
ExtraTypes == {"SNILS", "MILITARY_ID", "IP_ADDRESS"}

Get(section, field, otherwise) == IF field \in DOMAIN section THEN section[field] ELSE otherwise

ServerDefaults ==
  [http |-> ":8080", maxBodyBytes |-> 4194304, readHeaderTimeout |-> 5000, readTimeout |-> 15000,
   writeTimeout |-> 9000, idleTimeout |-> 90000, shutdownTimeout |-> 15000, drainTimeout |-> 7000]

LimitsDefaults == [inflight |-> 96, heavyInflight |-> 6, heavyThresholdBytes |-> 65536, maxWait |-> 500]

StoreDefaults == [ttl |-> 900000, maxRecords |-> 1000000, keyEnv |-> "PII_STORE_KEY"]

CommonDefaults == [preset |-> "full", onError |-> "closed", onUnknownId |-> "404", minConfidence |-> 60,
                   dates |-> "pii_context", contextRules |-> FALSE, inspect |-> FALSE]

LoggingDefaults == [level |-> "info", format |-> "json", repeatWindow |-> 10000, repeatLevel |-> "warn",
                    sampleN |-> 1, slow |-> 250]

\* The address and the password of the shared store come from the environment.
ApplyDefaults(file, env) ==
  [server |-> file.server @@ ServerDefaults,
   limits |-> file.limits @@ LimitsDefaults,
   store |-> env @@ file.store @@ StoreDefaults,
   defaults |-> (IF Get(file.defaults, "preset", "") \in Presets THEN <<>> ELSE [preset |-> "full"])
                @@ file.defaults @@ CommonDefaults,
   logging |-> (IF Get(file.logging, "sampleN", 0) <= 0 THEN [sampleN |-> 1] ELSE <<>>) @@ file.logging @@ LoggingDefaults,
   capture |-> file.capture,
   systems |-> file.systems,
   custom |-> file.custom]

-----------------------------------------------------------------------------
(* Systems.                                                                 *)

NoKey == [none |-> TRUE, header |-> "", key |-> ""]

\* auth is a word, of which only none is known, or a header and the hash of a key.
AuthKnown(s) == "auth" \in DOMAIN s => s.auth.kind \in {"none", "key"}

ParseAuth(s) ==
  IF "auth" \notin DOMAIN s \/ s.auth.kind = "none" THEN NoKey
  ELSE [none |-> FALSE, header |-> Get(s.auth, "header", "X-System-Key"), key |-> Get(s.auth, "key", "")]

\* The lists of addresses kept in files of their own.
Files == [branches |-> {"street"}]

\* No list of types means all of them.
Prepare(s) ==
  LET types == Get(s, "types", <<>>)
  IN [auth |-> ParseAuth(s),
      allTypes |-> types = <<>> \/ \E i \in DOMAIN types : Upper(types[i]) = "ALL",
      typeSet |-> {Upper(types[i]) : i \in DOMAIN types} \ {"ALL"},
      allowAddresses |-> Get(s, "allowAddresses", {}) \cup (IF "addressesFile" \in DOMAIN s THEN Files[s.addressesFile] ELSE {})] @@ s

CanPrepare(s) == AuthKnown(s) /\ ("addressesFile" \in DOMAIN s => s.addressesFile \in DOMAIN Files)

Enabled(s) == Get(s, "enabled", FALSE)

MinConf(s, d) == Get(s, "minConfidence", d.minConfidence)
DateMode(s, d) == Get(s, "dates", Get(d, "dates", "pii_context"))
ErrorMode(s, d) == Get(s, "onError", Get(d, "onError", "closed"))
UnknownIDMode(s, d) == Get(s, "onUnknownId", Get(d, "onUnknownId", "404"))

MaskOptions(s, d) ==
  [default |-> IF Get(s, "preset", "") \in Presets THEN s.preset ELSE d.preset, perType |-> Get(s, "perType", <<>>)]

Allows(s, type) == s.allTypes \/ type \in s.typeSet

-----------------------------------------------------------------------------
(* Validation.                                                              *)

CaptureFits(c) == Get(c, "enabled", FALSE) =>
                    /\ Get(c, "path", "") # ""
                    /\ \A f \in {"maxBytes", "keep", "queue"} : Get(c, f, 0) >= 0

Levels == {"debug", "info", "warn", "warning", "error"}

LoggingFits(l) == l.level \in Levels /\ l.repeatLevel \in Levels /\ l.format \in {"json", "text"} /\ l.sampleN >= 1 /\ l.slow >= 0

TimingsFit(c) == ~(c.limits.maxWait > 0 /\ c.server.writeTimeout > 0 /\ c.limits.maxWait >= c.server.writeTimeout)

KeysApart(systems) ==
  \A m, n \in DOMAIN systems : m # n /\ systems[m].auth.key # "" => systems[m].auth.key # systems[n].auth.key

\* Mutant of PresetsFit: the preset the system inherits is not looked at.
PresetsFitOwn(s, d) ==
  LET presets == {Get(s, "preset", "full")} \cup {Get(s, "perType", <<>>)[t] : t \in DOMAIN Get(s, "perType", <<>>)}
  IN \A p \in presets : p \in Presets /\ (s.auth.none => PreservesLength(p))

PresetsFit(s, d) ==
  LET presets == {Get(s, "preset", d.preset)} \cup {Get(s, "perType", <<>>)[t] : t \in DOMAIN Get(s, "perType", <<>>)}
  IN \A p \in presets : p \in Presets /\ (s.auth.none => PreservesLength(p))

\* A system whose key was not given is put off; a key is a hash or nothing.
Keyless(s) == ~s.auth.none /\ s.auth.key = ""
KeyFits(s) == s.auth.key # "short"

UpstreamFits(s) == Get(s, "upstream", "") \in {"", "http", "https"}

ModesFit(s, d) ==
  /\ ErrorMode(s, d) \in {"open", "closed"}
  /\ UnknownIDMode(s, d) \in {"passthrough", "404"}
  /\ DateMode(s, d) \in {"anchor_only", "pii_context", "any"}

SystemFits(s, d) == PresetsFit(s, d) /\ (Keyless(s) \/ (KeyFits(s) /\ UpstreamFits(s) /\ ModesFit(s, d)))

SystemsFit(systems, d) ==
  LET on == {n \in DOMAIN systems : Enabled(systems[n])}
  IN /\ \A n \in on : SystemFits(systems[n], d)
     /\ Cardinality({n \in on : systems[n].auth.none}) <= 1

CustomFits(custom) == \A i \in DOMAIN custom : custom[i].name # "" /\ custom[i].pattern # ""

Validate(c) ==
  /\ CaptureFits(c.capture)
  /\ LoggingFits(c.logging)
  /\ DOMAIN c.systems # {}
  /\ TimingsFit(c)
  /\ KeysApart(c.systems)
  /\ SystemsFit(c.systems, c.defaults)
  /\ CustomFits(c.custom)

\* The settings a file stands for, or none.
Parse(file, env) ==
  LET c == ApplyDefaults(file, env)
      prepared == [n \in DOMAIN c.systems |-> Prepare(c.systems[n])]
      off == [n \in DOMAIN c.systems |-> IF Enabled(prepared[n]) /\ Keyless(prepared[n])
                                         THEN [prepared[n] EXCEPT !.enabled = FALSE] ELSE prepared[n]]
      ok == (\A n \in DOMAIN c.systems : CanPrepare(c.systems[n])) /\ Validate([c EXCEPT !.systems = prepared])
  IN IF ok THEN <<[c EXCEPT !.systems = off]>> ELSE <<>>

-----------------------------------------------------------------------------
(* Who is asking (api/process.go).  A request carries keys by their headers. *)

\* The systems the walk over the map, in any order, may stop at.
KeyedSystems(keys, c) ==
  {n \in DOMAIN c.systems : LET s == c.systems[n] IN
     /\ Enabled(s) /\ ~s.auth.none /\ s.auth.header \in DOMAIN keys
     /\ keys[s.auth.header] = s.auth.key}

HeaderPresent(keys, c) == \E n \in DOMAIN c.systems : c.systems[n].auth.header \in DOMAIN keys

AnonymousSystems(c) == {n \in DOMAIN c.systems : Enabled(c.systems[n]) /\ c.systems[n].auth.none}

ResolveSystem(keys, c) ==
  IF KeyedSystems(keys, c) # {} THEN KeyedSystems(keys, c)
  ELSE IF HeaderPresent(keys, c) THEN {}
  ELSE AnonymousSystems(c)

-----------------------------------------------------------------------------
(* What the pages show (coverage.go, systems.go, rules.go).                 *)

CustomNames(c) == {c.custom[i].name : i \in DOMAIN c.custom}

CoverageTypes(c) == AllTypes \cup ExtraTypes \cup CustomNames(c)

CoverageCell(c, name, type) ==
  LET s == c.systems[name]
  IN CASE ~Enabled(s) -> "disabled"
       [] Enabled(s) /\ ~Allows(s, type) -> "off"
       [] OTHER -> PresetFor(MaskOptions(s, c.defaults), type)

\* The types of an enabled system as the list of systems shows them.
SystemTypes(s) == IF Get(s, "types", <<>>) = <<>> THEN <<"all">> ELSE s.types

\* Mutant of RuleTypes: as they are spelled in the file.
RuleTypesSpelled(s) == {t \in ToSet(Get(s, "types", <<>>)) : Upper(t) # "ALL"}

RuleTypes(s) == {Upper(t) : t \in ToSet(Get(s, "types", <<>>))} \ {"ALL"}

-----------------------------------------------------------------------------
(* The log (cmd/pii-guard/main.go, internal/logging/logging.go): its        *)
(* settings, laid together of defaults, the file and the environment; and  *)
(* the fields a change of which a running service only reports, since it   *)
(* takes them at its start.                                                *)

DefaultConfig ==
  [level |-> "info", format |-> "json", source |-> FALSE, redact |-> TRUE, repeatWindow |-> 10000,
   repeatLevel |-> "warn", sampleN |-> 1, slow |-> 250, auditEnabled |-> TRUE, auditPath |-> "",
   auditMaxBytes |-> 0, auditKeep |-> 0, instance |-> "", version |-> ""]

\* What is not given, or is no positive number where one is asked for, stays.
FromEnv(env) ==
  LET Kept(f) == f \in DOMAIN env /\ (f \in {"sampleN", "auditMaxBytes", "auditKeep"} => env[f] > 0)
                                  /\ (f \in {"slow", "repeatWindow"} => env[f] >= 0)
  IN [f \in {f \in DOMAIN env : Kept(f)} |-> env[f]] @@ DefaultConfig

\* Sizes of zero are not given; the path is taken as it is, an empty one too.
ApplyFileLogging(c, file) ==
  LET Given(f) == f \in {"auditMaxBytes", "auditKeep"} => file[f] > 0
  IN [f \in {f \in DOMAIN file : Given(f)} |-> file[f]] @@ [auditPath |-> ""] @@ c

\* A value of the environment counts when it is not the default.
ApplyEnvLogging(c, env) ==
  LET Differs(f) == f \in {"instance", "version"} \/ env[f] # DefaultConfig[f]
  IN [f \in {f \in DOMAIN env : Differs(f)} |-> env[f]] @@ c

LogConfig(file, env) == ApplyEnvLogging(ApplyFileLogging(DefaultConfig, file), FromEnv(env))

\* What saves requests, if anything does: opened at the start (openCapture).
Capturing(c) ==
  IF Get(c, "enabled", FALSE) /\ Get(c, "path", "") # "" THEN c @@ [maxBytes |-> 536870912, keep |-> 4, queue |-> 4096]
  ELSE <<>>

Differ(old, new, f) == IF f \in DOMAIN old /\ f \in DOMAIN new THEN old[f] # new[f] ELSE f \in DOMAIN old \/ f \in DOMAIN new

ServerChanges(old, new) == {f \in DOMAIN ServerDefaults \cup {"https"} : Differ(old, new, f)}

LimitsChanges(old, new) == {f \in DOMAIN LimitsDefaults : Differ(old, new, f)}

StoreChanges(old, new) ==
  {f \in DOMAIN StoreDefaults \cup {"redis", "unreadyOnDegraded"} : Differ(old, new, f)}

AuditFields == {"auditEnabled", "auditPath", "auditMaxBytes", "auditKeep"}

\* Mutant of AuditEqual: what is not given equals anything.
AuditEqualIfGiven(old, new) == \A f \in AuditFields : f \in DOMAIN old /\ f \in DOMAIN new => old[f] = new[f]

AuditEqual(old, new) == \A f \in AuditFields : ~Differ(old, new, f)

LoggingChanges(old, new) ==
  {f \in {"level", "format", "source", "redact", "repeatWindow", "repeatLevel", "sampleN", "slow"} : Differ(old, new, f)}
  \cup (IF AuditEqual(old, new) THEN {} ELSE {"audit"})

RestartRequiredChanges(old, new) ==
  ServerChanges(old.server, new.server) \cup LimitsChanges(old.limits, new.limits)
  \cup StoreChanges(old.store, new.store) \cup LoggingChanges(old.logging, new.logging)
=============================================================================
