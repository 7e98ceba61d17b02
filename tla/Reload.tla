------------------------------- MODULE Reload -------------------------------
(***************************************************************************)
(* Settings on the fly: cmd/pii-guard/main.go watches the settings file,   *)
(* internal/api/rules.go and internal/config/edit.go change it on the wish *)
(* of an administrator, a person changes it by hand, and each change is    *)
(* applied to a service that is answering requests.  No lock is held       *)
(* across an edit or an application: a step is one access to the file or   *)
(* one assignment that other goroutines can see.                           *)
(*                                                                         *)
(* The content of the file is its number, the numbers of the edits its     *)
(* parts come from, and its fault.  What requests read is in three places: *)
(* the detector of the custom types, the mode of dates, and the settings.  *)
(* Filters of systems and clients of the language model are built from the *)
(* settings and kept, by the name of the system, in maps that are thrown   *)
(* away when settings are applied.                                         *)
(***************************************************************************)
EXTENDS Naturals, FiniteSets

CONSTANTS
  Admins,      \* requests to POST /v1/rules
  Watcher,     \* the goroutine that watches the file
  Requests,    \* requests that mask a text or talk to the model
  Parts,       \* parts of the file that edits change
  None,        \* nothing is kept in a map
  MaxTurns     \* bound of the model: changes of the file and SIGHUPs in a behaviour

ASSUME ReloadAssumption ==
  /\ Watcher \notin Admins
  /\ IsFiniteSet(Admins) /\ IsFiniteSet(Requests)
  /\ Parts # {}
  /\ None \notin Nat
  /\ MaxTurns \in Nat

Appliers == Admins \cup {Watcher}

Caches == {"filters", "clients"}

\* "parse": config.Load refuses it; "rules": a pattern does not compile, which
\* is found only when the detector is built.  The fault of a sound file is "none".
Faults == {"parse", "rules"}

VARIABLES
  file,     \* the settings file
  mtime,    \* the time of its change
  clock,    \* the time, as coarse as the file system tells it
  turns,    \* changes of the file and SIGHUPs so far
  lastMod,  \* time of the change the watcher has applied
  live,     \* live[p]: the content in force in each of the three places
  kind,     \* the map that the behaviour is about
  cached,   \* number of the content that the object kept in it is built from
  pc, job,  \* where each applier stands, and the content it works with
  request,  \* request[r]: where r stands and what it has worked with
  quiet,    \* history: requests that no application has met
  last,     \* history: last[p], the last edit of p written to the file
  met       \* history: what has happened at an unlucky time

vars == <<file, mtime, clock, turns, lastMod, live, kind, cached, pc, job, request, quiet, last, met>>

Numbers == 0..MaxTurns

Content == [id : Numbers, parts : [Parts -> Numbers], fault : Faults \cup {"none"}]

Places == {"rules", "dates", "settings"}

Applying == {"load", "rules", "dates", "settings", "clients", "filters"}

Stages == {"boot", "wired", "idle", "temp", "rename"} \cup Applying

\* of: the content; part and edit: what an administrator changes; time: of the
\* change that the watcher has noticed, or of the temporary file.
Job == [of : Content, part : Parts, edit : Numbers, time : 0..MaxTurns]

\* settings: number of the content a request has read; current: the map it holds is
\* the one in use; mixed: what else it has worked with was of another content.
Request == [at : {"idle", "dates", "rules", "look", "build"},
            settings : Numbers, current : BOOLEAN, mixed : BOOLEAN]

TypeOK ==
  /\ file \in Content
  /\ mtime \in 0..clock /\ clock \in 0..MaxTurns
  /\ turns \in 0..MaxTurns
  /\ lastMod \in 0..clock
  /\ live \in [Places -> Content]
  /\ kind \in Caches
  /\ cached \in Numbers \cup {None}
  /\ pc \in [Appliers -> Stages]
  /\ job \in [Appliers -> Job]
  /\ request \in [Requests -> Request]
  /\ quiet \subseteq Requests
  /\ last \in [Parts -> Numbers]
  /\ met \subseteq {"overlap", "blur", "cross", "missed", "straddle"}

First == [id |-> 0, parts |-> [p \in Parts |-> 0], fault |-> "none"]

NoJob == [of |-> First, part |-> CHOOSE p \in Parts : TRUE, edit |-> 0, time |-> 0]

NoRequest == [at |-> "idle", settings |-> 0, current |-> FALSE, mixed |-> FALSE]

\* main has loaded the file and built the detectors by it, and the listeners are
\* open; the reloader and the watcher are yet to come.
Init ==
  /\ file = First
  /\ mtime = 0 /\ clock = 0 /\ turns = 0
  /\ lastMod = 0
  /\ live = [p \in Places |-> First]
  /\ kind \in Caches
  /\ cached = None
  /\ pc = [t \in Appliers |-> IF t = Watcher THEN "boot" ELSE "idle"]
  /\ job = [t \in Appliers |-> NoJob]
  /\ request = [r \in Requests |-> NoRequest]
  /\ quiet = {}
  /\ last = [p \in Parts |-> 0]
  /\ met = {}

Busy(t) == pc[t] \in Applying

-----------------------------------------------------------------------------
(* Changes of the file.                                                     *)

\* A write gets the time of the clock, which may stand since the write before.
\* Nobody can tell two sound contents of one time apart.
Stamp ==
  /\ clock' \in {clock, clock + 1}
  /\ met' = met \cup (IF clock' = clock /\ file.fault = "none" THEN {"blur"} ELSE {})
                \cup (IF \E a \in Admins : pc[a] \in {"temp", "rename"} THEN {"cross"} ELSE {})

\* A person, with an editor; the result may be faulty.
HandEdit ==
  /\ turns < MaxTurns
  /\ turns' = turns + 1
  /\ Stamp
  /\ mtime' = clock'
  /\ \E p \in Parts, fault \in Faults \cup {"none"} :
       /\ file' = [id |-> turns + 1, parts |-> [file.parts EXCEPT ![p] = turns + 1],
                   fault |-> fault]
       /\ last' = [last EXCEPT ![p] = turns + 1]
  /\ UNCHANGED <<lastMod, live, kind, cached, pc, job, request, quiet>>

\* Mutant of ReadAndEdit: what the edit makes of the file is not checked.
ReadAndEditUnchecked(a) ==
  /\ pc[a] = "idle"
  /\ turns < MaxTurns
  /\ turns' = turns + 1
  /\ \E p \in Parts :
       job' = [job EXCEPT ![a] = [NoJob EXCEPT !.part = p, !.edit = turns + 1,
                 !.of = [id |-> turns + 1, parts |-> [file.parts EXCEPT ![p] = turns + 1],
                         fault |-> file.fault]]]
  /\ pc' = [pc EXCEPT ![a] = "temp"]
  /\ UNCHANGED <<file, mtime, clock, lastMod, live, kind, cached, request, quiet, last, met>>

\* Mutant of ReadAndEdit: the edit is made to the settings in force.
ReadAndEditLive(a) ==
  /\ pc[a] = "idle"
  /\ turns < MaxTurns
  /\ turns' = turns + 1
  /\ \E p \in Parts :
       job' = [job EXCEPT ![a] = [NoJob EXCEPT !.part = p, !.edit = turns + 1,
                 !.of = [id |-> turns + 1, parts |-> [live["settings"].parts EXCEPT ![p] = turns + 1],
                         fault |-> "none"]]]
  /\ pc' = [pc EXCEPT ![a] = "temp"]
  /\ UNCHANGED <<file, mtime, clock, lastMod, live, kind, cached, request, quiet, last, met>>

\* editFile reads the file, changes a part of it in memory and puts the whole to
\* the check that Load will make.  A fault of the file may go with the part
\* that had it; another one stays, and the edit is refused.
ReadAndEdit(a) ==
  /\ pc[a] = "idle"
  /\ turns < MaxTurns
  /\ turns' = turns + 1
  /\ \E p \in Parts, fault \in {file.fault, "none"} :
       LET new == [id |-> turns + 1, parts |-> [file.parts EXCEPT ![p] = turns + 1],
                   fault |-> fault]
       IN  IF fault = "parse"
           THEN /\ job' = [job EXCEPT ![a] = NoJob]
                /\ pc' = pc
           ELSE /\ job' = [job EXCEPT ![a] = [NoJob EXCEPT !.of = new, !.part = p, !.edit = turns + 1]]
                /\ pc' = [pc EXCEPT ![a] = "temp"]
  /\ UNCHANGED <<file, mtime, clock, lastMod, live, kind, cached, request, quiet, last, met>>

\* The temporary file; when it cannot be written the settings stay as they are.
WriteTemp(a) ==
  /\ pc[a] = "temp"
  /\ \/ /\ clock' \in {clock, clock + 1}
        /\ job' = [job EXCEPT ![a].time = clock']
        /\ pc' = [pc EXCEPT ![a] = "rename"]
     \/ /\ clock' = clock
        /\ job' = [job EXCEPT ![a] = NoJob]
        /\ pc' = [pc EXCEPT ![a] = "idle"]
  /\ UNCHANGED <<file, mtime, turns, lastMod, live, kind, cached, request, quiet, last, met>>

\* The temporary file takes the name of the settings, whatever has become of
\* them.  The handler looks for the reloader after that: it finds none if main has
\* not set it yet, and the watcher will find the edit, or one set in the meantime.
Rename(a) ==
  /\ pc[a] = "rename"
  /\ file' = job[a].of
  /\ mtime' = job[a].time
  /\ last' = [last EXCEPT ![job[a].part] = job[a].edit]
  /\ \/ /\ pc[Watcher] = "boot"
        /\ pc' = [pc EXCEPT ![a] = "idle"]
        /\ job' = [job EXCEPT ![a] = NoJob]
     \/ /\ pc' = [pc EXCEPT ![a] = "load"]
        /\ job' = job
  /\ met' = met \cup (IF job[a].time <= mtime /\ file.fault = "none" THEN {"blur"} ELSE {})
                \cup (IF \E b \in Admins \ {a} : pc[b] \in {"temp", "rename"} THEN {"cross"} ELSE {})
  /\ UNCHANGED <<clock, turns, lastMod, live, kind, cached, request, quiet>>

-----------------------------------------------------------------------------
(* The watcher.                                                             *)

Wire ==
  /\ pc[Watcher] = "boot"
  /\ pc' = [pc EXCEPT ![Watcher] = "wired"]
  /\ UNCHANGED <<file, mtime, clock, turns, lastMod, live, kind, cached, job, request, quiet, last, met>>

\* What has changed since main loaded the file is not noticed.
FirstStat ==
  /\ pc[Watcher] = "wired"
  /\ lastMod' = mtime
  /\ pc' = [pc EXCEPT ![Watcher] = "idle"]
  /\ met' = IF live["settings"] = file THEN met ELSE met \cup {"missed"}
  /\ UNCHANGED <<file, mtime, clock, turns, live, kind, cached, job, request, quiet, last>>

\* SIGHUP, sent at any time and taken now; it does not move the mark of time.
TakeSignal ==
  /\ pc[Watcher] = "idle"
  /\ turns < MaxTurns
  /\ turns' = turns + 1
  /\ pc' = [pc EXCEPT ![Watcher] = "load"]
  /\ job' = [job EXCEPT ![Watcher].time = lastMod]
  /\ UNCHANGED <<file, mtime, clock, lastMod, live, kind, cached, request, quiet, last, met>>

\* Mutant of CheckFileChange: the mark is the time of the round, not of the change.
CheckFileChangeNow ==
  /\ pc[Watcher] = "idle"
  /\ mtime > lastMod
  /\ pc' = [pc EXCEPT ![Watcher] = "load"]
  /\ job' = [job EXCEPT ![Watcher].time = clock + 1]
  /\ UNCHANGED <<file, mtime, clock, turns, lastMod, live, kind, cached, request, quiet, last, met>>

CheckFileChange ==
  /\ pc[Watcher] = "idle"
  /\ mtime > lastMod
  /\ pc' = [pc EXCEPT ![Watcher] = "load"]
  /\ job' = [job EXCEPT ![Watcher].time = mtime]
  /\ UNCHANGED <<file, mtime, clock, turns, lastMod, live, kind, cached, request, quiet, last, met>>

-----------------------------------------------------------------------------
(* newConfigApplier, run by the watcher or by an administrator's request.   *)

\* Mutant of Rejected: the mark of time moves for a rejected file too.
RejectedAndMarked(t) ==
  /\ pc' = [pc EXCEPT ![t] = "idle"]
  /\ job' = [job EXCEPT ![t] = NoJob]
  /\ lastMod' = IF t = Watcher THEN job[t].time ELSE lastMod

\* A rejected file leaves the mark of time where it was.
Rejected(t) ==
  /\ pc' = [pc EXCEPT ![t] = "idle"]
  /\ job' = [job EXCEPT ![t] = NoJob]
  /\ lastMod' = lastMod

\* Mutant of Load: the file is read only when its time is later than the mark.
LoadNewer(t) ==
  /\ pc[t] = "load" /\ pc[Watcher] # "boot"
  /\ pc' = [pc EXCEPT ![t] = "rules"]
  /\ job' = [job EXCEPT ![t].of = IF mtime > lastMod /\ file.fault # "parse" THEN file ELSE live["settings"]]
  /\ quiet' = {}
  /\ met' = IF \E u \in Appliers \ {t} : Busy(u) /\ pc[u] # "load" THEN met \cup {"overlap"} ELSE met
  /\ UNCHANGED <<file, mtime, clock, turns, lastMod, live, kind, cached, request, last>>

\* The settings are read again; nobody is here before main has set the reloader.
Load(t) ==
  /\ pc[t] = "load" /\ pc[Watcher] # "boot"
  /\ IF file.fault = "parse" THEN Rejected(t)
     ELSE /\ pc' = [pc EXCEPT ![t] = "rules"]
          /\ job' = [job EXCEPT ![t].of = file]
          /\ lastMod' = lastMod
  /\ quiet' = {}
  /\ met' = IF \E u \in Appliers \ {t} : Busy(u) /\ pc[u] # "load" THEN met \cup {"overlap"} ELSE met
  /\ UNCHANGED <<file, mtime, clock, turns, live, kind, cached, request, last>>

\* Mutant of SetCustom: the patterns are compiled one by one in place.
SetCustomInPlace(t) ==
  /\ pc[t] = "rules"
  /\ IF job[t].of.fault = "rules" THEN Rejected(t)
     ELSE pc' = [pc EXCEPT ![t] = "dates"] /\ UNCHANGED <<job, lastMod>>
  /\ live' = [live EXCEPT !["rules"] = job[t].of]
  /\ UNCHANGED <<file, mtime, clock, turns, kind, cached, request, quiet, last, met>>

\* The detector is built whole before it takes the place of the old one.
SetCustom(t) ==
  /\ pc[t] = "rules"
  /\ IF job[t].of.fault = "rules"
     THEN Rejected(t) /\ live' = live
     ELSE /\ pc' = [pc EXCEPT ![t] = "dates"]
          /\ live' = [live EXCEPT !["rules"] = job[t].of]
          /\ UNCHANGED <<job, lastMod>>
  /\ UNCHANGED <<file, mtime, clock, turns, kind, cached, request, quiet, last, met>>

\* Mutant of SetMode: the mode of dates waits for a restart.
SetModeLater(t) ==
  /\ pc[t] = "dates"
  /\ pc' = [pc EXCEPT ![t] = "settings"]
  /\ UNCHANGED <<file, mtime, clock, turns, lastMod, live, kind, cached, job, request, quiet, last, met>>

SetMode(t) ==
  /\ pc[t] = "dates"
  /\ live' = [live EXCEPT !["dates"] = job[t].of]
  /\ pc' = [pc EXCEPT ![t] = "settings"]
  /\ UNCHANGED <<file, mtime, clock, turns, lastMod, kind, cached, job, request, quiet, last, met>>

SetConfig(t) ==
  /\ pc[t] = "settings"
  /\ live' = [live EXCEPT !["settings"] = job[t].of]
  /\ pc' = [pc EXCEPT ![t] = "clients"]
  /\ UNCHANGED <<file, mtime, clock, turns, lastMod, kind, cached, job, request, quiet, last, met>>

\* Mutant of Renew: the map is emptied, and whoever holds it goes on filling it.
RenewInPlace(c) ==
  /\ cached' = IF kind = c THEN None ELSE cached
  /\ request' = request
  /\ met' = IF kind = c /\ \E r \in Requests : request[r].at \in {"dates", "rules", "look"}
            THEN met \cup {"straddle"} ELSE met

\* An empty map takes the place of the old one.  Whoever holds the old map goes
\* on filling that.  A request that has read the settings and not yet looked
\* into the map will put an object of the old settings into the new map.
Renew(c) ==
  /\ cached' = IF kind = c THEN None ELSE cached
  /\ request' = IF kind = c THEN [r \in Requests |-> [request[r] EXCEPT !.current = FALSE]] ELSE request
  /\ met' = IF kind = c /\ \E r \in Requests : request[r].at \in {"dates", "rules", "look"}
            THEN met \cup {"straddle"} ELSE met

ResetClients(t) ==
  /\ pc[t] = "clients"
  /\ Renew("clients")
  /\ pc' = [pc EXCEPT ![t] = "filters"]
  /\ UNCHANGED <<file, mtime, clock, turns, lastMod, live, kind, job, quiet, last>>

ResetFilters(t) ==
  /\ pc[t] = "filters"
  /\ Renew("filters")
  /\ pc' = [pc EXCEPT ![t] = "idle"]
  /\ lastMod' = IF t = Watcher THEN job[t].time ELSE lastMod
  /\ job' = [job EXCEPT ![t] = NoJob]
  /\ UNCHANGED <<file, mtime, clock, turns, live, kind, quiet, last>>

Apply(t) == Load(t) \/ SetCustom(t) \/ SetMode(t) \/ SetConfig(t) \/ ResetClients(t) \/ ResetFilters(t)

-----------------------------------------------------------------------------
(* A request: engine.Mask reads the places in this order, and the proxy     *)
(* looks for a client where this one looks for a filter.                    *)

Others == <<file, mtime, clock, turns, lastMod, live, kind, pc, job, last, met>>

TakeConfig(r) ==
  /\ request[r].at = "idle"
  /\ request' = [request EXCEPT ![r] = [NoRequest EXCEPT !.at = "dates", !.settings = live["settings"].id]]
  /\ quiet' = IF \E t \in Appliers : Busy(t) /\ pc[t] # "load" THEN quiet \ {r} ELSE quiet \cup {r}
  /\ UNCHANGED <<Others, cached>>

Mixed(r, number) == r \in quiet /\ (request[r].mixed \/ number # request[r].settings)

DetectDates(r) ==
  /\ request[r].at = "dates"
  /\ request' = [request EXCEPT ![r].at = "rules", ![r].mixed = Mixed(r, live["dates"].id)]
  /\ UNCHANGED <<Others, cached, quiet>>

DetectCustom(r) ==
  /\ request[r].at = "rules"
  /\ request' = [request EXCEPT ![r].at = "look", ![r].mixed = Mixed(r, live["rules"].id)]
  /\ UNCHANGED <<Others, cached, quiet>>

\* Load of the map and a look into it.  Between the two the map may be replaced,
\* and the look is then as good as one before that.
LookInMap(r) ==
  /\ request[r].at = "look"
  /\ request' = [request EXCEPT ![r] =
       IF cached = None THEN [request[r] EXCEPT !.at = "build", !.current = TRUE]
       ELSE [NoRequest EXCEPT !.mixed = Mixed(r, cached)]]
  /\ UNCHANGED <<Others, cached, quiet>>

BuildAndStore(r) ==
  /\ request[r].at = "build"
  /\ cached' = IF request[r].current THEN request[r].settings ELSE cached
  /\ request' = [request EXCEPT ![r] = [NoRequest EXCEPT !.mixed = request[r].mixed]]
  /\ UNCHANGED <<Others, quiet>>

Serve(r) == TakeConfig(r) \/ DetectDates(r) \/ DetectCustom(r) \/ LookInMap(r) \/ BuildAndStore(r)

Edit(a) == ReadAndEdit(a) \/ WriteTemp(a) \/ Rename(a)

Next ==
  \/ HandEdit \/ Wire \/ FirstStat \/ TakeSignal \/ CheckFileChange
  \/ \E a \in Admins : Edit(a)
  \/ \E t \in Appliers : Apply(t)
  \/ \E r \in Requests : Serve(r)

Spec == Init /\ [][Next]_vars

\* The goroutine of the watcher runs while the service does, and so does a request
\* that has begun to apply the settings.
Fairness ==
  /\ WF_vars(Wire) /\ WF_vars(FirstStat) /\ WF_vars(CheckFileChange)
  /\ \A t \in Appliers : WF_vars(Apply(t))

FairSpec == Spec /\ Fairness

-----------------------------------------------------------------------------
(* Properties.                                                              *)

AtRest == \A t \in Appliers : ~Busy(t)

\* newConfigApplier: settings are applied whole or not at all.  Nothing of a faulty
\* file is ever in force, however an application was interrupted by its fault.
OnlySoundSettings == \A p \in Places : live[p].fault = "none"

\* After an application all three places hold one and the same content, unless two
\* of them have run at once (watcher and POST /v1/rules share no lock), and at no
\* time a faulty one.
SettledWhole ==
  /\ OnlySoundSettings
  /\ AtRest /\ "overlap" \notin met => \A p, q \in Places : live[p] = live[q]

\* A request that no application has met has worked by one content alone, the kept
\* filter and the kept client included.  Two accidents of the past can spoil
\* that, until the next application: two applications at once, and a request
\* caught by a reset between its settings and its look into the map.
QuietRequestsAgree ==
  met \cap {"overlap", "straddle"} = {} => \A r \in quiet : ~request[r].mixed

Renamed(a) == pc[a] = "rename" /\ pc'[a] # "rename"

\* An edit never leaves a file that the service will refuse to load, whatever was in
\* the file it has read or has replaced.
LeavesFileWhole(a) == Renamed(a) => file'.fault # "parse"

\* Edits add up: each part of the file is as its last edit made it, unless the file
\* was changed between an edit's reading and its renaming.
EditsAccumulate == "cross" \notin met => file.parts = last

\* "Immediately", the answer when the reloader returns, is said only of an edit that
\* is in force, unless applications or edits have overlapped.
SaysImmediatelyInTruth(a) ==
  (pc[a] = "filters" /\ pc'[a] = "idle" /\ met' \cap {"overlap", "cross"} = {}) =>
    live'["settings"].parts[job[a].part] >= job[a].edit

\* editFile and handleRulesPost: what an administrator is told of an edit is so: the
\* file is sound and has it, together with all edits before it, and the service
\* works by it.
EditsKeepTheirWord ==
  [][EditsAccumulate' /\ \A a \in Admins : LeavesFileWhole(a) /\ SaysImmediatelyInTruth(a)]_vars

\* checkFileChange: a sound file comes into force in the end, a correction made
\* within the second of a faulty edit included.  Three accidents can keep it out
\* until the next change: applications at once, two sound contents of one time,
\* and a change between the load at the start and the first look of the watcher.
ChangesComeIntoForce ==
  []<>(\/ live["settings"] = file
       \/ file.fault # "none"
       \/ met \cap {"overlap", "blur", "missed"} # {})
=============================================================================
