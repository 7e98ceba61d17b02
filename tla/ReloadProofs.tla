---------------------------- MODULE ReloadProofs ----------------------------
(***************************************************************************)
(* Theorems about Reload, for any number of administrators, requests,      *)
(* parts of the file and changes of it.                                    *)
(***************************************************************************)
EXTENDS Reload, FiniteSetTheorems, TLAPS

\* Edits checked and not yet written.
Drafts == {a \in Admins : pc[a] = "temp"}

\* The clock moves with writes only, and no noted time is ahead of it.
Timed ==
  /\ clock + Cardinality(Drafts) <= turns
  /\ \A t \in Appliers : job[t].time <= clock

TypedInv == TypeOK /\ Timed

\* t has read the file and is putting it into force.
Past(t) == Busy(t) /\ pc[t] # "load"

\* What is on its way to the file or into force has passed the checks before it.
Checked ==
  \A t \in Appliers :
    /\ pc[t] \in {"temp", "rename", "rules"} => job[t].of.fault # "parse"
    /\ pc[t] \in {"dates", "settings", "clients", "filters"} => job[t].of.fault = "none"

\* How far t has come with its content.
Halfway(t) ==
  /\ pc[t] \in {"dates", "settings", "clients", "filters"} => live["rules"] = job[t].of
  /\ pc[t] \in {"settings", "clients", "filters"} => live["dates"] = job[t].of
  /\ pc[t] \in {"clients", "filters"} => live["settings"] = job[t].of
  /\ pc[t] = "rules" => live["rules"] = live["dates"]
  /\ pc[t] \in {"rules", "dates"} => live["dates"] = live["settings"]

\* One application at a time takes the places from one content to the next.
OneByOne ==
  "overlap" \notin met =>
    /\ \A t, u \in Appliers : Past(t) /\ Past(u) => t = u
    /\ \A t \in Appliers : Past(t) => Halfway(t)
    /\ (\A t \in Appliers : ~Past(t)) => live["rules"] = live["settings"] /\ live["dates"] = live["settings"]

WholeInv == TypedInv /\ Checked /\ OnlySoundSettings /\ OneByOne

\* The settings are new, and the map is not.
Renewing == \E t \in Appliers : pc[t] = "clients" \/ (pc[t] = "filters" /\ kind = "filters")

\* What is in the map, or may yet be put there, is of the settings in force.
MapFollows ==
  ~Renewing /\ met \cap {"overlap", "straddle"} = {} =>
    /\ cached \in {None, live["settings"].id}
    /\ \A r \in Requests :
         \/ request[r].at \in {"dates", "rules", "look"}
         \/ request[r].at = "build" /\ request[r].current
         => request[r].settings = live["settings"].id

\* A request no application has met works by the settings in force.
Undisturbed ==
  /\ quiet # {} => \A t \in Appliers : ~Past(t)
  /\ met \cap {"overlap", "straddle"} = {} =>
       \A r \in quiet : /\ ~request[r].mixed
                        /\ request[r].at # "idle" => request[r].settings = live["settings"].id

QuietInv == WholeInv /\ MapFollows /\ Undisturbed

\* An edit under way is the file with one part made new, and later than all it has.
Drafted(a) ==
  pc[a] \in {"temp", "rename"} =>
    /\ job[a].of.parts = [file.parts EXCEPT ![job[a].part] = job[a].edit]
    /\ \A p \in Parts : file.parts[p] < job[a].edit

\* An edit that has been renamed is in the file, and then in what is being applied.
Carried(a) ==
  /\ pc[a] = "load" => file.parts[job[a].part] >= job[a].edit
  /\ Past(a) => job[a].of.parts[job[a].part] >= job[a].edit

Kept ==
  /\ \A p \in Parts : file.parts[p] <= turns
  /\ \A t \in Appliers : job[t].edit <= turns /\ \A p \in Parts : job[t].of.parts[p] <= turns
  /\ "cross" \notin met => file.parts = last /\ \A a \in Admins : Drafted(a) /\ Carried(a)

EditInv == WholeInv /\ Kept

-----------------------------------------------------------------------------
(* Types and times.                                                         *)

LEMMA FirstIsContent == First \in Content
BY ReloadAssumption DEF First, Content, Numbers

LEMMA NoJobIsJob == NoJob \in Job /\ NoJob.time = 0 /\ NoJob.edit = 0 /\ NoJob.of.fault = "none"
<1>1. (CHOOSE p \in Parts : TRUE) \in Parts
  BY ReloadAssumption
<1>2. PICK p \in Parts : NoJob = [of |-> First, part |-> p, edit |-> 0, time |-> 0]
  BY <1>1, Zenon DEF NoJob
<1>3. NoJob \in Job
  BY <1>2, FirstIsContent, ReloadAssumption DEF Job, Numbers
<1>4. NoJob.of = First /\ NoJob.time = 0 /\ NoJob.edit = 0
  BY <1>2
<1>5. First.fault = "none"
  BY DEF First
<1>6. QED
  BY <1>3, <1>4, <1>5

LEMMA NoRequestIsRequest == NoRequest \in Request
BY ReloadAssumption DEF NoRequest, Request, Numbers

\* The content an edit or a hand makes of another.
LEMMA EditedIsContent ==
  ASSUME NEW c \in Content, NEW p \in Parts, NEW n \in Numbers, NEW f \in Faults \cup {"none"}
  PROVE  [id |-> n, parts |-> [c.parts EXCEPT ![p] = n], fault |-> f] \in Content
BY DEF Content

LEMMA InitTyped == Init => TypedInv
<1>1. SUFFICES ASSUME Init PROVE TypedInv
  OBVIOUS
<1>2. TypeOK
  <2>1. /\ file \in Content
        /\ live \in [Places -> Content]
        /\ job \in [Appliers -> Job]
        /\ request \in [Requests -> Request]
    BY <1>1, FirstIsContent, NoJobIsJob, NoRequestIsRequest DEF Init
  <2>2. pc \in [Appliers -> Stages]
    BY <1>1 DEF Init, Stages
  <2>3. cached \in Numbers \cup {None} /\ last \in [Parts -> Numbers]
    BY <1>1, ReloadAssumption DEF Init, Numbers
  <2>4. QED
    BY <1>1, <2>1, <2>2, <2>3, ReloadAssumption DEF Init, TypeOK
<1>3. Timed
  <2>1. Drafts = {}
    BY <1>1 DEF Init, Drafts, Appliers
  <2>2. Cardinality(Drafts) = 0
    BY <2>1, FS_EmptySet
  <2>3. \A t \in Appliers : job[t].time = 0
    BY <1>1, NoJobIsJob DEF Init
  <2>4. QED
    BY <1>1, <2>2, <2>3 DEF Init, Timed
<1>4. QED
  BY <1>2, <1>3 DEF TypedInv

LEMMA DraftsAreFinite == IsFiniteSet(Drafts) /\ Cardinality(Drafts) \in Nat
BY ReloadAssumption, FS_Subset, FS_CardinalityType DEF Drafts

\* A thread that begins no draft, when the clock stands.
LEMMA TimedLater ==
  ASSUME TypedInv, clock' = clock, turns' >= turns, turns' \in Nat, Drafts' \subseteq Drafts,
         \A t \in Appliers : job'[t].time <= clock
  PROVE  Timed'
<1>1. Cardinality(Drafts') <= Cardinality(Drafts) /\ Cardinality(Drafts') \in Nat
  BY DraftsAreFinite, FS_Subset, FS_CardinalityType
<1>2. Cardinality(Drafts)' = Cardinality(Drafts')
  OBVIOUS
<1>3. QED
  BY <1>1, <1>2, DraftsAreFinite DEF TypedInv, TypeOK, Timed

\* A thread at work takes up job j at stage s.
LEMMA StageTaken ==
  ASSUME TypeOK, NEW t \in Appliers, NEW s \in Stages, pc' = [pc EXCEPT ![t] = s]
  PROVE  pc' \in [Appliers -> Stages] /\ pc'[t] = s /\ \A u \in Appliers \ {t} : pc'[u] = pc[u]
BY DEF TypeOK

LEMMA JobTaken ==
  ASSUME TypeOK, NEW t \in Appliers, NEW j \in Job, job' = [job EXCEPT ![t] = j]
  PROVE  job' \in [Appliers -> Job] /\ job'[t] = j /\ \A u \in Appliers \ {t} : job'[u] = job[u]
BY DEF TypeOK

LEMMA ContentLoaded ==
  ASSUME NEW j \in Job, NEW c \in Content
  PROVE  [j EXCEPT !.of = c] \in Job
BY DEF Job

LEMMA TimeNoted ==
  ASSUME NEW j \in Job, NEW n \in 0..MaxTurns
  PROVE  [j EXCEPT !.time = n] \in Job
BY DEF Job

LEMMA JobTimes ==
  ASSUME TypeOK, NEW t \in Appliers
  PROVE  job[t].time \in 0..MaxTurns /\ job[t].time \in Nat
<1>1. job[t] \in Job
  BY DEF TypeOK
<1>2. QED
  BY <1>1, ReloadAssumption DEF Job

LEMMA HandEditTyped == TypedInv /\ HandEdit => TypedInv'
<1>1. SUFFICES ASSUME TypedInv, HandEdit PROVE TypedInv'
  OBVIOUS
<1>2. TypeOK
  BY <1>1 DEF TypedInv
<1>3. /\ turns < MaxTurns /\ turns' = turns + 1
      /\ clock' \in {clock, clock + 1} /\ mtime' = clock'
      /\ UNCHANGED <<lastMod, live, kind, cached, pc, job, request, quiet>>
  BY <1>1 DEF HandEdit, Stamp
<1>4. turns' \in Numbers /\ turns + 1 \in Numbers
  BY <1>2, <1>3, ReloadAssumption DEF TypeOK, Numbers
<1>5. clock \in Nat /\ turns \in Nat /\ lastMod \in 0..clock /\ clock <= turns /\ turns <= MaxTurns
  BY <1>1, <1>2, DraftsAreFinite, ReloadAssumption DEF TypedInv, Timed, TypeOK
<1>6. clock' \in 0..MaxTurns /\ clock <= clock' /\ clock' <= clock + 1 /\ clock' \in Nat
  BY <1>3, <1>5, ReloadAssumption
<1>7. PICK p \in Parts, fault \in Faults \cup {"none"} :
        /\ file' = [id |-> turns + 1, parts |-> [file.parts EXCEPT ![p] = turns + 1], fault |-> fault]
        /\ last' = [last EXCEPT ![p] = turns + 1]
  BY <1>1 DEF HandEdit
<1>8. file' \in Content
  BY <1>2, <1>4, <1>7, EditedIsContent DEF TypeOK
<1>9. met' \subseteq {"overlap", "blur", "cross", "missed", "straddle"}
  BY <1>1, <1>2 DEF HandEdit, Stamp, TypeOK
<1>10. TypeOK'
  <2>1. last' \in [Parts -> Numbers]
    BY <1>2, <1>4, <1>7 DEF TypeOK
  <2>2. mtime' \in 0..clock' /\ lastMod' \in 0..clock' /\ turns' \in 0..MaxTurns
    BY <1>3, <1>5, <1>6, ReloadAssumption
  <2>3. QED
    BY <1>2, <1>3, <1>8, <1>9, <1>6, <2>1, <2>2 DEF TypeOK
<1>11. Timed'
  <2>1. Drafts' = Drafts
    BY <1>3 DEF Drafts
  <2>2. ASSUME NEW t \in Appliers PROVE job'[t].time <= clock'
    <3>1. job[t].time \in Nat /\ job[t].time <= clock /\ job' = job
      BY <1>1, <1>2, <1>3, JobTimes DEF TypedInv, Timed
    <3>2. QED
      BY <1>5, <1>6, <3>1
  <2>3. clock + Cardinality(Drafts) <= turns
    BY <1>1 DEF TypedInv, Timed
  <2>4. clock' + Cardinality(Drafts) <= turns'
    BY <1>3, <1>5, <1>6, <2>3, DraftsAreFinite
  <2>5. QED
    BY <2>1, <2>2, <2>4 DEF Timed
<1>12. QED
  BY <1>10, <1>11 DEF TypedInv

LEMMA ReadAndEditTyped ==
  ASSUME NEW a \in Admins
  PROVE  TypedInv /\ ReadAndEdit(a) => TypedInv'
<1>1. SUFFICES ASSUME TypedInv, ReadAndEdit(a) PROVE TypedInv'
  OBVIOUS
<1>2. TypeOK /\ a \in Appliers
  BY <1>1 DEF TypedInv, Appliers
<1>3. /\ pc[a] = "idle" /\ turns < MaxTurns /\ turns' = turns + 1
      /\ UNCHANGED <<file, mtime, clock, lastMod, live, kind, cached, request, quiet, last, met>>
  BY <1>1 DEF ReadAndEdit
<1>4. turns + 1 \in Numbers /\ clock \in Nat /\ turns \in Nat
  BY <1>2, <1>3, ReloadAssumption DEF TypeOK, Numbers
<1>5. PICK j \in Job : /\ job' = [job EXCEPT ![a] = j] /\ j.time = 0
                       /\ pc' = pc \/ pc' = [pc EXCEPT ![a] = "temp"]
  <2>1. PICK p \in Parts, fault \in {file.fault, "none"} :
          LET new == [id |-> turns + 1, parts |-> [file.parts EXCEPT ![p] = turns + 1], fault |-> fault]
          IN  \/ job' = [job EXCEPT ![a] = NoJob] /\ pc' = pc
              \/ /\ job' = [job EXCEPT ![a] = [NoJob EXCEPT !.of = new, !.part = p, !.edit = turns + 1]]
                 /\ pc' = [pc EXCEPT ![a] = "temp"]
    BY <1>1 DEF ReadAndEdit
  <2> DEFINE new == [id |-> turns + 1, parts |-> [file.parts EXCEPT ![p] = turns + 1], fault |-> fault]
  <2>2. new \in Content
    BY <1>2, <1>4, EditedIsContent DEF TypeOK, Content
  <2> HIDE DEF new
  <2>3. [NoJob EXCEPT !.of = new, !.part = p, !.edit = turns + 1] \in Job
    BY <1>4, <2>2, NoJobIsJob DEF Job
  <2>4. [NoJob EXCEPT !.of = new, !.part = p, !.edit = turns + 1].time = 0
    BY NoJobIsJob DEF Job
  <2>5. QED
    BY <2>1, <2>3, <2>4, NoJobIsJob DEF new
<1>6. job' \in [Appliers -> Job] /\ job'[a].time = 0 /\ \A u \in Appliers \ {a} : job'[u] = job[u]
  BY <1>2, <1>5, JobTaken
<1>7. pc' \in [Appliers -> Stages] /\ \A u \in Appliers \ {a} : pc'[u] = pc[u]
  BY <1>2, <1>5 DEF TypeOK, Stages
<1>8. TypeOK'
  BY <1>2, <1>3, <1>4, <1>6, <1>7 DEF TypeOK, Numbers
<1>9. Timed'
  <2>1. Drafts' \subseteq Drafts \cup {a}
    BY <1>7 DEF Drafts, Appliers
  <2>2. IsFiniteSet(Drafts \cup {a}) /\ Cardinality(Drafts \cup {a}) <= Cardinality(Drafts) + 1
    BY DraftsAreFinite, FS_AddElement
  <2>3. Cardinality(Drafts') <= Cardinality(Drafts) + 1 /\ Cardinality(Drafts') \in Nat
    BY <2>1, <2>2, DraftsAreFinite, FS_Subset, FS_CardinalityType
  <2>4. \A t \in Appliers : job'[t].time <= clock
    BY <1>1, <1>4, <1>6 DEF TypedInv, Timed
  <2>5. QED
    BY <1>1, <1>3, <1>4, <2>3, <2>4, DraftsAreFinite DEF TypedInv, Timed
<1>10. QED
  BY <1>8, <1>9 DEF TypedInv

LEMMA WriteTempTyped ==
  ASSUME NEW a \in Admins
  PROVE  TypedInv /\ WriteTemp(a) => TypedInv'
<1>1. SUFFICES ASSUME TypedInv, WriteTemp(a) PROVE TypedInv'
  OBVIOUS
<1>2. TypeOK /\ a \in Appliers
  BY <1>1 DEF TypedInv, Appliers
<1>3. /\ pc[a] = "temp" /\ clock' \in {clock, clock + 1}
      /\ UNCHANGED <<file, mtime, turns, lastMod, live, kind, cached, request, quiet, last, met>>
  BY <1>1 DEF WriteTemp
<1>4. Drafts' = Drafts \ {a} /\ a \in Drafts
  BY <1>1, <1>2, <1>3 DEF WriteTemp, Drafts, TypeOK, Appliers
<1>5. Cardinality(Drafts') = Cardinality(Drafts) - 1
  BY <1>4, DraftsAreFinite, FS_RemoveElement
<1>6. clock' + Cardinality(Drafts') <= turns /\ clock' \in Nat /\ clock' <= MaxTurns /\ clock <= clock'
  <2>1. clock' <= clock + 1 /\ clock <= clock' /\ clock' \in Nat /\ clock \in Nat /\ turns \in 0..MaxTurns
    BY <1>2, <1>3, ReloadAssumption DEF TypeOK
  <2>2. Cardinality(Drafts) - 1 \in Nat
    BY <1>4, <1>5, DraftsAreFinite, FS_RemoveElement, FS_CardinalityType
  <2>3. QED
    BY <1>1, <1>5, <2>1, <2>2, DraftsAreFinite, ReloadAssumption DEF TypedInv, Timed
<1>7. clock' \in Nat /\ clock' <= MaxTurns /\ clock \in Nat /\ clock <= clock' /\ clock' \in 0..MaxTurns
  BY <1>2, <1>6, ReloadAssumption DEF TypeOK
<1>8. /\ job' \in [Appliers -> Job] /\ job'[a].time <= clock' /\ \A u \in Appliers \ {a} : job'[u] = job[u]
      /\ pc' \in [Appliers -> Stages]
  <2>1. CASE /\ job' = [job EXCEPT ![a].time = clock'] /\ pc' = [pc EXCEPT ![a] = "rename"]
    <3>1. job' = [job EXCEPT ![a] = [job[a] EXCEPT !.time = clock']]
      BY <1>2, <2>1 DEF TypeOK
    <3>2. [job[a] EXCEPT !.time = clock'] \in Job /\ [job[a] EXCEPT !.time = clock'].time = clock'
      BY <1>2, <1>7 DEF TypeOK, Job
    <3>3. job' \in [Appliers -> Job] /\ job'[a].time = clock' /\ \A u \in Appliers \ {a} : job'[u] = job[u]
      BY <1>2, <3>1, <3>2, JobTaken
    <3>4. pc' \in [Appliers -> Stages]
      BY <1>2, <2>1 DEF TypeOK, Stages
    <3>5. QED
      BY <1>7, <3>3, <3>4
  <2>2. CASE job' = [job EXCEPT ![a] = NoJob] /\ pc' = [pc EXCEPT ![a] = "idle"]
    <3>1. job' \in [Appliers -> Job] /\ job'[a] = NoJob /\ \A u \in Appliers \ {a} : job'[u] = job[u]
      BY <1>2, <2>2, NoJobIsJob, JobTaken
    <3>2. pc' \in [Appliers -> Stages]
      BY <1>2, <2>2 DEF TypeOK, Stages
    <3>3. QED
      BY <1>7, <3>1, <3>2, NoJobIsJob, ReloadAssumption
  <2>3. QED
    BY <1>1, <2>1, <2>2 DEF WriteTemp
<1>9. TypeOK'
  BY <1>2, <1>3, <1>8, <1>7 DEF TypeOK
<1>10. Timed'
  <2>1. \A t \in Appliers : job[t].time \in Nat /\ job[t].time <= clock
    BY <1>1, <1>2, JobTimes DEF TypedInv, Timed
  <2>2. \A t \in Appliers : job'[t].time <= clock'
    BY <1>8, <1>7, <2>1
  <2>3. QED
    BY <1>3, <1>6, <2>2 DEF Timed
<1>11. QED
  BY <1>9, <1>10 DEF TypedInv

LEMMA RenameTyped ==
  ASSUME NEW a \in Admins
  PROVE  TypedInv /\ Rename(a) => TypedInv'
<1>1. SUFFICES ASSUME TypedInv, Rename(a) PROVE TypedInv'
  OBVIOUS
<1>2. TypeOK /\ a \in Appliers /\ job[a] \in Job
  BY <1>1 DEF TypedInv, Appliers, TypeOK
<1>3. /\ file' = job[a].of /\ mtime' = job[a].time
      /\ last' = [last EXCEPT ![job[a].part] = job[a].edit]
      /\ pc[a] = "rename"
      /\ UNCHANGED <<clock, turns, lastMod, live, kind, cached, request, quiet>>
  BY <1>1 DEF Rename
<1>4. /\ job' \in [Appliers -> Job] /\ \A u \in Appliers : job'[u].time <= clock
      /\ pc' \in [Appliers -> Stages] /\ pc'[a] # "temp" /\ \A u \in Appliers \ {a} : pc'[u] = pc[u]
  <2>1. \A u \in Appliers : job[u].time <= clock
    BY <1>1 DEF TypedInv, Timed
  <2>2. CASE pc' = [pc EXCEPT ![a] = "idle"] /\ job' = [job EXCEPT ![a] = NoJob]
    <3>1. job' \in [Appliers -> Job] /\ job'[a] = NoJob /\ \A u \in Appliers \ {a} : job'[u] = job[u]
      BY <1>2, <2>2, NoJobIsJob, JobTaken
    <3>2. NoJob.time <= clock
      BY <1>2, NoJobIsJob, ReloadAssumption DEF TypeOK
    <3>3. QED
      BY <1>2, <2>1, <2>2, <3>1, <3>2 DEF TypeOK, Stages
  <2>3. CASE pc' = [pc EXCEPT ![a] = "load"] /\ job' = job
    BY <1>2, <2>1, <2>3 DEF TypeOK, Stages, Applying
  <2>4. QED
    BY <1>1, <2>2, <2>3 DEF Rename
<1>5. Timed'
  BY <1>1, <1>2, <1>3, <1>4, TimedLater, ReloadAssumption DEF Drafts, Appliers, TypeOK
<1>6. file' \in Content /\ mtime' \in 0..clock /\ last' \in [Parts -> Numbers]
  <2>1. mtime' \in Nat /\ mtime' <= clock
    BY <1>1, <1>2, <1>3, JobTimes DEF TypedInv, Timed
  <2>2. QED
    BY <1>2, <1>3, <2>1, ReloadAssumption DEF TypeOK, Job
<1>7. met' \subseteq {"overlap", "blur", "cross", "missed", "straddle"}
  BY <1>1, <1>2 DEF Rename, TypeOK
<1>8. QED
  BY <1>2, <1>3, <1>4, <1>5, <1>6, <1>7 DEF TypedInv, TypeOK

\* A thread goes on to a stage other than drafting, with a job of a time that has been.
LEMMA GoesOn ==
  ASSUME TypedInv, NEW t \in Appliers, NEW s \in Stages \ {"temp"}, NEW j \in Job, j.time <= clock,
         pc' = [pc EXCEPT ![t] = s], job' = [job EXCEPT ![t] = j] \/ job' = job,
         clock' = clock, turns' \in {turns, turns + 1}
  PROVE  /\ pc' \in [Appliers -> Stages]
         /\ job' \in [Appliers -> Job]
         /\ Timed'
<1>1. TypeOK /\ \A u \in Appliers : job[u].time <= clock
  BY DEF TypedInv, Timed
<1>2. pc' \in [Appliers -> Stages] /\ pc'[t] = s /\ \A u \in Appliers \ {t} : pc'[u] = pc[u]
  BY <1>1, StageTaken
<1>3. job' \in [Appliers -> Job] /\ \A u \in Appliers : job'[u].time <= clock
  <2>1. CASE job' = job
    BY <1>1, <2>1 DEF TypeOK
  <2>2. CASE job' = [job EXCEPT ![t] = j]
    BY <1>1, <2>2, JobTaken
  <2>3. QED
    BY <2>1, <2>2
<1>4. Drafts' \subseteq Drafts
  BY <1>2 DEF Drafts, Appliers
<1>5. turns' \in Nat /\ turns' >= turns
  BY <1>1, ReloadAssumption DEF TypeOK
<1>6. QED
  BY <1>2, <1>3, <1>4, <1>5, TimedLater

LEMMA WatchingTyped == TypedInv /\ (Wire \/ FirstStat \/ TakeSignal \/ CheckFileChange) => TypedInv'
<1>1. SUFFICES ASSUME TypedInv, Wire \/ FirstStat \/ TakeSignal \/ CheckFileChange PROVE TypedInv'
  OBVIOUS
<1>2. TypeOK /\ Watcher \in Appliers /\ job[Watcher] \in Job /\ job[Watcher].time <= clock
  BY <1>1 DEF TypedInv, Timed, Appliers, TypeOK
<1>3. clock \in Nat /\ clock <= MaxTurns /\ mtime \in Nat /\ mtime <= clock /\ lastMod \in Nat /\ lastMod <= clock
  BY <1>2, ReloadAssumption DEF TypeOK
<1>4. ASSUME NEW n \in Nat, n <= clock
      PROVE  [job[Watcher] EXCEPT !.time = n] \in Job /\ [job[Watcher] EXCEPT !.time = n].time <= clock
  <2>1. n \in 0..MaxTurns
    BY <1>3, <1>4, ReloadAssumption
  <2>2. [job[Watcher] EXCEPT !.time = n].time = n
    BY <1>2 DEF Job
  <2>3. QED
    BY <1>2, <1>4, <2>1, <2>2, TimeNoted
<1>5. CASE Wire
  <2>1. "wired" \in Stages \ {"temp"}
    BY DEF Stages
  <2>2. pc' \in [Appliers -> Stages] /\ job' \in [Appliers -> Job] /\ Timed'
    BY <1>1, <1>2, <1>5, <2>1, GoesOn DEF Wire
  <2>3. QED
    BY <1>2, <1>5, <2>2 DEF Wire, TypedInv, TypeOK
<1>6. CASE FirstStat
  <2>1. "idle" \in Stages \ {"temp"}
    BY DEF Stages
  <2>2. pc' \in [Appliers -> Stages] /\ job' \in [Appliers -> Job] /\ Timed'
    BY <1>1, <1>2, <1>6, <2>1, GoesOn DEF FirstStat
  <2>3. QED
    BY <1>2, <1>6, <2>2 DEF FirstStat, TypedInv, TypeOK
<1>7. CASE TakeSignal
  <2>1. "load" \in Stages \ {"temp"}
    BY DEF Stages, Applying
  <2>2. job' = [job EXCEPT ![Watcher] = [job[Watcher] EXCEPT !.time = lastMod]]
    BY <1>2, <1>7 DEF TakeSignal, TypeOK
  <2>3. pc' \in [Appliers -> Stages] /\ job' \in [Appliers -> Job] /\ Timed'
    BY <1>1, <1>2, <1>3, <1>4, <1>7, <2>1, <2>2, GoesOn DEF TakeSignal
  <2>4. turns' \in 0..MaxTurns
    BY <1>2, <1>7, ReloadAssumption DEF TakeSignal, TypeOK
  <2>5. QED
    BY <1>2, <1>7, <2>3, <2>4 DEF TakeSignal, TypedInv, TypeOK
<1>8. CASE CheckFileChange
  <2>1. "load" \in Stages \ {"temp"}
    BY DEF Stages, Applying
  <2>2. job' = [job EXCEPT ![Watcher] = [job[Watcher] EXCEPT !.time = mtime]]
    BY <1>2, <1>8 DEF CheckFileChange, TypeOK
  <2>3. pc' \in [Appliers -> Stages] /\ job' \in [Appliers -> Job] /\ Timed'
    BY <1>1, <1>2, <1>3, <1>4, <1>8, <2>1, <2>2, GoesOn DEF CheckFileChange
  <2>4. QED
    BY <1>2, <1>8, <2>3 DEF CheckFileChange, TypedInv, TypeOK
<1>9. QED
  BY <1>1, <1>5, <1>6, <1>7, <1>8

LEMMA RenewTyped ==
  ASSUME TypeOK, NEW c \in Caches, Renew(c)
  PROVE  /\ cached' \in Numbers \cup {None}
         /\ request' \in [Requests -> Request]
         /\ met' \subseteq {"overlap", "blur", "cross", "missed", "straddle"}
BY DEF TypeOK, Renew, Request

LEMMA ApplyTyped ==
  ASSUME NEW t \in Appliers
  PROVE  TypedInv /\ Apply(t) => TypedInv'
<1>1. SUFFICES ASSUME TypedInv, Apply(t) PROVE TypedInv'
  OBVIOUS
<1>2. TypeOK /\ job[t] \in Job /\ job[t].of \in Content /\ job[t].time <= clock
  BY <1>1 DEF TypedInv, Timed, TypeOK, Job
<1>3. NoJob \in Job /\ NoJob.time <= clock
  BY <1>2, NoJobIsJob, ReloadAssumption DEF TypeOK
<1>4. {"idle", "rules", "dates", "settings", "clients", "filters"} \subseteq Stages \ {"temp"}
  BY DEF Stages, Applying
<1>5. CASE Load(t)
  <2>1. [job[t] EXCEPT !.of = file] \in Job /\ [job[t] EXCEPT !.of = file].time <= clock
    BY <1>2 DEF TypeOK, Job
  <2>2. pc' \in [Appliers -> Stages] /\ job' \in [Appliers -> Job] /\ Timed' /\ lastMod' = lastMod
    <3>1. CASE Rejected(t)
      BY <1>1, <1>3, <1>4, <1>5, <3>1, GoesOn DEF Load, Rejected
    <3>2. CASE /\ pc' = [pc EXCEPT ![t] = "rules"]
               /\ job' = [job EXCEPT ![t].of = file]
               /\ lastMod' = lastMod
      <4>1. job' = [job EXCEPT ![t] = [job[t] EXCEPT !.of = file]]
        BY <1>2, <3>2 DEF TypeOK
      <4>2. QED
        BY <1>1, <1>4, <1>5, <2>1, <3>2, <4>1, GoesOn DEF Load
    <3>3. QED
      BY <1>5, <3>1, <3>2 DEF Load
  <2>3. met' \subseteq {"overlap", "blur", "cross", "missed", "straddle"}
    BY <1>2, <1>5 DEF Load, TypeOK
  <2>4. QED
    BY <1>2, <1>5, <2>2, <2>3 DEF Load, TypedInv, TypeOK
<1>6. CASE SetCustom(t)
  <2>1. pc' \in [Appliers -> Stages] /\ job' \in [Appliers -> Job] /\ Timed' /\ lastMod' = lastMod
    BY <1>1, <1>2, <1>3, <1>4, <1>6, GoesOn DEF SetCustom, Rejected
  <2>2. live' \in [Places -> Content]
    BY <1>2, <1>6 DEF SetCustom, TypeOK
  <2>3. QED
    BY <1>2, <1>6, <2>1, <2>2 DEF SetCustom, TypedInv, TypeOK
<1>7. CASE SetMode(t)
  <2>1. pc' \in [Appliers -> Stages] /\ job' \in [Appliers -> Job] /\ Timed'
    BY <1>1, <1>2, <1>4, <1>7, GoesOn DEF SetMode
  <2>2. live' \in [Places -> Content]
    BY <1>2, <1>7 DEF SetMode, TypeOK
  <2>3. QED
    BY <1>2, <1>7, <2>1, <2>2 DEF SetMode, TypedInv, TypeOK
<1>8. CASE SetConfig(t)
  <2>1. pc' \in [Appliers -> Stages] /\ job' \in [Appliers -> Job] /\ Timed'
    BY <1>1, <1>2, <1>4, <1>8, GoesOn DEF SetConfig
  <2>2. live' \in [Places -> Content]
    BY <1>2, <1>8 DEF SetConfig, TypeOK
  <2>3. QED
    BY <1>2, <1>8, <2>1, <2>2 DEF SetConfig, TypedInv, TypeOK
<1>9. CASE ResetClients(t)
  <2>1. pc' \in [Appliers -> Stages] /\ job' \in [Appliers -> Job] /\ Timed'
    BY <1>1, <1>2, <1>4, <1>9, GoesOn DEF ResetClients
  <2>2. QED
    BY <1>2, <1>9, <2>1, RenewTyped DEF ResetClients, Caches, TypedInv, TypeOK
<1>10. CASE ResetFilters(t)
  <2>1. pc' \in [Appliers -> Stages] /\ job' \in [Appliers -> Job] /\ Timed'
    BY <1>1, <1>3, <1>4, <1>10, GoesOn DEF ResetFilters
  <2>2. lastMod' \in 0..clock'
    <3>1. job[t].time \in Nat /\ job[t].time <= clock /\ clock \in Nat
      BY <1>2, JobTimes, ReloadAssumption DEF TypeOK
    <3>2. job[t].time \in 0..clock /\ lastMod \in 0..clock
      BY <1>2, <3>1 DEF TypeOK
    <3>3. QED
      BY <1>10, <3>2 DEF ResetFilters
  <2>3. QED
    BY <1>2, <1>10, <2>1, <2>2, RenewTyped DEF ResetFilters, Caches, TypedInv, TypeOK
<1>11. QED
  BY <1>1, <1>5, <1>6, <1>7, <1>8, <1>9, <1>10 DEF Apply

LEMMA ServeTyped ==
  ASSUME NEW r \in Requests
  PROVE  TypedInv /\ Serve(r) => TypedInv'
<1>1. SUFFICES ASSUME TypedInv, Serve(r) PROVE TypedInv'
  OBVIOUS
<1>2. TypeOK /\ request[r] \in Request /\ \A p \in Places : live[p].id \in Numbers
  BY <1>1 DEF TypedInv, TypeOK, Content
<1>3. UNCHANGED Others
  BY <1>1 DEF Serve, TakeConfig, DetectDates, DetectCustom, LookInMap, BuildAndStore
<1>4. Mixed(r, live["dates"].id) \in BOOLEAN /\ Mixed(r, live["rules"].id) \in BOOLEAN /\ Mixed(r, cached) \in BOOLEAN
  BY DEF Mixed
<1>5. ASSUME NEW q \in Request, request' = [request EXCEPT ![r] = q]
      PROVE  request' \in [Requests -> Request]
  BY <1>2, <1>5 DEF TypeOK
<1>6. request' \in [Requests -> Request] /\ cached' \in Numbers \cup {None} /\ quiet' \subseteq Requests
  <2>1. CASE TakeConfig(r)
    <3>1. [NoRequest EXCEPT !.at = "dates", !.settings = live["settings"].id] \in Request
      BY <1>2, NoRequestIsRequest DEF Request, Places
    <3>2. QED
      BY <1>2, <1>5, <2>1, <3>1 DEF TakeConfig, TypeOK
  <2>2. CASE DetectDates(r)
    BY <1>2, <1>4, <2>2 DEF DetectDates, TypeOK, Request
  <2>3. CASE DetectCustom(r)
    BY <1>2, <1>4, <2>3 DEF DetectCustom, TypeOK, Request
  <2>4. CASE LookInMap(r)
    <3>1. /\ [request[r] EXCEPT !.at = "build", !.current = TRUE] \in Request
          /\ [NoRequest EXCEPT !.mixed = Mixed(r, cached)] \in Request
      BY <1>2, <1>4, NoRequestIsRequest DEF Request
    <3>2. QED
      BY <1>2, <1>5, <2>4, <3>1 DEF LookInMap, TypeOK
  <2>5. CASE BuildAndStore(r)
    <3>1. [NoRequest EXCEPT !.mixed = request[r].mixed] \in Request /\ request[r].settings \in Numbers
      BY <1>2, NoRequestIsRequest DEF Request
    <3>2. QED
      BY <1>2, <1>5, <2>5, <3>1 DEF BuildAndStore, TypeOK
  <2>6. QED
    BY <1>1, <2>1, <2>2, <2>3, <2>4, <2>5 DEF Serve
<1>7. TypeOK'
  BY <1>2, <1>3, <1>6 DEF Others, TypeOK
<1>8. Timed'
  <2>1. Drafts' = Drafts /\ turns' = turns /\ clock' = clock /\ job' = job
    BY <1>3 DEF Others, Drafts
  <2>2. QED
    BY <1>1, <2>1 DEF TypedInv, Timed
<1>9. QED
  BY <1>7, <1>8 DEF TypedInv

LEMMA NextTyped == TypedInv /\ [Next]_vars => TypedInv'
<1>1. SUFFICES ASSUME TypedInv, [Next]_vars PROVE TypedInv'
  OBVIOUS
<1>2. CASE HandEdit \/ Wire \/ FirstStat \/ TakeSignal \/ CheckFileChange
  BY <1>1, <1>2, HandEditTyped, WatchingTyped
<1>3. ASSUME NEW a \in Admins, Edit(a)
      PROVE  TypedInv'
  BY <1>1, <1>3, ReadAndEditTyped, WriteTempTyped, RenameTyped DEF Edit
<1>4. ASSUME NEW t \in Appliers, Apply(t)
      PROVE  TypedInv'
  BY <1>1, <1>4, ApplyTyped
<1>5. ASSUME NEW r \in Requests, Serve(r)
      PROVE  TypedInv'
  BY <1>1, <1>5, ServeTyped
<1>6. CASE UNCHANGED vars
  BY <1>1, <1>6 DEF vars, TypedInv, TypeOK, Timed, Drafts
<1>7. QED
  BY <1>1, <1>2, <1>3, <1>4, <1>5, <1>6 DEF Next

\* The state of files, appliers and requests keeps its types, and no time noted
\* anywhere is ahead of the clock.
THEOREM ReloadIsTyped == Spec => []TypeOK
<1>1. TypedInv => TypeOK
  BY DEF TypedInv
<1>2. QED
  BY <1>1, InitTyped, NextTyped, PTL DEF Spec

-----------------------------------------------------------------------------
(* Settings are applied whole, and only sound ones.                         *)

LEMMA InitWhole == Init => WholeInv
<1>1. SUFFICES ASSUME Init PROVE WholeInv
  OBVIOUS
<1>2. TypedInv
  BY <1>1, InitTyped
<1>3. \A t \in Appliers : pc[t] \in {"boot", "idle"}
  BY <1>1 DEF Init
<1>4. First.fault = "none"
  BY DEF First
<1>5. QED
  BY <1>1, <1>2, <1>3, <1>4
     DEF Init, WholeInv, Checked, OnlySoundSettings, OneByOne, Past, Busy, Applying, Places

\* A step that leaves the places alone, and those who are applying something.
LEMMA AsideWhole ==
  ASSUME WholeInv, TypedInv', live' = live, "overlap" \in met => "overlap" \in met',
         \A t \in Appliers :
           \/ pc'[t] = pc[t] /\ job'[t].of = job[t].of
           \/ /\ ~Past(t) /\ ~Past(t)'
              /\ pc'[t] \in {"temp", "rename"} => job'[t].of.fault # "parse"
  PROVE  WholeInv'
<1>1. Checked'
  BY DEF WholeInv, Checked, Past, Busy, Applying
<1>2. OnlySoundSettings'
  BY DEF WholeInv, OnlySoundSettings
<1>3. \A t \in Appliers : /\ Past(t)' <=> Past(t)
                          /\ Past(t) => (Halfway(t)' <=> Halfway(t))
  BY DEF Past, Busy, Halfway
<1>4. OneByOne'
  BY <1>3 DEF WholeInv, OneByOne
<1>5. QED
  BY <1>1, <1>2, <1>4 DEF WholeInv

\* A step of the one who is applying something.
LEMMA MoverWhole ==
  ASSUME WholeInv, TypedInv', met \subseteq met', NEW t \in Appliers, Past(t),
         \A u \in Appliers \ {t} : pc'[u] = pc[u] /\ job'[u].of = job[u].of,
         \A p \in Places : live'[p].fault = "none",
         pc'[t] = "idle" \/ (Past(t)' /\ pc'[t] # "rules" /\ job'[t].of.fault = "none"),
         "overlap" \notin met /\ Halfway(t) =>
           IF Past(t)' THEN Halfway(t)'
           ELSE live'["rules"] = live'["settings"] /\ live'["dates"] = live'["settings"]
  PROVE  WholeInv'
<1>1. Checked'
  BY DEF WholeInv, Checked, Past, Busy, Applying
<1>2. OnlySoundSettings'
  BY DEF OnlySoundSettings
<1>3. OneByOne'
  <2>1. SUFFICES ASSUME "overlap" \notin met' PROVE
            /\ \A u, v \in Appliers : Past(u)' /\ Past(v)' => u = v
            /\ \A u \in Appliers : Past(u)' => Halfway(u)'
            /\ (\A u \in Appliers : ~Past(u)') =>
                 live'["rules"] = live'["settings"] /\ live'["dates"] = live'["settings"]
    BY DEF OneByOne
  <2>2. "overlap" \notin met /\ Halfway(t) /\ \A u \in Appliers \ {t} : ~Past(u)
    BY <2>1 DEF WholeInv, OneByOne
  <2>3. \A u \in Appliers \ {t} : ~Past(u)'
    BY <2>2 DEF Past, Busy
  <2>4. QED
    BY <2>2, <2>3
<1>4. QED
  BY <1>1, <1>2, <1>3 DEF WholeInv

LEMMA EditWhole ==
  ASSUME WholeInv, TypedInv', NEW a \in Admins, Edit(a)
  PROVE  WholeInv'
<1>1. TypeOK /\ TypeOK' /\ a \in Appliers
  BY DEF WholeInv, TypedInv, Appliers
<1>2. \A u \in Appliers \ {a} : pc'[u] = pc[u] /\ job'[u] = job[u]
  BY <1>1 DEF Edit, ReadAndEdit, WriteTemp, Rename, TypeOK
<1>3. live' = live /\ met \subseteq met'
  BY DEF Edit, ReadAndEdit, WriteTemp, Rename
<1>4. \/ pc'[a] = pc[a] /\ job'[a].of = job[a].of
      \/ /\ ~Past(a) /\ ~Past(a)'
         /\ pc'[a] \in {"temp", "rename"} => job'[a].of.fault # "parse"
  <2>1. CASE ReadAndEdit(a)
    <3>1. PICK p \in Parts, fault \in {file.fault, "none"} :
            LET new == [id |-> turns + 1, parts |-> [file.parts EXCEPT ![p] = turns + 1], fault |-> fault]
            IN  \/ pc' = pc
                \/ /\ fault # "parse"
                   /\ job' = [job EXCEPT ![a] = [NoJob EXCEPT !.of = new, !.part = p, !.edit = turns + 1]]
                   /\ pc' = [pc EXCEPT ![a] = "temp"]
      BY <2>1 DEF ReadAndEdit
    <3> DEFINE new == [id |-> turns + 1, parts |-> [file.parts EXCEPT ![p] = turns + 1], fault |-> fault]
    <3>2. pc[a] = "idle" /\ new.fault = fault
      BY <2>1 DEF ReadAndEdit
    <3> HIDE DEF new
    <3>3. [NoJob EXCEPT !.of = new, !.part = p, !.edit = turns + 1].of = new
      BY NoJobIsJob DEF Job
    <3>4. CASE pc' = pc
      BY <3>2, <3>4 DEF Past, Busy, Applying
    <3>5. CASE /\ fault # "parse"
               /\ job' = [job EXCEPT ![a] = [NoJob EXCEPT !.of = new, !.part = p, !.edit = turns + 1]]
               /\ pc' = [pc EXCEPT ![a] = "temp"]
      <4>1. job'[a].of = new /\ pc'[a] = "temp"
        BY <1>1, <3>3, <3>5 DEF TypeOK
      <4>2. QED
        BY <3>2, <3>5, <4>1 DEF Past, Busy, Applying
    <3>6. QED
      BY <3>1, <3>4, <3>5 DEF new
  <2>2. CASE WriteTemp(a)
    <3>1. pc[a] = "temp" /\ job[a].of.fault # "parse"
      BY <1>1, <2>2 DEF WriteTemp, WholeInv, Checked
    <3>2. pc'[a] = "idle" \/ (pc'[a] = "rename" /\ job'[a].of = job[a].of)
      BY <1>1, <2>2 DEF WriteTemp, TypeOK, Job
    <3>3. QED
      BY <3>1, <3>2 DEF Past, Busy, Applying
  <2>3. CASE Rename(a)
    BY <1>1, <2>3 DEF Rename, TypeOK, Past, Busy, Applying
  <2>4. QED
    BY <2>1, <2>2, <2>3 DEF Edit
<1>5. QED
  BY <1>2, <1>3, <1>4, AsideWhole

LEMMA WatchingWhole ==
  ASSUME WholeInv, TypedInv', HandEdit \/ Wire \/ FirstStat \/ TakeSignal \/ CheckFileChange
  PROVE  WholeInv'
<1>1. TypeOK /\ Watcher \in Appliers
  BY DEF WholeInv, TypedInv, Appliers
<1>2. live' = live /\ met \subseteq met'
  BY DEF HandEdit, Stamp, Wire, FirstStat, TakeSignal, CheckFileChange
<1>3. CASE HandEdit
  BY <1>2, <1>3, AsideWhole DEF HandEdit
<1>4. CASE Wire \/ FirstStat \/ TakeSignal \/ CheckFileChange
  <2>1. \A u \in Appliers \ {Watcher} : pc'[u] = pc[u] /\ job'[u] = job[u]
    BY <1>1, <1>4 DEF Wire, FirstStat, TakeSignal, CheckFileChange, TypeOK
  <2>2. ~Past(Watcher) /\ ~Past(Watcher)' /\ pc'[Watcher] \notin {"temp", "rename"}
    BY <1>1, <1>4 DEF Wire, FirstStat, TakeSignal, CheckFileChange, TypeOK, Past, Busy, Applying
  <2>3. QED
    BY <1>2, <2>1, <2>2, AsideWhole
<1>5. QED
  BY <1>3, <1>4

LEMMA LoadWhole ==
  ASSUME WholeInv, TypedInv', NEW t \in Appliers, Load(t)
  PROVE  WholeInv'
<1>1. TypeOK /\ pc[t] = "load" /\ live' = live /\ met \subseteq met'
  BY DEF WholeInv, TypedInv, Load
<1>2. \A u \in Appliers \ {t} : pc'[u] = pc[u] /\ job'[u] = job[u]
  BY <1>1 DEF Load, Rejected, TypeOK
<1>3. CASE pc'[t] = "idle"
  BY <1>1, <1>2, <1>3, AsideWhole DEF Past, Busy, Applying
<1>4. CASE pc'[t] = "rules" /\ job'[t].of = file /\ file.fault # "parse"
  <2>1. Checked' /\ OnlySoundSettings'
    BY <1>1, <1>2, <1>4 DEF WholeInv, Checked, OnlySoundSettings
  <2>2. OneByOne'
    <3>1. SUFFICES ASSUME "overlap" \notin met' PROVE
              /\ \A u, v \in Appliers : Past(u)' /\ Past(v)' => u = v
              /\ \A u \in Appliers : Past(u)' => Halfway(u)'
              /\ (\A u \in Appliers : ~Past(u)') =>
                   live'["rules"] = live'["settings"] /\ live'["dates"] = live'["settings"]
      BY DEF OneByOne
    <3>2. \A u \in Appliers \ {t} : ~Past(u)
      BY <1>1, <3>1 DEF Load, Past
    <3>3. ~Past(t) /\ "overlap" \notin met /\ Past(t)'
      BY <1>1, <1>4, <3>1 DEF Past, Busy, Applying
    <3>4. live["rules"] = live["settings"] /\ live["dates"] = live["settings"]
      BY <3>2, <3>3 DEF WholeInv, OneByOne
    <3>5. \A u \in Appliers \ {t} : ~Past(u)'
      BY <1>2, <3>2 DEF Past, Busy
    <3>6. Halfway(t)'
      BY <1>1, <1>4, <3>4 DEF Halfway
    <3>7. QED
      BY <3>3, <3>5, <3>6
  <2>3. QED
    BY <2>1, <2>2 DEF WholeInv
<1>5. QED
  BY <1>1, <1>3, <1>4 DEF Load, Rejected, TypeOK, Job

LEMMA SetWhole ==
  ASSUME WholeInv, TypedInv', NEW t \in Appliers,
         SetCustom(t) \/ SetMode(t) \/ SetConfig(t) \/ ResetClients(t) \/ ResetFilters(t)
  PROVE  WholeInv'
<1>1. TypeOK /\ job[t].of \in Content /\ live \in [Places -> Content]
  BY DEF WholeInv, TypedInv, TypeOK, Job
<1>2. \A u \in Appliers \ {t} : pc'[u] = pc[u] /\ job'[u] = job[u]
  BY <1>1 DEF SetCustom, Rejected, SetMode, SetConfig, ResetClients, ResetFilters, TypeOK
<1>3. met \subseteq met'
  BY DEF SetCustom, SetMode, SetConfig, ResetClients, ResetFilters, Renew
<1>4. Past(t)
  BY DEF Past, Busy, Applying, SetCustom, SetMode, SetConfig, ResetClients, ResetFilters
<1>5. \A p \in Places : live[p].fault = "none"
  BY DEF WholeInv, OnlySoundSettings
<1>6. CASE SetCustom(t) /\ pc'[t] = "idle"
  <2>1. live' = live /\ pc[t] = "rules"
    BY <1>1, <1>6 DEF SetCustom, TypeOK
  <2>2. "overlap" \notin met /\ Halfway(t) =>
          live'["rules"] = live'["settings"] /\ live'["dates"] = live'["settings"]
    BY <2>1 DEF Halfway
  <2>3. ~Past(t)'
    BY <1>6 DEF Past, Busy, Applying
  <2>4. QED
    BY <1>2, <1>3, <1>4, <1>5, <1>6, <2>1, <2>2, <2>3, MoverWhole
<1>7. CASE SetCustom(t) /\ pc'[t] # "idle"
  <2>1. /\ job[t].of.fault # "rules" /\ pc[t] = "rules" /\ pc'[t] = "dates" /\ job' = job
        /\ live' = [live EXCEPT !["rules"] = job[t].of]
    BY <1>1, <1>7 DEF SetCustom, Rejected, TypeOK
  <2>2. job[t].of.fault = "none"
    BY <1>1, <2>1 DEF WholeInv, Checked, Content, Faults
  <2>3. \A p \in Places : live'[p].fault = "none"
    BY <1>1, <1>5, <2>1, <2>2
  <2>4. Past(t)' /\ (Halfway(t) => Halfway(t)')
    BY <1>1, <2>1 DEF Past, Busy, Applying, Halfway, Places
  <2>5. QED
    BY <1>2, <1>3, <1>4, <2>1, <2>2, <2>3, <2>4, MoverWhole
<1>8. CASE SetMode(t)
  <2>1. /\ pc[t] = "dates" /\ pc'[t] = "settings" /\ job' = job
        /\ live' = [live EXCEPT !["dates"] = job[t].of]
    BY <1>1, <1>8 DEF SetMode, TypeOK
  <2>2. job[t].of.fault = "none"
    BY <2>1 DEF WholeInv, Checked
  <2>3. \A p \in Places : live'[p].fault = "none"
    BY <1>1, <1>5, <2>1, <2>2
  <2>4. Past(t)' /\ (Halfway(t) => Halfway(t)')
    BY <1>1, <2>1 DEF Past, Busy, Applying, Halfway, Places
  <2>5. QED
    BY <1>2, <1>3, <1>4, <2>1, <2>2, <2>3, <2>4, MoverWhole
<1>9. CASE SetConfig(t)
  <2>1. /\ pc[t] = "settings" /\ pc'[t] = "clients" /\ job' = job
        /\ live' = [live EXCEPT !["settings"] = job[t].of]
    BY <1>1, <1>9 DEF SetConfig, TypeOK
  <2>2. job[t].of.fault = "none"
    BY <2>1 DEF WholeInv, Checked
  <2>3. \A p \in Places : live'[p].fault = "none"
    BY <1>1, <1>5, <2>1, <2>2
  <2>4. Past(t)' /\ (Halfway(t) => Halfway(t)')
    BY <1>1, <2>1 DEF Past, Busy, Applying, Halfway, Places
  <2>5. QED
    BY <1>2, <1>3, <1>4, <2>1, <2>2, <2>3, <2>4, MoverWhole
<1>10. CASE ResetClients(t)
  <2>1. pc[t] = "clients" /\ pc'[t] = "filters" /\ job' = job /\ live' = live
    BY <1>1, <1>10 DEF ResetClients, TypeOK
  <2>2. job[t].of.fault = "none"
    BY <2>1 DEF WholeInv, Checked
  <2>3. Past(t)' /\ (Halfway(t) => Halfway(t)')
    BY <2>1 DEF Past, Busy, Applying, Halfway
  <2>4. QED
    BY <1>2, <1>3, <1>4, <1>5, <2>1, <2>2, <2>3, MoverWhole
<1>11. CASE ResetFilters(t)
  <2>1. pc[t] = "filters" /\ pc'[t] = "idle" /\ live' = live
    BY <1>1, <1>11 DEF ResetFilters, TypeOK
  <2>2. ~Past(t)' /\ (Halfway(t) => live["rules"] = live["settings"] /\ live["dates"] = live["settings"])
    BY <2>1 DEF Past, Busy, Applying, Halfway
  <2>3. QED
    BY <1>2, <1>3, <1>4, <1>5, <2>1, <2>2, MoverWhole
<1>12. QED
  BY <1>6, <1>7, <1>8, <1>9, <1>10, <1>11

LEMMA NextWhole == WholeInv /\ [Next]_vars => WholeInv'
<1>1. SUFFICES ASSUME WholeInv, [Next]_vars PROVE WholeInv'
  OBVIOUS
<1>2. TypedInv'
  BY <1>1, NextTyped DEF WholeInv
<1>3. CASE HandEdit \/ Wire \/ FirstStat \/ TakeSignal \/ CheckFileChange
  BY <1>1, <1>2, <1>3, WatchingWhole
<1>4. ASSUME NEW a \in Admins, Edit(a)
      PROVE  WholeInv'
  BY <1>1, <1>2, <1>4, EditWhole
<1>5. ASSUME NEW t \in Appliers, Apply(t)
      PROVE  WholeInv'
  BY <1>1, <1>2, <1>5, LoadWhole, SetWhole DEF Apply
<1>6. CASE (\E r \in Requests : Serve(r)) \/ UNCHANGED vars
  <2>1. live' = live /\ met' = met /\ pc' = pc /\ job' = job
    BY <1>6 DEF Serve, TakeConfig, DetectDates, DetectCustom, LookInMap, BuildAndStore, Others, vars
  <2>2. QED
    BY <1>1, <1>2, <2>1, AsideWhole
<1>7. QED
  BY <1>1, <1>3, <1>4, <1>5, <1>6 DEF Next

\* Nothing of a faulty file is ever in force, and between applications that have
\* not run at once the three places hold one content.
THEOREM SettingsAreWhole == Spec => []SettledWhole
<1>1. WholeInv => SettledWhole
  <2>1. SUFFICES ASSUME WholeInv, AtRest, "overlap" \notin met
                 PROVE  \A p, q \in Places : live[p] = live[q]
    BY DEF SettledWhole, WholeInv
  <2>2. \A t \in Appliers : ~Past(t)
    BY <2>1 DEF AtRest, Past
  <2>3. QED
    BY <2>1, <2>2 DEF WholeInv, OneByOne, Places
<1>2. QED
  BY <1>1, InitWhole, NextWhole, PTL DEF Spec

-----------------------------------------------------------------------------
(* Requests that no application has met.                                    *)

LEMMA InitQuiet == Init => QuietInv
<1>1. SUFFICES ASSUME Init PROVE QuietInv
  OBVIOUS
<1>2. WholeInv
  BY <1>1, InitWhole
<1>3. NoRequest.at = "idle"
  BY DEF NoRequest
<1>4. QED
  BY <1>1, <1>2, <1>3 DEF Init, QuietInv, MapFollows, Undisturbed

\* Whoever is renewing a map is applying something.
LEMMA RenewingIsPast == Renewing => \E t \in Appliers : Past(t)
BY DEF Renewing, Past, Busy, Applying

\* While somebody is applying something nobody is quiet.
LEMMA NobodyQuiet ==
  ASSUME QuietInv, NEW t \in Appliers, Past(t)
  PROVE  quiet = {}
BY DEF QuietInv, Undisturbed

\* A step that leaves requests and what they read alone, and takes no part in the
\* renewal of a map.
LEMMA AsideQuiet ==
  ASSUME QuietInv, WholeInv', UNCHANGED <<kind, cached, request>>, met \subseteq met',
         live'["settings"] = live["settings"],
         Renewing => Renewing',
         \/ quiet' = {}
         \/ quiet' = quiet /\ \A t \in Appliers : Past(t)' => Past(t)
  PROVE  QuietInv'
<1>1. MapFollows'
  BY DEF QuietInv, MapFollows
<1>2. Undisturbed'
  BY DEF QuietInv, Undisturbed
<1>3. QED
  BY <1>1, <1>2 DEF QuietInv

LEMMA OutsideQuiet ==
  ASSUME QuietInv, WholeInv',
         \/ HandEdit \/ Wire \/ FirstStat \/ TakeSignal \/ CheckFileChange
         \/ \E a \in Admins : Edit(a)
  PROVE  QuietInv'
<1>1. TypeOK
  BY DEF QuietInv, WholeInv, TypedInv
<1>2. UNCHANGED <<kind, cached, request, live, quiet>> /\ met \subseteq met'
  BY DEF HandEdit, Stamp, Wire, FirstStat, TakeSignal, CheckFileChange, Edit, ReadAndEdit, WriteTemp, Rename
<1>3. \A t \in Appliers : pc'[t] = pc[t] \/ (~Past(t) /\ ~Past(t)')
  BY <1>1 DEF HandEdit, Wire, FirstStat, TakeSignal, CheckFileChange, Edit, ReadAndEdit, WriteTemp,
       Rename, Past, Busy, Applying, TypeOK, Appliers
<1>4. (Renewing => Renewing') /\ \A t \in Appliers : Past(t)' => Past(t)
  BY <1>2, <1>3 DEF Renewing, Past, Busy, Applying
<1>5. QED
  BY <1>2, <1>4, AsideQuiet

LEMMA LoadQuiet ==
  ASSUME QuietInv, WholeInv', NEW t \in Appliers, Load(t)
  PROVE  QuietInv'
<1>1. TypeOK
  BY DEF QuietInv, WholeInv, TypedInv
<1>2. UNCHANGED <<kind, cached, request, live>> /\ met \subseteq met' /\ quiet' = {}
  BY DEF Load
<1>3. Renewing => Renewing'
  BY <1>1, <1>2 DEF Load, Rejected, Renewing, TypeOK
<1>4. QED
  BY <1>2, <1>3, AsideQuiet

LEMMA SetQuiet ==
  ASSUME QuietInv, WholeInv', NEW t \in Appliers, SetCustom(t) \/ SetMode(t) \/ SetConfig(t)
  PROVE  QuietInv'
<1>1. TypeOK /\ Past(t)
  BY DEF QuietInv, WholeInv, TypedInv, Past, Busy, Applying, SetCustom, SetMode, SetConfig
<1>2. UNCHANGED <<kind, cached, request, met>> /\ quiet' = {}
  BY <1>1, NobodyQuiet DEF SetCustom, SetMode, SetConfig
<1>3. CASE SetCustom(t) \/ SetMode(t)
  <2>1. live'["settings"] = live["settings"]
    BY <1>1, <1>3 DEF SetCustom, SetMode, TypeOK, Places
  <2>2. Renewing => Renewing'
    BY <1>1, <1>2, <1>3 DEF SetCustom, SetMode, Rejected, Renewing, TypeOK
  <2>3. QED
    BY <1>2, <2>1, <2>2, AsideQuiet
<1>4. CASE SetConfig(t)
  <2>1. Renewing'
    BY <1>1, <1>4 DEF SetConfig, Renewing, TypeOK
  <2>2. QED
    BY <1>2, <2>1 DEF QuietInv, MapFollows, Undisturbed
<1>5. QED
  BY <1>3, <1>4

\* The map of the behaviour is empty again, and what is still being built goes into
\* the old one.
LEMMA RenewedFollows ==
  ASSUME TypeOK, Renew(kind)
  PROVE  MapFollows'
<1>1. SUFFICES ASSUME "straddle" \notin met'
               PROVE  /\ cached' = None
                      /\ \A r \in Requests : /\ request'[r].at \notin {"dates", "rules", "look"}
                                             /\ ~request'[r].current
  BY DEF MapFollows
<1>2. \A r \in Requests : request'[r].at = request[r].at /\ request'[r].current = FALSE
  BY DEF Renew, TypeOK, Request
<1>3. QED
  BY <1>1, <1>2 DEF Renew

LEMMA ResetQuiet ==
  ASSUME QuietInv, WholeInv', NEW t \in Appliers, ResetClients(t) \/ ResetFilters(t)
  PROVE  QuietInv'
<1>1. TypeOK /\ Past(t)
  BY DEF QuietInv, WholeInv, TypedInv, Past, Busy, Applying, ResetClients, ResetFilters
<1>2. quiet' = {} /\ live' = live /\ kind' = kind /\ met \subseteq met'
  BY <1>1, NobodyQuiet DEF ResetClients, ResetFilters, Renew
<1>3. CASE Renew(kind)
  BY <1>1, <1>2, <1>3, RenewedFollows DEF QuietInv, Undisturbed
<1>4. CASE ~Renew(kind)
  <2>1. /\ cached' = cached /\ request' = request
        /\ \/ pc[t] = "clients" /\ kind = "filters" /\ pc' = [pc EXCEPT ![t] = "filters"]
           \/ pc[t] = "filters" /\ kind = "clients" /\ pc' = [pc EXCEPT ![t] = "idle"]
    BY <1>1, <1>4 DEF ResetClients, ResetFilters, Renew, TypeOK, Caches
  <2>2. Renewing => Renewing'
    BY <1>1, <1>2, <2>1 DEF Renewing, TypeOK
  <2>3. QED
    BY <1>2, <2>1, <2>2, AsideQuiet
<1>5. QED
  BY <1>3, <1>4

\* A step of one request.
LEMMA OneServed ==
  ASSUME Undisturbed, quiet \subseteq Requests, NEW r \in Requests,
         live' = live, met' = met, \A t \in Appliers : Past(t)' <=> Past(t),
         \A q \in Requests \ {r} : request'[q] = request[q],
         quiet' = quiet \/ (quiet' \subseteq quiet \cup {r} /\ (quiet' # {} => \A t \in Appliers : ~Past(t))),
         met \cap {"overlap", "straddle"} = {} /\ r \in quiet' =>
           /\ ~request'[r].mixed
           /\ request'[r].at # "idle" => request'[r].settings = live["settings"].id
  PROVE  Undisturbed'
<1>1. quiet' # {} => \A t \in Appliers : ~Past(t)'
  <2> HIDE DEF Past
  <2>1. QED
    BY DEF Undisturbed
<1>2. ASSUME met \cap {"overlap", "straddle"} = {}, NEW q \in quiet'
      PROVE  /\ ~request'[q].mixed
             /\ request'[q].at # "idle" => request'[q].settings = live["settings"].id
  <2>1. CASE q = r
    BY <1>2, <2>1
  <2>2. CASE q # r
    <3>1. q \in quiet /\ request'[q] = request[q]
      BY <1>2, <2>2
    <3>2. QED
      BY <1>2, <3>1 DEF Undisturbed
  <2>3. QED
    BY <2>1, <2>2
<1>3. QED
  BY <1>1, <1>2 DEF Undisturbed

LEMMA ServeQuiet ==
  ASSUME QuietInv, WholeInv', NEW r \in Requests, Serve(r)
  PROVE  QuietInv'
<1>1. TypeOK /\ request[r] \in Request /\ quiet \subseteq Requests /\ Undisturbed
  BY DEF QuietInv, WholeInv, TypedInv, TypeOK
<1>2. UNCHANGED Others /\ \A q \in Requests \ {r} : request'[q] = request[q]
  BY <1>1 DEF Serve, TakeConfig, DetectDates, DetectCustom, LookInMap, BuildAndStore, TypeOK
<1>3. /\ live' = live /\ met' = met
      /\ Renewing' <=> Renewing
      /\ \A t \in Appliers : Past(t)' <=> Past(t)
  BY <1>2 DEF Others, Renewing, Past, Busy
<1> DEFINE S == live["settings"].id
<1>4. ASSUME met \cap {"overlap", "straddle"} = {}, r \in quiet
      PROVE  /\ ~request[r].mixed
             /\ request[r].at # "idle" => request[r].settings = S
             /\ live["dates"].id = S /\ live["rules"].id = S
             /\ cached \in {None, S}
  BY <1>4, RenewingIsPast DEF QuietInv, WholeInv, OneByOne, MapFollows, Undisturbed
<1>5. CASE TakeConfig(r)
  <2>1. request'[r] = [NoRequest EXCEPT !.at = "dates", !.settings = S] /\ cached' = cached
    BY <1>1, <1>5 DEF TakeConfig, TypeOK
  <2>2. request'[r].at = "dates" /\ request'[r].settings = S /\ ~request'[r].mixed
    BY <2>1 DEF NoRequest
  <2>3. MapFollows'
    BY <1>2, <1>3, <2>1, <2>2 DEF QuietInv, MapFollows
  <2>4. quiet' # {} => \A t \in Appliers : ~Past(t)
    <3>1. CASE \E t \in Appliers : Past(t)
      <4>1. quiet' = quiet \ {r} /\ quiet = {}
        BY <1>5, <3>1, NobodyQuiet DEF TakeConfig, Past
      <4>2. QED
        BY <4>1
    <3>2. QED
      BY <3>1
  <2>5. quiet' \subseteq quiet \cup {r}
    BY <1>5 DEF TakeConfig
  <2>6. Undisturbed'
    BY <1>1, <1>2, <1>3, <2>2, <2>4, <2>5, OneServed
  <2>7. QED
    BY <2>3, <2>6 DEF QuietInv
<1>6. CASE DetectDates(r) \/ DetectCustom(r)
  <2>1. cached' = cached /\ quiet' = quiet /\ request'[r].settings = request[r].settings
    BY <1>1, <1>6 DEF DetectDates, DetectCustom, TypeOK, Request
  <2>2. /\ request[r].at \in {"dates", "rules"} /\ request'[r].at \in {"rules", "look"}
        /\ \E n \in {live["dates"].id, live["rules"].id} : request'[r].mixed = Mixed(r, n)
    BY <1>1, <1>6 DEF DetectDates, DetectCustom, TypeOK, Request
  <2>3. MapFollows'
    BY <1>2, <1>3, <2>1, <2>2 DEF QuietInv, MapFollows
  <2>4. met \cap {"overlap", "straddle"} = {} /\ r \in quiet => ~request'[r].mixed
    BY <1>4, <2>2 DEF Mixed
  <2>5. Undisturbed'
    BY <1>1, <1>2, <1>3, <1>4, <2>1, <2>2, <2>4, OneServed
  <2>6. QED
    BY <2>3, <2>5 DEF QuietInv
<1>7. CASE LookInMap(r)
  <2>1. cached' = cached /\ quiet' = quiet /\ request[r].at = "look"
    BY <1>7 DEF LookInMap
  <2>2. CASE cached = None
    <3>1. /\ request'[r].at = "build" /\ request'[r].settings = request[r].settings
          /\ request'[r].mixed = request[r].mixed
      BY <1>1, <1>7, <2>2 DEF LookInMap, TypeOK, Request
    <3>2. MapFollows'
      BY <1>2, <1>3, <2>1, <3>1 DEF QuietInv, MapFollows
    <3>3. Undisturbed'
      BY <1>1, <1>2, <1>3, <1>4, <2>1, <3>1, OneServed
    <3>4. QED
      BY <3>2, <3>3 DEF QuietInv
  <2>3. CASE cached # None
    <3>1. request'[r] = [NoRequest EXCEPT !.mixed = Mixed(r, cached)]
      BY <1>1, <1>7, <2>3 DEF LookInMap, TypeOK
    <3>2. request'[r].at = "idle" /\ request'[r].mixed = Mixed(r, cached)
      BY <3>1 DEF NoRequest
    <3>3. met \cap {"overlap", "straddle"} = {} /\ r \in quiet => ~request'[r].mixed
      BY <1>4, <2>1, <2>3, <3>2 DEF Mixed
    <3>4. MapFollows'
      BY <1>2, <1>3, <2>1, <3>2 DEF QuietInv, MapFollows
    <3>5. Undisturbed'
      BY <1>1, <1>2, <1>3, <2>1, <3>2, <3>3, OneServed
    <3>6. QED
      BY <3>4, <3>5 DEF QuietInv
  <2>4. QED
    BY <2>2, <2>3
<1>8. CASE BuildAndStore(r)
  <2>1. /\ quiet' = quiet /\ request[r].at = "build"
        /\ cached' = IF request[r].current THEN request[r].settings ELSE cached
        /\ request'[r] = [NoRequest EXCEPT !.mixed = request[r].mixed]
    BY <1>1, <1>8 DEF BuildAndStore, TypeOK
  <2>2. request'[r].at = "idle" /\ request'[r].mixed = request[r].mixed
    BY <2>1 DEF NoRequest
  <2>3. MapFollows'
    BY <1>2, <1>3, <2>1, <2>2 DEF QuietInv, MapFollows
  <2>4. Undisturbed'
    BY <1>1, <1>2, <1>3, <1>4, <2>1, <2>2, OneServed
  <2>5. QED
    BY <2>3, <2>4 DEF QuietInv
<1>9. QED
  BY <1>5, <1>6, <1>7, <1>8 DEF Serve

LEMMA NextQuiet == QuietInv /\ [Next]_vars => QuietInv'
<1>1. SUFFICES ASSUME QuietInv, [Next]_vars PROVE QuietInv'
  OBVIOUS
<1>2. WholeInv'
  BY <1>1, NextWhole DEF QuietInv
<1>3. CASE \/ HandEdit \/ Wire \/ FirstStat \/ TakeSignal \/ CheckFileChange
           \/ \E a \in Admins : Edit(a)
  BY <1>1, <1>2, <1>3, OutsideQuiet
<1>4. ASSUME NEW t \in Appliers, Apply(t)
      PROVE  QuietInv'
  BY <1>1, <1>2, <1>4, LoadQuiet, SetQuiet, ResetQuiet DEF Apply
<1>5. ASSUME NEW r \in Requests, Serve(r)
      PROVE  QuietInv'
  BY <1>1, <1>2, <1>5, ServeQuiet
<1>6. CASE UNCHANGED vars
  <2>1. UNCHANGED <<kind, cached, request, met, live, quiet, pc>>
    BY <1>6 DEF vars
  <2>2. (Renewing' <=> Renewing) /\ \A t \in Appliers : Past(t)' => Past(t)
    BY <2>1 DEF Renewing, Past, Busy
  <2>3. QED
    BY <1>1, <1>2, <2>1, <2>2, AsideQuiet
<1>7. QED
  BY <1>1, <1>3, <1>4, <1>5, <1>6 DEF Next

\* A request that no application has met has worked by one content alone, the kept
\* filter or client included, but for the accidents that are recorded.
THEOREM QuietRequestsSeeOneContent == Spec => []QuietRequestsAgree
<1>1. QuietInv => QuietRequestsAgree
  BY DEF QuietInv, Undisturbed, QuietRequestsAgree
<1>2. QED
  BY <1>1, InitQuiet, NextQuiet, PTL DEF Spec

-----------------------------------------------------------------------------
(* Edits keep their word.                                                   *)

\* The numbers the file and the jobs are made of.
LEMMA PartNumbers ==
  ASSUME TypeOK
  PROVE  /\ turns \in Nat
         /\ \A p \in Parts : file.parts[p] \in Nat
         /\ \A t \in Appliers : /\ job[t].part \in Parts /\ job[t].edit \in Nat
                                /\ \A p \in Parts : job[t].of.parts[p] \in Nat
<1>1. file \in Content /\ turns \in Nat /\ \A t \in Appliers : job[t] \in Job
  BY ReloadAssumption DEF TypeOK
<1>2. \A c \in Content : \A p \in Parts : c.parts[p] \in Nat
  BY ReloadAssumption DEF Content, Numbers
<1>3. \A j \in Job : j.part \in Parts /\ j.edit \in Nat /\ j.of \in Content
  BY ReloadAssumption DEF Job, Numbers
<1>4. QED
  BY <1>1, <1>2, <1>3

LEMMA NoJobNumbers == NoJob.edit = 0 /\ \A p \in Parts : NoJob.of.parts[p] = 0
<1>1. NoJob.of = First
  BY DEF NoJob
<1>2. QED
  BY <1>1, NoJobIsJob DEF First

LEMMA InitEdit == Init => EditInv
<1>1. SUFFICES ASSUME Init PROVE EditInv
  OBVIOUS
<1>2. WholeInv
  BY <1>1, InitWhole
<1>3. \A t \in Appliers : pc[t] \in {"boot", "idle"} /\ job[t] = NoJob
  BY <1>1 DEF Init
<1>4. file.parts = last /\ turns = 0 /\ \A p \in Parts : file.parts[p] = 0
  BY <1>1 DEF Init, First
<1>5. \A a \in Admins : Drafted(a) /\ Carried(a)
  BY <1>3 DEF Drafted, Carried, Past, Busy, Applying, Appliers
<1>6. QED
  BY <1>2, <1>3, <1>4, <1>5, NoJobNumbers DEF EditInv, Kept

\* Another step leaves the content of job u at most as it was, or clears it.
SameContent(u) ==
  \/ job'[u].of = job[u].of /\ job'[u].part = job[u].part /\ job'[u].edit = job[u].edit
  \/ job'[u] = NoJob

\* A step that leaves the file alone and brings nobody nearer to it.
LEMMA AsideEdit ==
  ASSUME EditInv, TypeOK, WholeInv', UNCHANGED <<file, last>>, turns' \in {turns, turns + 1}, met \subseteq met',
         \A u \in Appliers : SameContent(u),
         \A a \in Admins : \/ pc'[a] \in {"idle", "boot", "wired"}
                           \/ /\ job'[a] # NoJob \/ job[a] = NoJob
                              /\ pc[a] \in {"temp", "rename"} /\ pc'[a] \in {"temp", "rename"}
                           \/ /\ job'[a] # NoJob \/ job[a] = NoJob
                              /\ pc'[a] = pc[a] \/ (Past(a) /\ Past(a)')
  PROVE  EditInv'
<1>1. Kept
  BY DEF EditInv
<1>2. /\ \A p \in Parts : file'.parts[p] <= turns'
      /\ \A t \in Appliers : job'[t].edit <= turns' /\ \A p \in Parts : job'[t].of.parts[p] <= turns'
  BY <1>1, PartNumbers, NoJobNumbers DEF Kept, SameContent
<1>3. ASSUME NEW a \in Admins, Drafted(a), Carried(a)
      PROVE  Drafted(a)' /\ Carried(a)'
  <2>1. CASE pc'[a] \in {"idle", "boot", "wired"}
    BY <2>1 DEF Drafted, Carried, Past, Busy, Applying
  <2>2. CASE /\ job'[a].of = job[a].of /\ job'[a].part = job[a].part /\ job'[a].edit = job[a].edit
             /\ \/ pc[a] \in {"temp", "rename"} /\ pc'[a] \in {"temp", "rename"}
                \/ pc'[a] = pc[a] \/ (Past(a) /\ Past(a)')
    BY <1>3, <2>2 DEF Drafted, Carried, Past, Busy, Applying
  <2>3. QED
    BY <2>1, <2>2 DEF SameContent, Appliers
<1>4. "cross" \notin met' => file'.parts = last' /\ \A a \in Admins : Drafted(a)' /\ Carried(a)'
  BY <1>1, <1>3 DEF Kept
<1>5. QED
  BY <1>2, <1>4 DEF EditInv, Kept

LEMMA HandEditEdit ==
  ASSUME EditInv, WholeInv', HandEdit
  PROVE  EditInv'
<1>1. TypeOK /\ Kept
  BY DEF EditInv, WholeInv, TypedInv
<1>2. PICK p \in Parts, fault \in Faults \cup {"none"} :
        /\ file' = [id |-> turns + 1, parts |-> [file.parts EXCEPT ![p] = turns + 1], fault |-> fault]
        /\ last' = [last EXCEPT ![p] = turns + 1]
  BY DEF HandEdit
<1>a. file'.parts = [file.parts EXCEPT ![p] = turns + 1]
  BY <1>2
<1>3. /\ turns' = turns + 1 /\ pc' = pc /\ job' = job /\ met \subseteq met'
      /\ "cross" \notin met' => \A a \in Admins : pc[a] \notin {"temp", "rename"}
  BY DEF HandEdit, Stamp
<1>4. file.parts \in [Parts -> Numbers]
  BY <1>1 DEF TypeOK, Content
<1>5. /\ \A q \in Parts : file'.parts[q] <= turns'
      /\ \A t \in Appliers : job'[t].edit <= turns' /\ \A q \in Parts : job'[t].of.parts[q] <= turns'
  BY <1>1, <1>2, <1>a, <1>3, <1>4, PartNumbers DEF Kept
<1>6. ASSUME "cross" \notin met', NEW a \in Admins
      PROVE  Drafted(a)' /\ Carried(a)'
  <2>1. Carried(a) /\ Drafted(a)' /\ a \in Appliers /\ job[a].part \in Parts /\ job[a].edit \in Nat /\ turns \in Nat
    BY <1>1, <1>3, <1>6, PartNumbers DEF Kept, Drafted, Appliers
  <2>2. Past(a)' => job'[a].of.parts[job'[a].part] >= job'[a].edit
    BY <1>3, <2>1 DEF Carried, Past, Busy
  <2>3. ASSUME pc'[a] = "load"
        PROVE  file'.parts[job'[a].part] >= job'[a].edit
    <3>1. job[a].edit <= turns /\ file.parts[job[a].part] >= job[a].edit
      BY <1>1, <1>3, <2>1, <2>3 DEF Kept, Carried
    <3>2. CASE job[a].part = p
      BY <1>2, <1>a, <1>3, <1>4, <2>1, <3>1, <3>2
    <3>3. CASE job[a].part # p
      BY <1>2, <1>a, <1>3, <1>4, <2>1, <3>1, <3>3
    <3>4. QED
      BY <3>2, <3>3
  <2>4. QED
    BY <2>1, <2>2, <2>3 DEF Carried
<1>7. "cross" \notin met' => file'.parts = last'
  BY <1>1, <1>2, <1>a, <1>3 DEF Kept
<1>8. QED
  BY <1>5, <1>6, <1>7 DEF EditInv, Kept

LEMMA ReadAndEditEdit ==
  ASSUME EditInv, WholeInv', NEW a \in Admins, ReadAndEdit(a)
  PROVE  EditInv'
<1>1. TypeOK /\ Kept /\ a \in Appliers
  BY DEF EditInv, WholeInv, TypedInv, Appliers
<1>2. /\ pc[a] = "idle" /\ turns' = turns + 1
      /\ UNCHANGED <<file, last, met>>
      /\ \A u \in Appliers \ {a} : pc'[u] = pc[u] /\ job'[u] = job[u]
  BY <1>1 DEF ReadAndEdit, TypeOK
<1>3. CASE pc'[a] = "idle"
  <2>1. job'[a] = NoJob
    BY <1>1, <1>2, <1>3 DEF ReadAndEdit, TypeOK
  <2>2. QED
    BY <1>1, <1>2, <1>3, <2>1, AsideEdit DEF SameContent, Appliers
<1>4. CASE pc'[a] = "temp"
  <2>1. PICK p \in Parts : /\ job'[a].of.parts = [file.parts EXCEPT ![p] = turns + 1]
                           /\ job'[a].part = p /\ job'[a].edit = turns + 1
    <3>1. PICK p \in Parts, fault \in {file.fault, "none"} :
            LET new == [id |-> turns + 1, parts |-> [file.parts EXCEPT ![p] = turns + 1], fault |-> fault]
            IN  \/ pc' = pc
                \/ job' = [job EXCEPT ![a] = [NoJob EXCEPT !.of = new, !.part = p, !.edit = turns + 1]]
      BY DEF ReadAndEdit
    <3> DEFINE new == [id |-> turns + 1, parts |-> [file.parts EXCEPT ![p] = turns + 1], fault |-> fault]
    <3>2. new.parts = [file.parts EXCEPT ![p] = turns + 1]
      OBVIOUS
    <3> HIDE DEF new
    <3>3. job' = [job EXCEPT ![a] = [NoJob EXCEPT !.of = new, !.part = p, !.edit = turns + 1]]
      BY <1>2, <1>4, <3>1 DEF new
    <3>4. job'[a] = [NoJob EXCEPT !.of = new, !.part = p, !.edit = turns + 1]
      BY <1>1, <3>3 DEF TypeOK
    <3>5. job'[a].of = new /\ job'[a].part = p /\ job'[a].edit = turns + 1
      BY <3>4, NoJobIsJob DEF Job
    <3>6. QED
      BY <3>2, <3>5
  <2>2. file.parts \in [Parts -> Numbers]
    BY <1>1 DEF TypeOK, Content
  <2>3. \A q \in Parts : job'[a].of.parts[q] <= turns + 1
    BY <1>1, <2>1, <2>2, PartNumbers DEF Kept
  <2>4. /\ \A q \in Parts : file'.parts[q] <= turns'
        /\ \A t \in Appliers : job'[t].edit <= turns' /\ \A q \in Parts : job'[t].of.parts[q] <= turns'
    <3>1. turns + 1 <= turns' /\ turns <= turns' /\ turns \in Nat /\ turns' \in Nat
      BY <1>1, <1>2, PartNumbers
    <3>2. \A q \in Parts : file'.parts[q] <= turns'
      BY <1>1, <1>2, <3>1, PartNumbers DEF Kept
    <3>3. job'[a].edit <= turns' /\ \A q \in Parts : job'[a].of.parts[q] <= turns'
      BY <1>2, <2>1, <2>3, <3>1
    <3>4. ASSUME NEW u \in Appliers \ {a}
          PROVE  job'[u].edit <= turns' /\ \A q \in Parts : job'[u].of.parts[q] <= turns'
      BY <1>1, <1>2, <3>1, <3>4, PartNumbers DEF Kept
    <3>5. QED
      BY <3>2, <3>3, <3>4
  <2>5. Drafted(a)' /\ Carried(a)'
    BY <1>1, <1>2, <1>4, <2>1, PartNumbers DEF Drafted, Carried, Past, Busy, Applying, Kept
  <2>6. ASSUME NEW b \in Admins \ {a}, Drafted(b), Carried(b)
        PROVE  Drafted(b)' /\ Carried(b)'
    BY <1>2, <2>6 DEF Drafted, Carried, Past, Busy, Appliers
  <2>7. QED
    BY <1>1, <1>2, <2>4, <2>5, <2>6 DEF EditInv, Kept
<1>5. QED
  BY <1>1, <1>2, <1>3, <1>4 DEF ReadAndEdit, TypeOK

LEMMA WriteTempEdit ==
  ASSUME EditInv, WholeInv', NEW a \in Admins, WriteTemp(a)
  PROVE  EditInv'
<1>1. TypeOK /\ a \in Appliers
  BY DEF EditInv, WholeInv, TypedInv, Appliers
<1>2. UNCHANGED <<file, last, met, turns>> /\ pc[a] = "temp"
  BY DEF WriteTemp
<1>3. \A u \in Appliers \ {a} : pc'[u] = pc[u] /\ job'[u] = job[u]
  BY <1>1 DEF WriteTemp, TypeOK
<1>4. CASE pc'[a] = "idle"
  <2>1. job'[a] = NoJob
    BY <1>1, <1>4 DEF WriteTemp, TypeOK
  <2>2. QED
    BY <1>1, <1>2, <1>3, <1>4, <2>1, AsideEdit DEF SameContent, Appliers
<1>5. CASE pc'[a] = "rename"
  <2>1. job'[a].of = job[a].of /\ job'[a].part = job[a].part /\ job'[a].edit = job[a].edit
    BY <1>1, <1>5 DEF WriteTemp, TypeOK, Job
  <2>2. Kept' /\ Kept
    <3>1. Kept
      BY DEF EditInv
    <3>2. ASSUME NEW b \in Admins, Drafted(b), Carried(b)
          PROVE  Drafted(b)' /\ Carried(b)'
      <4>1. CASE b = a
        BY <1>2, <1>5, <2>1, <3>2, <4>1 DEF Drafted, Carried, Past, Busy, Applying
      <4>2. CASE b # a
        BY <1>2, <1>3, <3>2, <4>2 DEF Drafted, Carried, Past, Busy, Appliers
      <4>3. QED
        BY <4>1, <4>2
    <3>3. \A t \in Appliers : job'[t].edit <= turns' /\ \A q \in Parts : job'[t].of.parts[q] <= turns'
      BY <1>2, <1>3, <2>1, <3>1 DEF Kept
    <3>4. QED
      BY <1>2, <3>1, <3>2, <3>3 DEF Kept
  <2>3. QED
    BY <2>2 DEF EditInv
<1>6. QED
  BY <1>1, <1>4, <1>5 DEF WriteTemp, TypeOK

LEMMA RenameEdit ==
  ASSUME EditInv, WholeInv', NEW a \in Admins, Rename(a)
  PROVE  EditInv'
<1>1. TypeOK /\ Kept /\ a \in Appliers
  BY DEF EditInv, WholeInv, TypedInv, Appliers
<1> DEFINE p == job[a].part
<1> DEFINE n == job[a].edit
<1>2. /\ pc[a] = "rename" /\ file' = job[a].of /\ last' = [last EXCEPT ![p] = n]
      /\ UNCHANGED turns /\ met \subseteq met'
      /\ "cross" \notin met' => \A b \in Admins \ {a} : pc[b] \notin {"temp", "rename"}
  BY DEF Rename
<1>3. /\ \A u \in Appliers \ {a} : pc'[u] = pc[u] /\ job'[u] = job[u]
      /\ \/ pc'[a] = "idle" /\ job'[a] = NoJob
         \/ pc'[a] = "load" /\ job'[a] = job[a]
  BY <1>1 DEF Rename, TypeOK
<1>4. /\ \A q \in Parts : file'.parts[q] <= turns'
      /\ \A t \in Appliers : job'[t].edit <= turns' /\ \A q \in Parts : job'[t].of.parts[q] <= turns'
  BY <1>1, <1>2, <1>3, PartNumbers, NoJobNumbers DEF Kept
<1>5. ASSUME "cross" \notin met'
      PROVE  file'.parts = last' /\ \A b \in Admins : Drafted(b)' /\ Carried(b)'
  <2>1. /\ file.parts = last /\ Drafted(a)
        /\ \A b \in Admins : Carried(b)
    BY <1>1, <1>2, <1>5 DEF Kept
  <2>2. /\ file'.parts = [file.parts EXCEPT ![p] = n]
        /\ \A q \in Parts : file.parts[q] < n
    BY <1>2, <2>1 DEF Drafted
  <2>3. /\ file.parts \in [Parts -> Numbers] /\ p \in Parts /\ n \in Nat
        /\ \A q \in Parts : file.parts[q] \in Nat
    BY <1>1, PartNumbers DEF TypeOK, Content
  <2>4. file'.parts[p] = n /\ \A q \in Parts : file'.parts[q] >= file.parts[q]
    BY <2>2, <2>3
  <2>5. ASSUME NEW b \in Admins
        PROVE  Drafted(b)' /\ Carried(b)'
    <3>1. CASE b = a
      BY <1>3, <2>3, <2>4, <3>1 DEF Drafted, Carried, Past, Busy, Applying
    <3>2. CASE b # a
      <4>1. b \in Appliers /\ job[b].part \in Parts /\ job[b].edit \in Nat
        BY <1>1, PartNumbers DEF Appliers
      <4>2. pc'[b] = pc[b] /\ job'[b] = job[b] /\ pc[b] \notin {"temp", "rename"} /\ Carried(b)
        BY <1>2, <1>3, <1>5, <2>1, <3>2, <4>1
      <4>3. file'.parts[job[b].part] \in Nat
        BY <2>2, <2>3, <4>1
      <4>4. pc[b] = "load" => file'.parts[job[b].part] >= job[b].edit
        BY <2>3, <2>4, <4>1, <4>2, <4>3 DEF Carried
      <4>5. QED
        BY <4>2, <4>4 DEF Drafted, Carried, Past, Busy
    <3>3. QED
      BY <3>1, <3>2
  <2>6. QED
    BY <1>2, <2>1, <2>2, <2>5
<1>6. QED
  BY <1>4, <1>5 DEF EditInv, Kept

LEMMA LoadEdit ==
  ASSUME EditInv, WholeInv', NEW t \in Appliers, Load(t)
  PROVE  EditInv'
<1>1. TypeOK /\ Kept
  BY DEF EditInv, WholeInv, TypedInv
<1>2. UNCHANGED <<file, last, turns>> /\ pc[t] = "load" /\ met \subseteq met'
  BY DEF Load
<1>3. \A u \in Appliers \ {t} : pc'[u] = pc[u] /\ job'[u] = job[u]
  BY <1>1 DEF Load, Rejected, TypeOK
<1>4. CASE pc'[t] = "idle"
  <2>1. job'[t] = NoJob
    BY <1>1, <1>4 DEF Load, Rejected, TypeOK
  <2>2. QED
    BY <1>1, <1>2, <1>3, <1>4, <2>1, AsideEdit DEF SameContent, Appliers
<1>5. CASE pc'[t] = "rules"
  <2>1. job'[t].of = file /\ job'[t].part = job[t].part /\ job'[t].edit = job[t].edit
    BY <1>1, <1>5 DEF Load, Rejected, TypeOK, Job
  <2>2. \A u \in Appliers : job'[u].edit <= turns' /\ \A q \in Parts : job'[u].of.parts[q] <= turns'
    BY <1>1, <1>2, <1>3, <2>1 DEF Kept
  <2>3. ASSUME NEW b \in Admins, Drafted(b), Carried(b)
        PROVE  Drafted(b)' /\ Carried(b)'
    <3>1. CASE b = t
      BY <1>2, <1>5, <2>1, <2>3, <3>1 DEF Drafted, Carried, Past, Busy, Applying
    <3>2. CASE b # t
      BY <1>2, <1>3, <2>3, <3>2 DEF Drafted, Carried, Past, Busy, Appliers
    <3>3. QED
      BY <3>1, <3>2
  <2>4. Kept'
    BY <1>1, <1>2, <2>2, <2>3 DEF Kept
  <2>5. QED
    BY <2>4 DEF EditInv
<1>6. QED
  BY <1>1, <1>4, <1>5 DEF Load, Rejected, TypeOK

LEMMA SetEdit ==
  ASSUME EditInv, WholeInv', NEW t \in Appliers,
         SetCustom(t) \/ SetMode(t) \/ SetConfig(t) \/ ResetClients(t) \/ ResetFilters(t)
  PROVE  EditInv'
<1>1. TypeOK
  BY DEF EditInv, WholeInv, TypedInv
<1>2. UNCHANGED <<file, last, turns>> /\ met \subseteq met'
  BY DEF SetCustom, SetMode, SetConfig, ResetClients, ResetFilters, Renew
<1>3. \A u \in Appliers \ {t} : pc'[u] = pc[u] /\ job'[u] = job[u]
  BY <1>1 DEF SetCustom, Rejected, SetMode, SetConfig, ResetClients, ResetFilters, TypeOK
<1>4. \/ pc'[t] = "idle" /\ job'[t] = NoJob
      \/ job'[t] = job[t] /\ Past(t) /\ Past(t)'
  BY <1>1 DEF SetCustom, Rejected, SetMode, SetConfig, ResetClients, ResetFilters, TypeOK, Past, Busy, Applying
<1>5. \A u \in Appliers : SameContent(u)
  BY <1>3, <1>4 DEF SameContent
<1>6. QED
  BY <1>1, <1>2, <1>3, <1>4, <1>5, AsideEdit DEF Appliers

LEMMA WatchingEdit ==
  ASSUME EditInv, WholeInv', Wire \/ FirstStat \/ TakeSignal \/ CheckFileChange
  PROVE  EditInv'
<1>1. TypeOK
  BY DEF EditInv, WholeInv, TypedInv
<1>2. UNCHANGED <<file, last>> /\ met \subseteq met' /\ turns' \in {turns, turns + 1}
  BY DEF Wire, FirstStat, TakeSignal, CheckFileChange
<1>3. \A a \in Admins : pc'[a] = pc[a] /\ job'[a] = job[a]
  BY <1>1, ReloadAssumption DEF Wire, FirstStat, TakeSignal, CheckFileChange, TypeOK, Appliers
<1>4. /\ job'[Watcher].of = job[Watcher].of
      /\ job'[Watcher].part = job[Watcher].part
      /\ job'[Watcher].edit = job[Watcher].edit
  BY <1>1 DEF Wire, FirstStat, TakeSignal, CheckFileChange, TypeOK, Job, Appliers
<1>5. \A u \in Appliers : SameContent(u)
  BY <1>3, <1>4 DEF SameContent, Appliers
<1>6. QED
  BY <1>1, <1>2, <1>3, <1>5, AsideEdit

LEMMA NextEdit == EditInv /\ [Next]_vars => EditInv'
<1>1. SUFFICES ASSUME EditInv, [Next]_vars PROVE EditInv'
  OBVIOUS
<1>2. WholeInv' /\ TypeOK
  BY <1>1, NextWhole DEF EditInv, WholeInv, TypedInv
<1>3. CASE HandEdit \/ Wire \/ FirstStat \/ TakeSignal \/ CheckFileChange
  BY <1>1, <1>2, <1>3, HandEditEdit, WatchingEdit
<1>4. ASSUME NEW a \in Admins, Edit(a)
      PROVE  EditInv'
  BY <1>1, <1>2, <1>4, ReadAndEditEdit, WriteTempEdit, RenameEdit DEF Edit
<1>5. ASSUME NEW t \in Appliers, Apply(t)
      PROVE  EditInv'
  BY <1>1, <1>2, <1>5, LoadEdit, SetEdit DEF Apply
<1>6. CASE (\E r \in Requests : Serve(r)) \/ UNCHANGED vars
  <2>1. UNCHANGED <<file, last, turns, met, pc, job>>
    BY <1>6 DEF Serve, TakeConfig, DetectDates, DetectCustom, LookInMap, BuildAndStore, Others, vars
  <2>2. QED
    BY <1>1, <1>2, <2>1, AsideEdit DEF SameContent
<1>7. QED
  BY <1>1, <1>3, <1>4, <1>5, <1>6 DEF Next

LEMMA StepKeepsItsWord ==
  ASSUME EditInv, EditInv', [Next]_vars, NEW a \in Admins
  PROVE  LeavesFileWhole(a) /\ SaysImmediatelyInTruth(a)
<1>1. TypeOK /\ a \in Appliers
  BY DEF EditInv, WholeInv, TypedInv, Appliers
<1>2. ASSUME Renamed(a)
      PROVE  file'.fault # "parse"
  <2>1. Rename(a)
    BY <1>1, <1>2, ReloadAssumption
       DEF Renamed, Next, vars, HandEdit, Wire, FirstStat, TakeSignal, CheckFileChange, Edit, ReadAndEdit,
           WriteTemp, Apply, Load, SetCustom, SetMode, SetConfig, ResetClients, ResetFilters, Rejected,
           Serve, TakeConfig, DetectDates, DetectCustom, LookInMap, BuildAndStore, Others, TypeOK, Appliers,
           Rename
  <2>2. QED
    BY <1>1, <2>1 DEF Rename, EditInv, WholeInv, Checked
<1>3. ASSUME pc[a] = "filters", pc'[a] = "idle", met' \cap {"overlap", "cross"} = {}
      PROVE  live'["settings"].parts[job[a].part] >= job[a].edit
  <2>1. live' = live /\ met \subseteq met'
    BY <1>1, <1>3, ReloadAssumption
       DEF Next, vars, HandEdit, Wire, FirstStat, TakeSignal, CheckFileChange, Edit, ReadAndEdit,
           WriteTemp, Apply, Load, SetCustom, SetMode, SetConfig, ResetClients, ResetFilters, Rejected,
           Serve, TakeConfig, DetectDates, DetectCustom, LookInMap, BuildAndStore, Others, TypeOK, Appliers,
           Rename, Renew
  <2>2. Past(a) /\ "overlap" \notin met /\ "cross" \notin met
    BY <1>3, <2>1 DEF Past, Busy, Applying
  <2>3. live["settings"] = job[a].of /\ Carried(a)
    BY <1>1, <1>3, <2>2 DEF EditInv, WholeInv, OneByOne, Halfway, Kept
  <2>4. QED
    BY <2>1, <2>2, <2>3 DEF Carried
<1>4. QED
  BY <1>2, <1>3 DEF LeavesFileWhole, SaysImmediatelyInTruth

\* What an administrator is told of an edit is so: the file is sound and has the
\* edit, with all those before it, and the service works by it.
THEOREM EditsAreKept == Spec => EditsKeepTheirWord
<1>1. EditInv /\ [Next]_vars =>
        [EditsAccumulate' /\ \A a \in Admins : LeavesFileWhole(a) /\ SaysImmediatelyInTruth(a)]_vars
  <2>1. SUFFICES ASSUME EditInv, [Next]_vars
                 PROVE  EditsAccumulate' /\ \A a \in Admins : LeavesFileWhole(a) /\ SaysImmediatelyInTruth(a)
    OBVIOUS
  <2>2. EditInv'
    BY <2>1, NextEdit
  <2>3. EditsAccumulate'
    BY <2>2 DEF EditInv, Kept, EditsAccumulate
  <2>4. QED
    BY <2>1, <2>2, <2>3, StepKeepsItsWord
<1>2. QED
  BY <1>1, InitEdit, NextEdit, PTL DEF Spec, EditsKeepTheirWord
=============================================================================
