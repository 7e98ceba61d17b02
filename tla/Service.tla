------------------------------ MODULE Service ------------------------------
(***************************************************************************)
(* The life of one copy of the service, cmd/pii-guard/main.go, from the    *)
(* moment its listeners are up: serving, leaving on a signal (readiness    *)
(* withdrawn, the drain window, the listeners closed one after the other   *)
(* under one deadline), and the deferred closing of the capture channel,   *)
(* the store and the log.  With it goes what must not be lost on the way:  *)
(* the capture queue and its rotating file (internal/capture,              *)
(* internal/logging/rotate.go), and the repeats the log keeps silent       *)
(* (repeat.go).                                                            *)
(*                                                                         *)
(* A balancer sends requests while it takes the copy for ready.  The drain *)
(* window is longer than the time it needs to notice (docs/BALANCING.md).  *)
(***************************************************************************)
EXTENDS Integers, Sequences, SequencesExt, FiniteSets

CONSTANTS
  Requests,  \* requests that may come
  Queue,     \* capture.queue
  Keep,      \* renamed files kept
  MaxLines,  \* lines that fit into a file
  Found      \* how many full files an earlier run may have left

ASSUME ServiceAssumption ==
  /\ IsFiniteSet(Requests) /\ Requests \cap Nat = {}
  /\ Queue \in Nat \ {0} /\ Keep \in Nat \ {0} /\ MaxLines \in Nat \ {0}
  /\ Found \subseteq 0..(Keep + 1)

VARIABLES
  settings,   \* what the file says: tls, drains, unready
  main,       \* where the main goroutine is
  ready,      \* Server.ready
  listening,  \* listeners that accept
  routed,     \* the balancer sends requests here
  request,    \* request[r]: stage and the listener it came through
  cut,        \* history: what cut requests short: second signal, deadline, listener
  ch,         \* capture: the queue, whether it is closed, what was dropped
  disk,       \* capture: the files, newest first; dead: every later write fails;
              \*   slipped, history: an older file could not be removed or renamed
  accepted,   \* history: the lines the file took, in order
  repeats     \* repeatHandler: the entry of the one message, what flush has taken
              \*   from it and not yet told, and what was told

capture == <<ch, disk, accepted>>
vars == <<settings, main, ready, listening, routed, request, cut, capture, repeats>>

Listeners == {"http", "https"}
\* What a write that breaks off leaves of a line.
Part == 0
\* A line is the record of a request, or one of an earlier run, by its age.
Lines == Requests \cup 0..((Keep + 1) * MaxLines)

MainStages == {"serving", "draining", "https", "awaitHTTPS", "http", "awaitHTTP",
               "capture", "flush", "store", "log", "end", "exit"}
RequestStages == {"none", "running", "warned", "done", "panicked", "refused"}

TypeOK ==
  /\ settings \in [tls : BOOLEAN, drains : BOOLEAN, unready : BOOLEAN]
  /\ main \in MainStages
  /\ ready \in BOOLEAN /\ routed \in BOOLEAN
  /\ listening \subseteq Listeners
  /\ request \in [Requests -> [at : RequestStages, via : Listeners]]
  /\ cut \subseteq {"signal", "deadline", "listener"}
  /\ ch \in [waiting : Seq(Requests), closed : BOOLEAN, dropped : Nat]
  /\ Len(ch.waiting) <= Queue
  /\ disk \in [files : [1..(Keep + 1) -> Seq(Lines)], dead : BOOLEAN, slipped : BOOLEAN]
  /\ \A i \in 1..(Keep + 1) : Len(disk.files[i]) <= MaxLines
  /\ accepted \in Seq(Lines)
  /\ repeats \in [entry : {"none", "fresh", "stale"}, count : Nat, taken : Nat, suppressed : Nat, told : Nat]

Init ==
  /\ settings \in [tls : BOOLEAN, drains : BOOLEAN, unready : BOOLEAN]
  /\ main = "serving"
  /\ ready = TRUE /\ routed = TRUE
  /\ listening = IF settings.tls THEN Listeners ELSE {"http"}
  /\ request = [r \in Requests |-> [at |-> "none", via |-> "http"]]
  /\ cut = {}
  /\ ch = [waiting |-> <<>>, closed |-> FALSE, dropped |-> 0]
  /\ \E old \in Found :
       /\ disk = [files |-> [i \in 1..(Keep + 1) |-> IF i <= old THEN [j \in 1..MaxLines |-> i * MaxLines - j + 1] ELSE <<>>],
                  dead |-> FALSE, slipped |-> FALSE]
       /\ accepted = [j \in 1..(old * MaxLines) |-> old * MaxLines - j + 1]
  \* The store may have warned while it was opened.
  /\ \E entry \in {"none"} \cup IF settings.unready THEN {} ELSE {"fresh"} :
       repeats = [entry |-> entry, count |-> 0, taken |-> 0, suppressed |-> 0, told |-> 0]

InFlight(l) == {r \in Requests : request[r].at \in {"running", "warned"} /\ request[r].via = l}

-----------------------------------------------------------------------------
(* Requests.                                                                *)

\* A request that is over does not remember its listener.
Over(at) == [at |-> at, via |-> "http"]

Arrive(r) ==
  /\ main # "exit" /\ routed /\ request[r].at = "none"
  /\ \E l \in IF settings.tls THEN Listeners ELSE {"http"} :
       request' = [request EXCEPT ![r] = IF l \in listening THEN [at |-> "running", via |-> l] ELSE Over("refused")]
  /\ UNCHANGED <<settings, main, ready, listening, routed, cut, capture, repeats>>

\* repeatHandler.handle of a warning: the first of a window is written, the others are counted.
Silenced(rep) ==
  CASE rep.entry = "none" -> [rep EXCEPT !.entry = "fresh"]
    [] rep.entry = "fresh" -> [rep EXCEPT !.count = @ + 1, !.suppressed = @ + 1]
    [] rep.entry = "stale" -> [rep EXCEPT !.entry = "fresh", !.count = 0, !.told = @ + rep.count]

\* The hook of a degraded store: a warning, or the copy leaves for good.
Degrade(r) ==
  /\ main # "exit" /\ request[r].at = "running"
  /\ request' = [request EXCEPT ![r].at = "warned"]
  /\ \/ /\ settings.unready
        /\ ready' = FALSE
        /\ UNCHANGED repeats
     \/ /\ ~settings.unready
        /\ repeats' = Silenced(repeats)
        /\ UNCHANGED ready
  /\ UNCHANGED <<settings, main, listening, routed, cut, capture>>

\* Mutant of Finish: the queue has no limit.
FinishUnbounded(r) ==
  /\ main # "exit" /\ request[r].at \in {"running", "warned"}
  /\ request' = [request EXCEPT ![r] = Over(IF ch.closed THEN "panicked" ELSE "done")]
  /\ ch' = IF ch.closed THEN ch ELSE [ch EXCEPT !.waiting = Append(@, r)]
  /\ UNCHANGED <<settings, main, ready, listening, routed, cut, disk, accepted, repeats>>

\* captureProcess, the last step of the handler: the queue takes the record or
\* drops it.  A send on the closed channel panics.
Finish(r) ==
  /\ main # "exit" /\ request[r].at \in {"running", "warned"}
  /\ request' = [request EXCEPT ![r] = Over(IF ch.closed THEN "panicked" ELSE "done")]
  /\ ch' = IF ch.closed THEN ch
           ELSE IF Len(ch.waiting) < Queue THEN [ch EXCEPT !.waiting = Append(@, r)]
           ELSE [ch EXCEPT !.dropped = @ + 1]
  /\ UNCHANGED <<settings, main, ready, listening, routed, cut, disk, accepted, repeats>>

\* The balancer polls /readyz.
Notice ==
  /\ ~ready /\ routed
  /\ routed' = FALSE
  /\ UNCHANGED <<settings, main, ready, listening, request, cut, capture, repeats>>

-----------------------------------------------------------------------------
(* The capture file.                                                        *)

\* Mutant of Shifted: from the youngest on, so that it ends where the oldest goes.
ShiftedUp(files, refused) == [i \in DOMAIN files |-> IF i = 1 THEN files[1] ELSE <<>>]

\* The loop of rotate: the oldest file is removed, every other takes the next number.
\* Nobody looks whether that was refused: the file stays, for a younger one to go over.
Shifted(files, refused) ==
  [i \in DOMAIN files |->
     IF i > 2 /\ i - 1 \notin refused /\ files[i - 1] # <<>> THEN files[i - 1]
     ELSE IF i = 1 \/ i \in refused THEN files[i]
     ELSE <<>>]

\* ... and the current file is renamed over the first of the old ones.
Rotated(files, refused) == [Shifted(files, refused) EXCEPT ![1] = <<>>, ![2] = files[1]]

\* The older files whose removal or renaming may be refused.
Refusals == SUBSET {i \in 2..(Keep + 1) : disk.files[i] # <<>>}

\* A full file is rotated before a line is written, ...
Turned ==
  IF Len(disk.files[1]) = MaxLines
  THEN {[disk EXCEPT !.files = Rotated(@, refused), !.slipped = @ \/ refused # {}] : refused \in Refusals}
  ELSE {disk}

\* ... or the rotation ends where the current file cannot be closed or renamed.
HalfTurned ==
  IF Len(disk.files[1]) = MaxLines
  THEN {[disk EXCEPT !.files = Shifted(@, refused), !.slipped = @ \/ refused # {}] : refused \in Refusals}
  ELSE {disk}

\* Mutant of Outlives: every line gets a new encoder.
OutlivesAll(line) == TRUE

\* json.Encoder and the file of rotatingWriter are of no use after an error.
Outlives(line) == line # Part

\* Writer.loop and rotatingWriter.Write: a line is written, in part when the write
\* breaks off, or not at all: a step of the rotation, the opening or the write
\* has failed.  What is not written whole is counted as dropped.
WriteLine ==
  /\ main # "exit" /\ ch.waiting # <<>>
  /\ \/ /\ ~disk.dead
        /\ \E d \in Turned, line \in {Head(ch.waiting), Part} :
             /\ disk' = [d EXCEPT !.files[1] = Append(@, line), !.dead = ~Outlives(line)]
             /\ accepted' = Append(accepted, line)
             /\ ch' = [ch EXCEPT !.waiting = Tail(@), !.dropped = IF line = Part THEN @ + 1 ELSE @]
     \/ /\ \E d \in {disk} \cup IF disk.dead THEN {} ELSE HalfTurned \cup Turned :
             disk' = [d EXCEPT !.dead = TRUE]
        /\ ch' = [ch EXCEPT !.waiting = Tail(@), !.dropped = @ + 1]
        /\ UNCHANGED accepted
  /\ UNCHANGED <<settings, main, ready, listening, routed, request, cut, repeats>>

-----------------------------------------------------------------------------
(* The silent repeats.                                                      *)

WindowPasses ==
  /\ main # "exit" /\ repeats.entry = "fresh"
  /\ repeats' = [repeats EXCEPT !.entry = "stale"]
  /\ UNCHANGED <<settings, main, ready, listening, routed, request, cut, capture>>

\* Mutant of Flushed: an entry is forgotten with its count.
FlushedAway(rep) ==
  CASE rep.entry = "stale" -> [rep EXCEPT !.entry = "none", !.count = 0]
    [] rep.entry = "fresh" /\ rep.count > 0 -> [rep EXCEPT !.count = 0, !.taken = rep.count]
    [] OTHER -> rep

\* repeatHandler.flush, the shard locked: what was counted is taken, an entry without
\* repeats that is old enough is forgotten.
Flushed(rep) ==
  CASE rep.count > 0 -> [rep EXCEPT !.entry = "fresh", !.count = 0, !.taken = rep.count]
    [] rep.count = 0 /\ rep.entry = "stale" -> [rep EXCEPT !.entry = "none"]
    [] OTHER -> rep

\* Mutant of Told: the count is set to nothing once it is told.
ToldLate(rep) == [rep EXCEPT !.told = @ + rep.taken, !.taken = 0, !.count = 0]

\* reportEntry, the lock given up meanwhile: what was taken is told.
Told(rep) == [rep EXCEPT !.told = @ + rep.taken, !.taken = 0]

FlushTick ==
  /\ main \notin {"end", "exit"} /\ repeats.taken = 0 /\ Flushed(repeats) # repeats
  /\ repeats' = Flushed(repeats)
  /\ UNCHANGED <<settings, main, ready, listening, routed, request, cut, capture>>

FlushTell ==
  /\ main \notin {"end", "exit"} /\ repeats.taken > 0
  /\ repeats' = Told(repeats)
  /\ UNCHANGED <<settings, main, ready, listening, routed, request, cut, capture>>

-----------------------------------------------------------------------------
(* The main goroutine.                                                      *)

MainGoes(from, to) == main = from /\ main' = to

\* A listener fails: run returns at once.
ListenerFails ==
  /\ MainGoes("serving", "capture")
  /\ \E l \in listening : listening' = listening \ {l}
  /\ cut' = cut \cup {"listener"}
  /\ UNCHANGED <<settings, ready, routed, request, capture, repeats>>

\* Mutant of Stop: the listeners are closed without waiting for the balancer.
StopAtOnce ==
  /\ MainGoes("serving", "https")
  /\ ready' = FALSE
  /\ UNCHANGED <<settings, listening, routed, request, cut, capture, repeats>>

Stop ==
  /\ MainGoes("serving", IF settings.drains THEN "draining" ELSE "https")
  /\ ready' = FALSE
  /\ UNCHANGED <<settings, listening, routed, request, cut, capture, repeats>>

\* drain: the window is over, or a second signal ends it.
DrainOver ==
  /\ MainGoes("draining", "https")
  /\ \/ /\ ~routed
        /\ UNCHANGED cut
     \/ cut' = cut \cup {"signal"}
  /\ UNCHANGED <<settings, ready, listening, routed, request, capture, repeats>>

\* Shutdown closes a listener, then waits for its requests.
CloseListener(l, stage, waiting) ==
  /\ MainGoes(stage, waiting)
  /\ listening' = listening \ {l}
  /\ UNCHANGED <<settings, ready, routed, request, cut, capture, repeats>>

\* Mutant of AwaitRequests: without waiting.
AwaitNobody(l, waiting, next) ==
  /\ MainGoes(waiting, next)
  /\ UNCHANGED <<settings, ready, listening, routed, request, cut, capture, repeats>>

\* Mutant of AwaitRequests: without the deadline.
AwaitRequestsForEver(l, waiting, next) ==
  /\ MainGoes(waiting, next)
  /\ InFlight(l) = {}
  /\ UNCHANGED <<settings, ready, listening, routed, request, cut, capture, repeats>>

AwaitRequests(l, waiting, next) ==
  /\ MainGoes(waiting, next)
  /\ cut' = IF InFlight(l) = {} THEN cut ELSE cut \cup {"deadline"}
  /\ UNCHANGED <<settings, ready, listening, routed, request, capture, repeats>>

Shutdown ==
  \/ CloseListener("https", "https", "awaitHTTPS")
  \/ AwaitRequests("https", "awaitHTTPS", "http")
  \/ CloseListener("http", "http", "awaitHTTP")
  \/ AwaitRequests("http", "awaitHTTP", "capture")

\* Mutant of CloseCapture: the file is closed before the queue is written out.
CloseCaptureEarly ==
  /\ MainGoes("capture", "store")
  /\ ch' = [ch EXCEPT !.closed = TRUE, !.waiting = <<>>]
  /\ UNCHANGED <<settings, ready, listening, routed, request, cut, disk, accepted, repeats>>

\* The deferred Writer.Close: the channel, then the goroutine that empties it.
CloseCapture ==
  /\ MainGoes("capture", "flush")
  /\ ch' = [ch EXCEPT !.closed = TRUE]
  /\ UNCHANGED <<settings, ready, listening, routed, request, cut, disk, accepted, repeats>>

AwaitCapture ==
  /\ MainGoes("flush", "store")
  /\ ch.waiting = <<>>
  /\ UNCHANGED <<settings, ready, listening, routed, request, cut, capture, repeats>>

CloseStore ==
  /\ MainGoes("store", "log")
  /\ UNCHANGED <<settings, ready, listening, routed, request, cut, capture, repeats>>

\* stopLog: the flush under way is waited for and the rest of the repeats told, ...
StopLog ==
  /\ MainGoes("log", "end")
  /\ repeats.taken = 0
  /\ repeats' = Told(Flushed(repeats))
  /\ UNCHANGED <<settings, ready, listening, routed, request, cut, capture>>

\* ... and the process ends.
Exit ==
  /\ MainGoes("end", "exit")
  /\ UNCHANGED <<settings, ready, listening, routed, request, cut, capture, repeats>>

Closing == Shutdown \/ CloseCapture \/ AwaitCapture \/ CloseStore \/ StopLog \/ Exit

Next ==
  \/ \E r \in Requests : Arrive(r) \/ Degrade(r) \/ Finish(r)
  \/ Notice
  \/ WriteLine
  \/ WindowPasses \/ FlushTick \/ FlushTell
  \/ ListenerFails \/ Stop \/ DrainOver
  \/ Closing

Spec == Init /\ [][Next]_vars

\* The main goroutine, the writer and the flush run; the balancer polls and the
\* window is a timer.  Handlers may hang.
FairSpec ==
  /\ Spec
  /\ WF_vars(Notice) /\ WF_vars(WriteLine) /\ WF_vars(FlushTell) /\ WF_vars(DrainOver) /\ WF_vars(Closing)

-----------------------------------------------------------------------------
(* Properties.                                                              *)

\* A request the balancer sends finds a listener, unless the drain window is
\* off or cut short by a second signal, or a listener has failed (shutdown and
\* drain: readiness first, then the window, then the listeners).
NoneRefused ==
  \A r \in Requests : request[r].at = "refused" => ~settings.drains \/ cut \cap {"signal", "listener"} # {}

\* A handler outlives the capture channel or the store only when the deadline
\* of Shutdown has cut it short or a listener has failed (the order of the
\* defers in run).
ClosedAfterUse ==
  \/ \E r \in Requests : request[r].at = "panicked"
  \/ main \in {"log", "end", "exit"} /\ \E l \in Listeners : InFlight(l) # {}
  => cut # {}

\* A copy leaves in order: nobody is sent away or cut short but by the deadlines
\* and faults that are meant to.
LeavesInOrder == NoneRefused /\ ClosedAfterUse

\* Every record the queue was offered is in the file or among the dropped by the time
\* the store is closed, however many writes and rotations have failed (capture.Writer).
CaptureTellsItsLosses ==
  main \in {"store", "log", "end", "exit"} =>
    Cardinality({r \in Requests : request[r].at = "done"}) =
      ch.dropped + Cardinality({r \in Requests : \E i \in DOMAIN accepted : accepted[i] = r})

\* Lines the files hold at least, when so many were written.
Kept == Keep * MaxLines + IF disk.dead THEN 0 ELSE Len(disk.files[1])

\* The files, from the oldest to the newest, hold the last lines written, in order and
\* without a gap: all of them, or what the current file has and Keep full ones; one file
\* less when a rotation was the last that failed (rotatingWriter.rotate).  Once an
\* older file has not made way, lines are gone from the middle and nobody is told: then
\* only the current file and the one before it are the end of what was written.
FilesHoldTheLast ==
  IF disk.slipped THEN IsSuffix(disk.files[2] \o disk.files[1], accepted)
  ELSE LET held == FlattenSeq(Reverse(disk.files))
       IN  IsSuffix(held, accepted) /\ (held = accepted \/ Len(held) >= Kept)

\* Whatever was refused, no line stands before an older one (the descending loop of
\* rotate): a line of an older file, or farther up in the same one, was written first.
OlderFilesAreOlder ==
  \A i, j \in DOMAIN disk.files : \A p \in DOMAIN disk.files[i], q \in DOMAIN disk.files[j] :
    j < i \/ (i = j /\ p < q) =>
      \E a, b \in DOMAIN accepted :
        a < b /\ accepted[a] = disk.files[i][p] /\ accepted[b] = disk.files[j][q]

\* A line broken off is the end of its file for good: no record is glued to it and
\* counted as written (the error an encoder keeps; Writer.loop has one for all lines).
NothingFollowsAPart == \A i \in DOMAIN accepted : accepted[i] = Part => i = Len(accepted)

\* What the log has kept silent is told by the time it is closed, repeats that are
\* counted while flush writes included, unless a handler outlives the service
\* (repeatHandler.reportEntry, Close).
RepeatsAreTold ==
  main \in {"end", "exit"} => repeats.told = repeats.suppressed \/ cut # {}

\* Whatever is written down is there in the end or its loss is told, but for the lines
\* of a file that could not make way: the records of the capture, the lines of its
\* files and the repeats of the log.
NothingLostUntold ==
  CaptureTellsItsLosses /\ FilesHoldTheLast /\ OlderFilesAreOlder /\ NothingFollowsAPart /\ RepeatsAreTold

\* A copy told to stop does, whatever its handlers do (the deadline of
\* Shutdown, and the capture that is only as long as its queue).
StopEnds == main = "draining" ~> main = "exit"
=============================================================================
