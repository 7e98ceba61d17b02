# pii-guard in TLA+

pii-guard is an HTTP service that hides personal data from whoever reads a text
and gives it back to whoever sent it. This directory holds models of it, the TLC
configurations that check them on small instances, and TLAPS proofs about the parts
that keep state. Paths below are relative to `src/`.

## 1. The system

| part | code | state it keeps | operations | hard because |
|---|---|---|---|---|
| process handler | `internal/api/process.go` | flights in progress, keyed by id and text hash | mask, mask_retry, demask, ambiguous, unknown mask | read and write of the record are apart; requests share a flight; configuration changes underneath |
| request limiter | `internal/api/server.go` | two semaphores | acquire, release | two places taken in turn, two points to give up at |
| store, memory | `internal/store/memory.go` | 256 locked shards, a counter under a lock of its own | Put, Get, Delete, sweep, evict | counter and shards change at different moments |
| store, Redis | `internal/store/redis.go`, `resp.go`, `codec.go` | Redis, one fallback memory per replica, a pause after failures, a pool of connections | Put, Get, Delete, Ping | a command without an answer may have been executed, or be executed later |
| configuration | `internal/config`, `internal/api/rules.go` | the rules file | Load, Validate, edits by `/v1/rules` | defaults of defaults; read-change-write of a file without a lock |
| hot reload | `cmd/pii-guard/main.go` | the configuration in force, in three places, and what is built from it | watch, SIGHUP, apply | two callers of apply, requests in flight, times as coarse as the file system's |
| life cycle | `cmd/pii-guard/main.go` | readiness, listeners, the deferred closings | drain, shutdown | handlers that hang, a listener that fails |
| chat proxy | `internal/api/proxy.go` | placeholders of conversations, in the store | mask, forward, restore, save | turns of one conversation at once |
| engine | `internal/engine` | filters per system, custom detectors | Mask, inspect, ResetFilters | parallel chunks, detectors that fail, links between fragments |
| masking | `internal/mask` | none, or the numbering of placeholders | Apply, LooksMasked | offsets, thresholds, substitutes that collide |
| detectors | `internal/pii` | none | Detect, Resolve | windows, anchors, checksums, overlaps |
| logging, audit | `internal/logging` | level with expiry, a rotating file, counts of repeats | set, write, rotate, flush | timers, failures between two steps |
| capture | `internal/capture` | a bounded queue | Write, Close | close while writers are at work |
| metrics | `internal/metrics` | counters | | |

How they meet. A request takes the configuration pointer once and keeps it
(`SetConfig` replaces it for later ones), passes the limiter, and joins or leads a
flight. The leader asks the store for the record of its `payload_id`, and the record
decides the direction: nothing there, the text is masked and the pair is stored; the
original is there, its mask is repeated; the mask is there, the original goes back
to its owner. The engine masks within the flight: detectors report fragments, by
chunks if the text is long; types, rules of combination and exclusions of the system
thin them out; `Resolve` settles overlaps; `mask.Apply` lays the masks. The chat proxy
goes through the limiter, the engine and the store in the same way, and stores the
placeholders of a dialogue rather than a text. The watcher and `/v1/rules` replace the
configuration, the detector of custom types and the mode of dates, and throw away what
was built from the old ones. Every handler offers its record to the capture queue and
writes to the log through the filter of repeats and the guard. Replicas share nothing
but Redis.

What makes each part right:

- process handler: what comes back is the original of the very mask sent, under that
  id; no other response carries open text, but what failed detectors left, to those only
  who may have it; a mask once given out demasks until its
  record lapses; every request is answered once.
- limiter: no place is lost on any path; large texts never take every place; whoever
  waits gets in.
- memory store: the counter, by which eviction decides, agrees with the shards; the
  victim is the oldest; the limit holds.
- Redis store and pool: no failure of Redis is a failure of the service; what was put
  is found again; one user per connection; no connection out of step.
- codec: whatever bytes Redis returns, a record is read whole or not at all.
- configuration, reload: nothing faulty comes into force; a request works by one
  version; edits add up; the file is in force in the end; the pages show what is done.
- life cycle, capture: nobody is refused or cut short but by the deadlines; no record is
  lost untold; the copy ends.
- proxy: a value hidden comes back, in its own turn always and in later ones while the
  record lives.
- engine, masking, detectors: nothing that was to be masked stays open for an overlap,
  a chunk, a rule or another fragment; masks keep their length, placeholders tell
  values apart.
- journal: nobody's data in it, wherever in a record they stand.

`PROJECT.json` lists the hazards of the code at their lines, those that no property
covers included, and maps every definition to the lines it models.

## 2. The modules

    Ledger         what /process promises                   (abstract)
    Process        internal/api/process.go                  implements Ledger
    SharedStore    a store the replicas share               (abstract)
    RedisStore     internal/store/redis.go                  implements SharedStore
    RespPool       internal/store/resp.go, the pool
    MemoryStore    internal/store/memory.go
    Limiter        internal/api/server.go, acquire
    Reload         cmd/pii-guard/main.go, rules.go, edit.go: settings on the fly
    Service        cmd/pii-guard/main.go, internal/capture, logging/rotate.go, repeat.go
    Conversation   internal/api/proxy.go

    Algorithms     runs the pure algorithms over all inputs up to a bound
      TextLaws     Spans (registry.go), Doc (doc.go, helpers.go), Numbers (detect_numeric.go)
      DetectorLaws Dates (detect_date*.go), Context (context.go, context_words.go)
      MaskLaws     Masks (mask.go), Synthetic (synthetic.go), Codec (codec.go)
      EngineLaws   Engine (engine.go, inspect.go), Chunks (engine.go), Subjects (subjects.go)
      SettingsLaws Settings (config.go), Edits (edit.go, rules.go), CustomTypes (detect_custom.go)
      LogLaws      Redaction (scan.go, redact.go)

    MC*            instances for TLC where a cfg is not enough
    *Proofs        theorems: Process, Limiter, RespPool, MemoryStore,
                   Redis (RedisStore), Reload, Conversation, Service

### Process

A request is `new`, `arrived` (it has its configuration and waits for the limiter),
`get`, `put` or `landing` (it leads a flight), `waiting` (it joined one), `reply`,
`done`. `Arrive` is the head of `handleProcess`; `Overloaded` its 429; `Lead` and
`Join` are `singleflight`'s two outcomes; `Lookup` is `store.Get` and the branch of
`resolveFlight` that follows: `RetryMask`, `Demask`, `Ambiguous`, `Corrupted`,
`UnknownMask`, `FirstMask`; `Put` is `maskAndStore`'s write; `StoreFails` every error
of the store that becomes 503; `Land` the end of the flight, when its key is free
again; `Respond` what the handler makes of the result by its own error mode. `Reload`
replaces the configuration between any two of these, `Lapse` and `Spoil` are what
happens to records by themselves (`store.ttl`, eviction, another encryption key).

Two things are data. `Engine[rule][text]` is the mask of a text, and
`Partial[rule][text]` are the masks it may get when detectors fail; both with
`MaskLike`, what `mask.LooksMasked` accepts, are constants, so the theorems hold
whatever the detectors do. Texts are compared by value where the code compares
hashes.

`store` is one map that every replica reads and writes in one step. That is what
`redis_shared` shows of `RedisStore` while no command fails. When commands fail,
`Process` has the error (`StoreFails`) but not the record that one replica alone can
see; `RedisStore` has that.

Malformed requests, answered before any state is touched, are left out. Audit records,
metrics and capture are side outputs of the handler, left out as well.

`issued` and `lapsed` are history variables: every pair ever stored, and the ids that
lost a record. `Ledger` keeps only the calls, the answers and `issued`: a request is
answered at most once, and each answer rests on a pair that is in the ledger already.

### MemoryStore

One step is what happens under one lock: `Insert` under the lock of the shard,
`Count` under the lock of the counter, `Scan` shard by shard, `Evict`, `Uncount`.
The sweeper does the same over all shards and settles at the end. A record is the
number of its Put, its stamp: all records live equally long, so they expire in the
order of their stamps and the model needs no clock but `expired`. The service never
calls Delete; the store offers it, and `Deleters` may.

`met` is history: which tasks have been under way at one time. Properties that hold
only of tasks that did not meet say so by it.

### Limiter

The two buffered channels with their queues of waiting goroutines. A place that is
given back goes to the head of the queue, as Go's channels do it. `GiveUp` is the
timer of `limits.max_wait` or the client's departure.

### RespPool

`permits` is the channel `sem`, `idle` the channel of free connections. `late` marks
connections on which the answer to an abandoned command may still arrive. In Go a
receiver that waits is handed the element directly; here it takes it a step later and
others may come first, so the model has all the program's behaviours and some more.

### RedisStore

Every call of every replica, split at what it shares with others: the pause (`Check`),
the command (`Send`), its outcome (`ReceiveAnswer`, `ReceiveFailure`), the fallback
(`Local`). `wire` holds the abandoned commands that Redis may execute later (`Late`)
or never (`Lose`). `owed` and `due` are history: the record that a replica, or a Get
already under way, may rely on. The fallback is a plain map here; it is a
`memoryStore`, so what section 4 says of that one's limits holds of it too.

### Reload

A step is one access to the file or one assignment other goroutines can see, since no
lock is held across an edit or an application. `HandEdit` changes the file at once, an
administrator's edit in three steps (`ReadAndEdit` with its checks, `WriteTemp`, `Rename`);
`CheckFileChange` is the tick of the watcher, `TakeSignal` a SIGHUP, `FirstStat` and
`Wire` what `main` does after its listeners are open. `Apply` goes through `applyConfig`
place by place: the custom detector, the mode of dates, the settings, and the two maps it
resets. A request reads these places one after another, and may find or build what a map
keeps. `met` is history again, of accidents: `overlap` (two applications at once), `cross` (the
file changed between an edit's reading and its renaming), `blur` (two contents with one
time of change), `missed` (a change between the load at the start and the first look
of the watcher), `straddle` (a request caught by a reset between its settings and its look
into the map). The properties name the accidents they do not survive, which is the finding:
each was put there because TLC showed the property to fail without it.

### Service

`main` is where the main goroutine is, from serving through the drain window and the
listeners, closed one after the other under one deadline, to the deferred closings of
capture, store and log. Handlers run, may hang and may be cut; at their end they offer a
record to the capture (`Finish`), whose goroutine writes lines and rotates files
(`WriteLine`). Any step of that may fail: what the code looks at leaves the file or the encoder dead
(the closing, the last renaming, the opening, a write that stops midway), what it does not look at, the
removal of the oldest file and the renaming of the older ones, leaves a file where it was, and the next
younger one goes over it (`refused`, `slipped`). The flush of the repeats is two steps, as it
gives up its lock between taking a count and telling it. `Degrade` is the hook of a
degraded store: with `unready` the copy leaves for good, else it warns through the filter
of repeats. The store's closing and the pool behind it are RespPool.

### Conversation

A turn loads the record of its dialogue, masks by placeholders counted anew from one, stores
the record, sends, and restores the answer; every one of these is a step, and each may fail
as the code lets it. The model writes placeholders it was given, or an earlier answer's, that
the client has kept in its history. A text is a few parts: a value found, or a placeholder.
The walk over the JSON of a request is left out. `Put` is the value as the answer has it: the code
writes it as JSON spells it (`Quote`) into a text that is no JSON any more, and then writes the
answer as JSON; `Values` without a quote or the like are those with `Quote[v] = v`.

### Algorithms and the Laws

The pure code is operators, one module per file or two, over texts whose elements are classes
of runes, words or fragments, the least in which the rules of the code can be told apart
(each module says which). `Algorithms` grows an input one element at a time and at any moment
may run the algorithms on it; a Laws module says what must hold of a run, as an action
property of `Run`. They are action properties rather than invariants because an invariant
would be evaluated on every input by name, and because TLC's report then has the input as the
last state before the run. Several laws make one property when they guard one promise.

## 3. The plan and what became of it

First came Process with its abstraction and proofs, then the stores, the limiter and the pool;
then what section 2 lists after them: Reload with Edits, Service, Conversation, the algorithms;
then the proofs about MemoryStore, RedisStore and Service; last those about Reload and Conversation,
the counter of MemoryStore and the files of Service. Every invariant and every action property
that a run checks of a part that keeps state is now a theorem.

Left, in the order of their worth: the level of the log with its term (`admin.go`); the walk of
the proxy over JSON; the detectors that are dictionaries and regular expressions; proofs of those
laws of the algorithms that hold for every input.

No module that is proved about, or that one reaches, has a RECURSIVE operator; recursion is
written as recursive functions and folds everywhere.

## 4. What is checked

| run | instance | shows |
|---|---|---|
| `process` | 3 requests, 2 systems, 1 id, 2 open texts with their masks, 2 configurations | `DemaskIsExact`, `OpenTextIsAccountedFor`, `KeepsLedger` |
| `process_custody` | 3 requests, 1 replica, 1 open text | `AnsweredMaskIsKept`, `RecordsAreWriteOnce`, `EveryRequestAnswered` |
| `process_race` | 2 requests, 2 open texts | a disagreement, see below |
| `memory` | 2 workers and the sweeper, 3 ids in 2 shards, limit 1, 4 Puts | `SettledExactly`, `VictimIsOldest`, `CountNeverOverstates` |
| `limiter` | 4 handlers, 2 places, 1 heavy | `PlacesMatchHolders`, `HeavyLeavesRoom`, `OrdinaryTextsGoOn`, `WaitersGetIn` |
| `pool` | 3 callers, 2 places, 3 connection names | `OneUserPerConnection`, `PlacesAccountedFor`, `IdleInStep`, `CallsReturn` |
| `redis_outage` | 2 replicas, 1 id, every failure | `RecordsReadBack`, `ErrorsStayInside` being a part of it |
| `redis_shared` | 2 replicas, 2 ids, 2 texts, no failure | `KeepsShared` |
| `reload` | an administrator, the watcher, a request, 2 parts of the file, 2 changes | `SettledWhole`, `QuietRequestsAgree`, `EditsKeepTheirWord`, `ChangesComeIntoForce`, types |
| `conversation` | 3 turns, 2 values, one of which JSON spells otherwise, texts of 2 parts | `OwnValuesComeBack`, `HistoryComesBack` |
| `service` | 2 requests, 2 listeners, a queue of 1, files of 1 line, 2 of them kept | `LeavesInOrder`, `NothingLostUntold`, `StopEnds`, types |
| `algorithms` | every input up to the bound of its kind, `MCBound` | the nine properties of the Laws, below |

The laws of `algorithms`:

| property | says |
|---|---|
| `TextIsCutRightly` | a fragment that `Resolve` leaves out lost to a better one, and the order of the detectors does not matter; tokens tile a text; windows count runes; numbers stand apart; an anchor sees its own value only |
| `NumbersAreJudged` | a number right after its own anchor is masked, checksum or not; paperwork stays open; no digit is taken twice |
| `DatesAreJudged` | the nearest word decides what a date is; a looser mode never opens a digit; the calendar is right; one slip of the pen in a month is forgiven |
| `ContextSparesClients` | no exclusion takes off a fragment that something near it says is a client's |
| `HiddenComesBack` | masks hide and keep the length, placeholders tell values apart, and give them back as JSON spells them, substitutes pass the detectors' checksums and keep their kind, a record decodes to what was encoded or to nothing |
| `SettingsMeanWhatTheySay` | after any sequence of changes by hand and by the interface the settings in force can be served by, are what was confirmed, and are what each page shows; what needs a restart is told, but for the section `capture` |
| `PartsMakeAWhole` | chunks lose nothing a whole reading finds, or say so; rules of combination see whole subjects |
| `WhatIsWantedIsMasked` | nothing wanted gives way to what is not; an inspection shows what is done |
| `JournalIsClean` | numbers, addresses of mail and names are kept out wherever in a record they stand; every record has its required fields once |

Why the bounds are enough. In Process ids do not interact, so one is enough; three
requests make a leader, a follower and a third party that spoils things between them,
or a mask, its demasking and a coalesced demasking. `t` is a text whose mask looks like
a mask, `u` one whose mask does not; a failing detector leaves a value of `t` in the
open and gives `u` back whole. In MemoryStore a limit of one makes every second record
overflow it, and two shards tell the oldest of a shard from the oldest of all; 4 Puts
let two evictions meet and the next Put show what they left behind. In
Limiter each queue gets longer than one. In RespPool there is always a caller
too many, and a third name lets a new connection be told from one discarded. In
RedisStore one text per id is what a client that keeps to the protocol has. In Reload two
changes let one overtake the other, two parts let an edit lose the other's, and watcher
and administrator are the two that apply; what a second administrator could do to the first, a
person's edit and the watcher do. In
Conversation the third turn sees what two concurrent ones left, and two values let a
placeholder change its meaning. In Service a queue of one drops the second record, and files
of one line rotate at every line, the oldest going over the edge; no files of earlier runs are there
at the start, or as many as there can be. The order of lines within one file, which files of one line do not
have, is in the theorem only. For the algorithms the constants of the code are scaled (chunks of 4 bytes
for 32 KiB, numbers of base 4 for 128; each module names its own) so that every boundary lies
within the inputs; the vocabularies, in `MCAlgorithms`, hold one member for every class the
code distinguishes.

Bounds that cut behaviours short: the finite `Requests` of Process and Service, the `Turns` of
Conversation, `MaxPuts` of MemoryStore, `MaxTurns` of Reload, `Bound` of Algorithms. The runs of
Process, MemoryStore, Conversation, Service and Algorithms end when these are used up and do not
look for deadlock; the others are checked for it. Requests of `process` and turns and values of
`conversation` are interchangeable, which is used as a symmetry; no run of a liveness property
uses symmetry.

Fairness. `Process!FairSpec`: each handler takes the steps it can take; `acquire` waits
no longer than `limits.max_wait` and a flight runs its function to the end. Nothing is
assumed of arrivals, reloads and lapses. `Limiter!FairSpec`: whoever holds a place gives
it back in the end and a handler that may go on goes on; nothing is assumed of the
timer, so `WaitersGetIn` does not rest on anyone giving up. `RespPool!FairSpec`: a call
proceeds, since every wait in it has a deadline (DialTimeout, ReadTimeout,
WriteTimeout) but for the send of `ReturnPermit`, which `CallsReturn` is about.
`Reload!FairSpec`: the main goroutine goes on after opening its listeners (`Wire`,
`FirstStat`), the ticker of the watcher fires, and an application that has begun goes on;
nothing is assumed of edits. `Service!FairSpec`: the main goroutine goes on, where each of
its waits has a deadline (`DrainOver`, `Closing`), the capture goroutine writes (`WriteLine`), a flush that has
begun goes on (`FlushTell`) and the balancer polls (`Notice`, an assumption about the environment, from `docs/BALANCING.md`); handlers may hang.

Conditions that a reader should know of:

- `AnsweredMaskIsKept` and `RecordsAreWriteOnce` need one replica and one open text per
  id. Flights belong to a process (`docs/ARCHITECTURE.md:283-284`), so two replicas can both
  find nothing and both write; when one of the masks is partial they differ.
- `CountNeverOverstates` excepts a sweep that meets two Puts that have met: both
  evictions take the same record off the count, which goes below zero, and the sweep
  raises it to zero. From then on the store evicts one record too early. It excepts
  Delete as well, which stops at zero in the same way and which the service never calls.
- `RecordsReadBack` allows `Unreadable`: a record that turned unreadable in Redis before
  a newer one went to the memory is still found first, and reported.
- A mask in `OpenTextIsAccountedFor` is what the engine makes with every detector at work. What it
  leaves open when some or all fail may go to a system in the open mode, marked, or to one that
  repeats the text after it was stored, unmarked (`OpenByFailure`, and below).
- `OrdinaryTextsGoOn` says of the heavy limit what it says in `acquire`: it counts the ordinary
  texts at work when somebody waits. It is empty when the heavy limit is no less than the common one.
- `ResolveKeepsTheBest`, a part of `TextIsCutRightly`, does not say that whoever a fragment lost to
  is kept. `RestartIsAskedFor`, a part of `SettingsMeanWhatTheySay`, excepts one section (below).
- `OwnValuesComeBack` and `HistoryComesBack` mean a value as JSON spells it, which is the value
  itself when it has no quote, backslash, control, `<`, `>` or `&`.
- `OwnValuesComeBack` is of values whose placeholder only this turn's masking has put into the
  text; `HistoryComesBack` of placeholders that have stood for one value and of dialogues whose
  turns did not run at once. Numbering starts anew in each turn, so the second turn may give the
  number of the first to another value: the placeholder of the first answer then comes
  back as that value, which `given` allows and README.md:257 does not.
- `LeavesInOrder` excepts what a second signal, the deadline of Shutdown or a failed listener
  cuts short; a handler cut short may then write to the closed capture channel.

### Where the code and its words part

`process_race` is a run: two texts at once under a free id, and the later Put replaces the
record of a mask already answered (`process.go:391`); `PROJECT.json` quotes the words.

Others seen while modelling, which no run states. Of the store and the handler:

- When every detector fails, the engine gives the whole text back with the names of what failed
  (`engine.go:228-289`), and in the open mode it is answered with 200 and `X-PII-Degraded`
  (`process.go:141-150`): there is no 503 for it. «Открытый текст не возвращается ни при каких
  условиях: при сбое без частичного результата сервис отвечает 503» (README.md:411, so too :243,
  :432-433, `docs/ARCHITECTURE.md:515-517`); «Открытый текст не отдаётся ни в одном из режимов»
  (`process.go:139-140`). One failing detector leaves its values open in the same way.
  `OpenTextIsAccountedFor` holds since it names this (`Partial[rule][u]` has `u` itself in it).
- A partial mask, that one included, is stored as a whole one, and a retry gets it without the degradation header,
  in the strict mode too (`process.go:391`; README.md:234, `engine.go:49-52`).
- The key of a flight has no system in it: who joins the owner's flight gets what the owner's
  right gave (`process.go:276`; `docs/ARCHITECTURE.md:321`).
- Two evictions choose one victim, and the store stays over its limit (`memory.go:205`;
  `docs/LOAD-TESTING.md:137-138`). A record put between the choice of a victim and its deletion is
  deleted in its place (`memory.go:212`); the empty id hides its shard from the choice
  (`memory.go:204`).
- A record put in an outage is hidden by an older one of its id when Redis is back, on the very
  replica that put it (`redis.go:239`; `docs/SYSTEM-DESIGN.md:419-421`).
- `ErrPoolBusy` starts a pause though Redis is up (`redis.go:337`), and in a pause
  Delete answers success while Redis keeps the record (`redis.go:271`). Ping has no caller, and one
  that was answered before Redis went down would lift the pause (`redis.go:291`).
- A value cut short, or of another version, goes for a missing record (`redis.go:236`), and sets
  off the hook of a degraded store (`main.go:603`).
- A connection given back while Close drains the pool stays open (`resp.go:259`).
- `mask.LooksMasked` goes by the share of stars: a long text with one short value
  hidden does not pass for a mask, and after its record has lapsed it is masked again
  and stored as an original (`process.go:369`, README.md:245).
- The degraded branch of the response returns before `X-PII-Ambiguous` is set
  (`process.go:147`, README.md:247).

Of the settings:

- Watcher and `/v1/rules` apply at once without a lock: the three places may hold two versions
  (`main.go:732`). Two edits lose one, both answered as applied (`edit.go:261`). A filter, or a client
  of the language model, built from the old settings is stored after the reset and serves
  until the next one (`engine.go:197`, `proxy.go:405`). A change between the load at the start and the
  watcher's first look, or within one tick of the file's time, is not seen (`main.go:665`).
- `set_system_enabled` of a system with an empty key answers that it is on, and the load keeps it
  off. Removing a custom type leaves systems that list it masking nothing in silence. A custom type in lower
  case in the file is matched by no system's list. `AllTypes` of the interface lacks five types
  the service masks (`edit.go:61-69`).
- Fields that need a restart come into force at once where a handler reads them from the
  configuration, though the answer says otherwise. A change of the section `capture`, which only
  the start reads (`main.go:308`, `:452-475`), is not reported (`main.go:769-776`), where the
  comment above the call says «поля, которые требуют перезапуска, не применяются на лету, и молчать
  о них нельзя» (`main.go:745-747`).

Of the rest:

- Two turns of a dialogue at once lose one's placeholders (`proxy.go:97`). A placeholder `[FIO_12]`
  nobody gave out is changed when `[FIO_1]` is known (`proxy.go:687-690`). The failure to read the
  upstream's answer leaves no audit record (`proxy.go:229`), where the comment at the failure to
  reach it says «обращение к персональным данным состоялось независимо от того, дождались мы ответа
  или нет» (`proxy.go:222-224`).
- A value comes back in the spelling of JSON: `restorePairsForToken` marshals it (`proxy.go:742-747`)
  though the text it goes into is decoded, and the answer is marshalled again (`proxy.go:620`), so
  a quote, a backslash or a new line in it comes back with a backslash before it, and `<`, `>`, `&` as
  `\u003c` and the like. README.md:251 promises «ответ с восстановленными значениями»,
  `docs/REVIEW.md:265` «JSON-экранирование значений корректно (проверено)».
- A failed rotation of a file ends it for good (`rotate.go:72`), and so does a write that fails once for the
  capture, since its encoder keeps the error (`capture.go:160`). An older file that cannot be removed or
  renamed is passed over (`rotate.go:78,83`): the next younger one goes over it and its lines are
  lost, which no counter tells; `FilesHoldTheLast` says what is left then. The log writes through the same
  rotation, where a record that was not written is counted nowhere (the log's own file is not modelled).
  The record of a handler that panics on the closed channel is lost untold as well. A level raised again before its term
  keeps the raised level for ever (`admin.go:56`).
- A fragment that lost to one that was itself beaten later stays out (`registry.go`, `Resolve`).
  In long texts two custom types with the same bounds collapse into one (`engine.go`, `dedupSpans`).
- The loop that looks for a free substitute does not end once all are in use (`mask.go:179`).
- A digit right before the sign of a mail address hides the address from the guard; an address of
  the network followed by a space is taken for a number (`scan.go`).

## 5. What is proved

For every value of the constants that meets the named assumptions of the module:

| theorem | says |
|---|---|
| `ProcessProofs!TypesHold` | `TypeOK`; among others, no response code but the documented ones |
| `ProcessProofs!DemaskingIsExact`, `NoOpenTextUnaccountedFor` | `DemaskIsExact`, `OpenTextIsAccountedFor` |
| `ProcessProofs!LedgerIsKept` | `Process` implements `Ledger` |
| `ProcessProofs!MasksAreKept`, `RecordsAreNotReplaced` | `AnsweredMaskIsKept`, `RecordsAreWriteOnce`, under `Discipline` |
| `LimiterProofs!PlacesAreTyped`, `NoPlaceIsLost`, `HeavyTextsLeaveRoom`, `LargeTextsHinderOnlyTheirLike` | `TypeOK`, `PlacesMatchHolders`, `HeavyLeavesRoom`, `OrdinaryTextsGoOn` |
| `RespPoolProofs!PoolIsTyped`, `ConnectionsAreNotShared`, `PlacesAreKept`, `ReusedInStep` | `TypeOK`, `OneUserPerConnection`, `PlacesAccountedFor`, `IdleInStep` |
| `MemoryStoreProofs!StoreIsTyped`, `CounterIsNeverHigh` | `TypeOK`, `CountNeverOverstates` |
| `MemoryStoreProofs!StoreSettles`, `OldestMakesRoom` | `SettledExactly`, `VictimIsOldest` if the empty string is not an id |
| `RedisProofs!RedisIsTyped`, `NoErrorComesOut`, `RecordsAreReadBack` | `TypeOK`, `ErrorsStayInside`; `RecordsReadBack` under `Disciplined` |
| `RedisProofs!StoreIsShared` | `RedisStore` implements `SharedStore` if `Failures = {}` |
| `ReloadProofs!ReloadIsTyped`, `SettingsAreWhole`, `QuietRequestsSeeOneContent` | `TypeOK`, `SettledWhole`, `QuietRequestsAgree` |
| `ReloadProofs!EditsAreKept` | the action property `EditsKeepTheirWord` |
| `ConversationProofs!ConversationIsTyped`, `MaskedValuesComeBack`, `EarlierValuesComeBack` | `TypeOK`, `OwnValuesComeBack`, `HistoryComesBack` |
| `ServiceProofs!ServiceIsTyped`, `CopyLeavesInOrder` | `TypeOK`, `LeavesInOrder` |
| `ServiceProofs!WrittenDownOrTold` | `NothingLostUntold`, two of whose five parts are `CaptureLosesNothingUntold` and `SilenceIsTold` |

The argument. `DemaskIsExact` speaks of answers alone and is not inductive: an answer
comes from a result, a result from a record, perhaps in another request's flight.
`GroundedInv` says it of all three: every record in the store is a pair that was issued;
every result on its way, and every answer, has grounds in `issued` for the call whose
flight produced it; and a request that waits has the key of its leader. Grounds are
monotone in `issued`, so a step that does not touch a request keeps them
(`GroundedMonotone`, `BystanderGrounded`), and each action need be looked at only for
the request it belongs to. `LedgerInv` adds that a request with an answer has a call,
which is what the abstract `Ask` needs; every step of Process is then a step of Ledger
or a stutter. `CustodyInv` adds that flights with one key have one leader, and that one
about to write finds its id as free as it read it. That last part is what fails without
`Discipline`: one replica, and per id one payload among those that may be masked (a
payload that every rule takes for a mask is not among them).

`PlacesInv` of LimiterProofs adds to the count of places that whoever stands in a queue is
there once and waits, so that the place handed to its head goes to somebody who had none,
and that only large texts pass by the heavy semaphore, so that what is given back was
taken. Each action then adds a handler to a set that is counted, takes one out, or does
one for the other. Nobody waits while there is room (`QueuedOnlyWhenFull`), and no more large texts are
at work than the heavy limit allows (`LargeAtWork`): whenever somebody waits, the other places are with
ordinary texts at work, which is `OrdinaryTextsGoOn`. `PoolInv` of RespPoolProofs adds that a call holds a connection exactly
between its getting and its return or discard, and that an answer can be late only on an
open connection that is about to be discarded. From the count follows that the sends
which give permits back never find the channel full.

`AloneInv` of MemoryStoreProofs says what a settled store says, but of a store at work: while no
two tasks have met, at most one thread is at work, and the count differs from the records by
what that one has still to count, at the stage it is at (`Fits`). `EmptyId \notin Ids` is needed
because the code takes the empty id of a victim for the lack of one, and the shard that holds
it then keeps a record too many. In `VictimIsOldest` the scan adds that the candidate is the
oldest of the shards passed.

`CounterInv` is of many threads. The inequality of `CountNeverOverstates` is kept by every step but
the two that stop at zero, `Forget` and `Settle`, which may raise a count below it. At those there
must be no more left to count than there are records (`UncountedIsStored`). A Delete that met nobody is
alone, so nothing is (`DeletesAreAlone`). If no Put has met a sweep nothing is being put while one settles
(`SweepsAreApart`). If no Put has met another there is one at most (`PutsAreApart`), whose record is
there (`PutIsThere`): no other Put and no Delete takes it, and no sweep, since it has not expired
(`PutsAreAlive`). The two accidents the property names are what is left.

`ErrorInv` of RedisProofs says at which stages which calls are, and that no call before its end
holds an error. `KeepInv` adds where the text that somebody relies on is: what a replica is owed
it would get from Redis or, Redis having nothing, from its memory (`OwedIsHeld`); what a Get
is due it would get at the stage it is at, and a Put that was answered is in Redis
(`DueIsHeld`); nobody relies on what is being deleted, abandoned deletions on their way included
(`DeletedNotOwed`). A step then either is gentle to an id, or deletes it, or lets its record lapse
(`StepFits`). `Disciplined`, one text per id, is needed because a Put abandoned in an outage may be
executed after a later one of another text. `Calm` says that without failures nobody pauses or
turns to a memory with anything in it, and that only a Get, of nothing, gets that far; every step
is then one of `SharedStore` or a stutter.

`LeaveInv` of ServiceProofs relates the stage of the main goroutine to the readiness, the balancer,
the listeners and the handlers in flight; `CaptureInv` adds that every record offered is in the queue,
in the file, or dropped, and that the queue is empty once it has been flushed; `RepeatInv` that
what was kept back is told or counted in the entry. For `FilesHoldTheLast` the invariant
`FilesInv` says where in the lines written each file begins (`Placing`): a file ends where the next
newer one begins, the newest at the last line; once a file has slipped, an older file still ends before
any younger one begins. A line written, a rotation with whatever was refused in it (`MovedIsLaid`) and a line
dropped keep that, by arithmetic on positions. `PlacedIsEnd` then goes from positions to the sequence
the files make, `NewestAreEnd` to that of the two newest, `PlacedInOrder` to `OlderFilesAreOlder`. `PartLast`
is that the encoder is dead when a part of a line is written.

In ReloadProofs `WholeInv` follows an application through the places it changes: what is on its
way has passed its checks (`Checked`), and as long as no two have met, the one under way has put its
content exactly into the places behind it (`OneByOne`). `QuietInv` adds the maps: between applications what is
kept, and what a request may yet put there, is of the settings in force (`MapFollows`), and so is
every request no application has met (`Undisturbed`). A request caught by a
reset between its settings and its look into the map can put an old filter there afterwards: that is the
accident `straddle`, and nothing is claimed after it. `EditInv` follows
an edit: a draft is the file with one part made new (`Drafted`), a renamed one is in the file and then
in what is applied (`Carried`), until `cross`.

In ConversationProofs the numbering of values is shown to be injective over any texts
(`FirstPlaceIs`, `NumberIs`), so that within a turn a placeholder stands for one value. `OwnInv` says of the
record, of what has been written and of every turn that a placeholder stands only for a value it was given
to (`Backed`, `Grounded`, `Sound`), and that this turn's own numbers lie over those of the record.
`HistoryInv` adds that, turns being one by one, what was ever given is in the record or with the turn
about to write it, and with every turn that may put it back (`Remembered`). The proofs know nothing of how JSON spells a value.

Only model-checked: liveness (`EveryRequestAnswered`, `WaitersGetIn`, `CallsReturn`,
`ChangesComeIntoForce`, `StopEnds`), which is beyond the prover, and the laws of the algorithms. The
library's induction theorems take a predicate as a parameter, which the provers cannot instantiate;
where a proof here needs induction over data (the concatenation of the files, the first place of a
value) it takes the least counterexample instead, from the well-foundedness of the natural numbers
or of finite sets (`Least`). The laws speak of inputs that `Algorithms` builds from small
vocabularies, and of recursions over them far longer than those two.

## 6. What is not modelled

- Detectors that are dictionaries and regular expressions: names, card holders, addresses, birth places,
  document words, mail, citizenship, extra documents. A model of a word list is the word list.
- The walk of the proxy over JSON, its write deadline, and TLS to the upstream; the YAML of the
  settings file and its layout; the text of the Redis protocol, encryption, the rebuilding of
  mail, place and Latin-name substitutes from lists.
- The groups of `slog` (`redact.go:242`), which nothing in the service opens. The mutex of the degradation record that the chunks share (`engine.go:345`).
- The level of the log with its term, the collector, the middleware; the routes, recovery and
  readiness page of `server.go`; static pages of the UI.
- Malformed requests, answered before any state is touched.
- Metrics, which nothing reads back, and the offline tools: `cmd/gen`, `corpus`, `score`, `sonar`,
  `loadgen`, `capture2corpus`.
