# A TLA+ model of Clara Cerebellum

Clara Cerebellum is a Rust server that runs *deductions*: a Prolog engine and a
CLIPS engine that exchange events through shared mailboxes (the *Coire*), consult
peer evaluators over a message topic (a *Ritual*), and stop when nothing is left to
do. It also offers plain interactive CLIPS and Prolog sessions. This directory
models that control logic, checks it with TLC on small instances, and proves its
main invariants with TLAPS for every instance.

To the Rust code the vendored engines (CLIPS in C, SWI-Prolog) are external: a pass
of an engine consumes what the code hands it and emits any set of events the library
files `the_coire.pl` and `the_coire.clp` let a rule emit. Of CLIPS the part a pass rests
on, the agenda and the run loop, has a module of its own.

## 1. Inventory

| Part | State | Operations | Hard because |
|---|---|---|---|
| `CycleController` (clara-cycle) | cycle counter, pending offers and their age, interrupt flag, root goal's answer | `run`: Prolog pass, relay, CLIPS pass, relay, evaluator pass, convergence check, interrupt check, three orderly exits, an error exit | replies late, twice or never; timeouts written by the check that decides to stop; a snapshot older than what it decides about |
| Coire (clara-coire) | pending events per session, by origin | write, poll by origin prefix, clear, count | one process-wide store shared by engines, relays, controller and API clients |
| CoireStore | stored events, snapshots, Rituals, sources (DuckDB file) | save, restore under a new id, delete, expire | upserts by event id, statements without a transaction, restarts |
| Carrion picker | the active set it read, the expired and stale ids it found | periodic sweep in four passes | decides on what it read at the start of the sweep |
| Deduce handlers (clara-api) | status entries, active sessions | start, resume, interrupt, delete, poll | an async task, a blocking thread and clients per deduction |
| Session manager (clara-session, session/eval/devils handlers) | session map, two environment maps | create, terminate, save, use, touch, eval | every operation takes several locks in turn and carries a copy of the session between them |
| Ritual registry, broker, handle (clara-ritual) | Rituals, performance ids, topic log, consumer offsets | create, join, terminate, restore, publish, poll | idempotent joins across restarts, offsets shared by clones |
| Evaluate cache and toolbox (clara-toolbox) | cached tool answers, the deduction id of each thread, the toolbox mutex | lookup, run, insert, evict | lookup and insert under separate locks, pool threads that change deductions, tools that call back into a session |
| CLIPS agenda and run loop (vendored) | activations per module, salience groups, focus stack, strategy, firing rule | assert, retract, refresh, remove a rule, reset, strategy, salience and focus commands, run | right-hand sides change the agenda the loop walks |
| Dagda tableau, source registry | truth values per predicate; content-addressed sources | upsert, export, import; register, expire | timestamps of a millisecond |
| caws library | memo of offers, cached replies | offer, await, emit, tee, pipe | memoisation per engine, correlation ids |
| transduction, transpile, clients, adapters, viewers, caw, front desk | none that lasts | translation, HTTP | not concurrent |

How they interact: a handler inserts a status entry and spawns an async task, which
spawns a blocking thread. The thread creates the engines, sends their session ids to
the task (which registers them as active), perhaps restores stored events, and calls
`run`. On exit `run` saves both mailboxes to the store and clears them. The task then
releases the ids, records the verdict, and writes the snapshot. The picker deletes
expired snapshots and old rows beside all of this.

`PROJECT.json` lists the hazards, each at its line with the properties that are
about it.

## 2. Modules

| Module | Models | Role |
|---|---|---|
| `Coire` | `coire.rs`: events and origin polls | data, extended by `CycleController` |
| `CycleController` | `controller.rs`, `relay.rs`, engine passes | one action per step of `run()`, plus the peers, the pushing client and the interrupting client |
| `ConsultProtocol` | – | abstract: an Offering gets at most one outcome; a run converges with none open |
| `DeduceService` | `deduce_handler.rs`, `store.rs`, `carrion_picker.rs`, restarts | deductions, tasks, threads, store and sweep side by side |
| `RitualService` | `registry.rs`, `handle.rs`, `broker.rs` of clara-ritual, the rituals table, restarts | Rituals, joins, topics and handles |
| `SessionService` | `manager.rs`, `store.rs` of clara-session and its handlers | requests of several workers, one lock per step |
| `EvaluateCache` | `ffi.rs`, `manager.rs` of clara-toolbox, the wrapper in `userfunctions.c`, the passes of the sweep that evict | deductions, session scripts, tool calls and the sweep side by side |
| `ClipsAgenda` | `agenda.c`, `crstrtgy.c`, the run loop and focus stack of `engine.c`, `ResetDefrules` | one environment: commands between runs and inside right-hand sides |
| `MC_*` | – | instances and symmetry for TLC |
| `*Proofs` | – | theorems and inductive invariants |

Every module marks *mutants* beside the definition they would replace: plausible
wrong versions of a definition, used to show that a property notices.

### CycleController and the code

`pc` names the next step of `run()`. A mailbox (`pm`, `cm`) is the set of its
distinct pending events: every consumer takes all events with a given origin in one
locked statement and the code compares counts only with zero. An event keeps its
origin class, its label and its correlation id; payloads are dropped. `offers` and
`waiting` are `pending_offers`. `progressed` abstracts the tableau to whether
`tableau_changed_since` would say yes, which it may miss within a millisecond.
`agendaEmpty` is the truth about the CLIPS agenda; `clips_agenda_empty` is what
`has_converged` reads of it, which is always "empty" (violation 1 below).
A rule that polls its mailbox (`coire_poll/2`) takes everything pending, its own unsent
Offerings included; `caws_await` takes the `ritual/` events only. A pass may emit any set
of consultations whose ids are fresh. `CoireFails` lets the writes and the clears of the
controller fail where the code only logs. A client pushes events of any origin, reserved
ones included, which the label "pushed" tells from the controller's own. An envelope of
another performance may carry a correlation id of ours, as relays keep it; the controller
hands it to the rules and settles nothing.
`sent`, `outcome` and `lost` are history variables. `sent` is also read as the content
of the topic: which Offerings a peer can answer, and which ids a new one may not use.
No step of the controller reads the other two. `Deliver`, `CoirePush` and `RaiseInterrupt` are
the threads beside the controller and are enabled between any two of its steps.

`DeduceService` merges the two mailboxes of a deduction, which are always saved,
restored and deleted together, and replaces `run()` by "consumes and emits, then
ends". It assumes a configured store and, with `StoreFails`, lets every operation of
it fail: the code logs and carries on. `CoireFails` does the same for the in-memory Coire.
A row that is marked processed (`done`) keeps its event id until its session is cleared,
so that a restore can collide with it. A client may push to the ids of any deduction, a
finished one too. `family`, `home` and `stray` are history: the deductions a snapshot
descends from, where each event came into being, and the rows a failed clear or a late
push left. `delete_snapshot` is several statements; the
model lets it stop after the events. Passes 3 and 4 of the sweep touch the evaluate
cache and the source registry only: pass 3 is in `EvaluateCache`, pass 4 is not modelled.

`SessionService` has one action per lock acquisition. `req[w]` is the request worker
`w` handles: where it is, and the copy of the session it carries. Statuses no
operation sets (Idle, Paused, Suspended) are left out. Timestamps, names, limits of
resources and lists of loaded files are dropped.

`RitualService` splits `create` where it releases the map's lock; every other registry
operation holds that lock throughout and is one action. A topic is an append-only
sequence; a record is a live envelope, an expired one, or something that does not
parse. A handle's clones share its offset and one controller thread polls it, so a poll
is one action; with Kafka it may fetch any prefix of what is there. `StoreFails` and
`BrokerFails` let every call fail where the code logs and carries on; calls whose
failure changes nothing (a refused topic, publish or poll) need no action. `issued`,
`ended` and `unsaved` are history variables, as is the field `seed` of a handle: whether
`latest_offset` answered when it was made.

`EvaluateCache` has two kinds of actors. A pool thread seeds the engines of a deduction,
then runs its cycle, which installs the deduction's id in the thread, and is then free
for the next one. A worker runs a session's script while it holds the write lock of all
environments. Either may call `clara_evaluate`; the call is one action for each lock it
takes: lookup, toolbox mutex, tool, fill. `CallBack` is FieryPit using a session of this
server before it answers. `Received` is the foreign-function boundary: Prolog's
predicate hands over the text of the request, the function of CLIPS hands over a pointer
to the environment, so that any text in `EnvironmentText` may arrive. `owner`, `runs`,
`got` and `astray` are history: no guard reads them. Tool answers are reduced to
their status, requests to whether they are JSON. The clock is the one `created_at_ms`
and the TTL pass use.

`ClipsAgenda` names an activation by its partial match: the marker of a match points to
at most one. `net` is the state that asserts, retracts and commands work on, in one
record because operations such as a refresh or a removal apply a function to it several
times. A module's agenda is its list and its salience groups with their first and last
pointers; the `prev` and `next` pointers are the order of the list. Which matches exist,
in what order a beta memory is walked, and what a salience expression evaluates to are
nondeterministic. The seven searches of `crstrtgy.c` are `PlaceAfter` and `Search`
with one comparison for each strategy. `Activate` takes the set of matches one assert
makes, and goes on after a salience that fails. A rule that is removed and defined again keeps its last
salience. Left out: breakpoints, watching and statistics, garbage collection,
`MoveActivationToTop` and `DeleteAllActivations` (no caller in this program), and `(run)`
inside a run, which returns at once. Time tags are those of facts: an instance changes
its own in place (`objrtmch.c:1341`), which would need the object system. A refresh of
saliences evaluates a rule's expression once, where the code does so for each activation
(`agenda.c:1103`); the two differ only for an expression that changes while it is read.

## 3. Runs

| Run | Expect | Shows | Bounds |
|---|---|---|---|
| `CycleController` | pass | `OneOutcome`, `PatienceExact`, `ConvergedQuiescent`, `ImplementsConsult` | one correlated and one legacy Offering, patience 2, 3 cycles, 2 envelopes |
| `CycleResume` | pass | `TypeOK`, `SavedSurvivesEvict`, `ConvergedQuiescent`, `RunReturns` | restored events, no Ritual, 2 cycles, 1 push, failures of Coire and store |
| `CycleAgenda` | violation | `ConvergedAgendaEmpty` | as the first, without traffic |
| `DeduceService` | pass | `TypeOK`, `SnapshotsAreIdle`, `FinalStatusIsVerdict`, `LeakAccounted`, `LineageKept` | 2 deductions, 1 event, 2 instants, pushes, failures of both stores |
| `DeduceLiveness` | pass | `DeductionSettles`, `OrphansCollected` | 1 deduction, 1 event, 4 instants, 1 restart |
| `DeduceOrphans` | violation | `OrphanSweepSparesSnapshots` | coire TTL 1, snapshot TTL 3 |
| `SessionService` | pass | `TypeOK`, `QuotaOvershoot`, `ClipsEngineFreed`, `IdentityStable` | 2 workers, 3 session ids, 2 users, limits 2 and 1 |
| `RitualService` | pass | `TypeOK`, `KeyedIdentity`, `Delivery`, `TerminatedClosed` | 1 Ritual, 2 keys, 3 performance ids, 1 deduction, 3 records, 2 restarts |
| `RitualLateUpsert` | violation | `TerminationSurvives` | 1 Ritual, 1 restart, nothing fails |
| `EvaluateCache` | pass | `TypeOK`, `RunAnswersOwn`, `OncePerDeduction`, `SweptFreed`, `EvaluateReturns` | 1 pool thread, 2 workers, 2 deductions, a request and a text that is no JSON, 2 calls, 3 instants, TTL 1 |
| `EvaluateClipsText` | violation | `RequestsReachToolbox` | calls from CLIPS only |
| `ClipsAgenda` | pass | `TypeOK`, `AgendaOrdered`, `GroupsDelimit`, `MarkersAgree`, `Refraction`, `BestFired` | 3 rules, 4 matches, 2 modules, 7 strategies, saliences 0 and 1, `MaxTag` 3 activations, `MaxFocus` 2 |

Why the bounds are enough to meet the interesting cases:

- With patience 2 and 3 cycles an Offering sent in the first cycle can be answered in
  time, answered twice, expire in the second check and be answered after that; an
  Offering sent in the second can expire in the third. Two envelopes make a duplicate
  and a late one. One correlated and one legacy Offering are pending together.
- Two deductions make a resume race its original's deletion, its expiry, and a second
  deduction's sweep. The event may be born at instant 0 only (`MaxBorn`), so that it
  can be both older and younger than a TTL of 1.
- Two workers and three session ids let the per-user limit be passed by one, the
  most two workers can. Passing the global limit as well would need a fourth id:
  `QuotaOvershoot`'s global half is vacuous in the run and comes from the theorem.

- Two restarts let a restart that cannot read the table be followed by one that can.
  Three records let a handle join behind one, fetch in two parts and drop one. Rituals
  and handles do not touch each other; any number of them is covered by the theorems.

- One pool thread makes two deductions share it; two workers make the circle
  possible in which a tool waits for a session, the session for the environments, and
  the script that holds them for the toolbox. Two calls are a fill and a hit, or a call
  and the one inside it. Three instants let an entry be younger, as old and older
  than the TTL. With one pool thread no two calls of a deduction can meet between lookup
  and fill: several threads are covered by the theorems only.
- Three activations in one run make a salience group with an interior, three groups, or
  two modules with activations; each strategy is met with ties (two matches of one
  rule, equal random numbers, equal recency) and with a negated first pattern (time tag
  0). One rule is auto-focus, in the second module; one has a salience expression, which
  may fail. A run limit of 1 and none differ in where the loop ends. Longer agendas add
  no new case of an insertion or a removal: each looks at its neighbours and its group.

`CHECK_DEADLOCK FALSE` appears for `EvaluateCache`, whose clock, calls and deductions are
bounded, for `CycleController`, whose run ends, and for
`RitualService`, which has nothing left to do when its only Ritual is gone and its
restarts are used up.

Symmetry is used for safety runs only, over deductions, and over workers, session ids
and users.

### Fairness

`CycleController`: weak fairness of the controller's own next step. It runs on a
dedicated blocking thread, and each call it makes is assumed to return: a rule program
or a query that diverges is outside the model. Peers and clients are not fair. `RunReturns` therefore rests on the cycle budget alone. It is checked without a Ritual, where
the graph is small enough for a liveness check: Offerings and envelopes enter only the
decision that a run has converged, and the interrupt and the budget are looked at after it
whatever it said.

`DeduceService`: weak fairness of each deduction's thread and task, of the sweep loop
(which sleeps and repeats for ever) and of the clock. A thread's fairness includes
`RunExit`, which is what `RunReturns` shows of the detailed module. Clients and
restarts are not fair.

`EvaluateCache`: weak fairness of each step a thread takes on its own (take the toolbox
or the environment lock when it is free, return from a tool, fill the cache, end a
script) and of the HTTP deadline: `FieryPitClient::new` uses `Client::new()` of blocking
reqwest, whose default timeout is 30 s. Nothing makes a client call, FieryPit call back, a
tool panic, or the picker sweep. Weak fairness of a lock is enough in the run because
the number of calls is bounded. A script that never ends is outside the model.

### What the violations show

1. `CycleAgenda`: `has_converged` asks for `(get-agenda)`, which CLIPS does not have. The
   expression never parses and its error is read as "empty". A rule that halts or fails
   leaves activations, and the run converges over them. Rules in a module that is not
   on the focus stack are left in the same way.
2. `DeduceOrphans`: the orphan query ignores snapshots, so that with the default TTLs a
   snapshot older than a day resumes without its events.
3. `RitualLateUpsert`: `create` writes its row after releasing the lock. A termination
   that comes between is reported, updates no row, is overwritten by the late row, and
   is undone by the next restart. `KeyedIdentity` and `TerminatedClosed` are the other
   side: a Ritual all of whose writes reached its row is never confused.
4. `EvaluateClipsText`: the C declaration of `rust_clara_evaluate` has two parameters and
   its definition one, so that a call from CLIPS evaluates bytes of the environment. The
   tests of that path only look for some answer.

Other disagreements between comments and code, which the model reproduces and no run is
spent on:

- `has_converged` looks at mailbox counts taken before it runs the root goal again: a
  goal that makes a second consultation when the first is answered converges with that
  Offering in the mailbox.
- The `?` exits of `run()` skip the save that `with_store` promises for every exit. An
  orderly exit leaves rows in the Coire too when `clear_session` fails, which is only
  logged (`controller.rs:511-518`), and a push to the ids of a finished deduction writes
  new ones (`coire_handler.rs:51-71`); nothing ever removes them. `LeakAccounted` is the
  other side: there is no fourth way.
- `rituals_101.md:395` and `deduce_endpoint.md:1097` describe patience as a count of
  consecutive cycles without any inbound envelope. In the code, and in
  `ritual_typed_edges.md:47`, each Offering has its own; `PatienceExact` is about that.
- `registry.rs:157` and `broker.rs:42` say that a new handle does not replay earlier
  messages. When `latest_offset` fails the handle starts at offset 0 and does. `Delivery`
  promises "nothing older than the join" to every other handle.
- `coire_store_ttl_seconds = 0` is documented to disable the picker (`schema.rs:89`) or its
  orphan sweep (`default.toml:39`). `server.rs` spawns it all the same, and with 0 every
  stored event that is not active is an orphan. The model does what the code does.
- An Offering that a run without a Ritual leaves is saved and restored with its session,
  but `resume_deduce` attaches no Ritual (`deduce_handler.rs:354-358`), so no later run
  sends it; and a rule that calls `coire_poll/2` has taken it out of the mailbox before.
- A reply addressed to this node from another performance is given to the rules as a
  message (`controller.rs:668-680`). With a correlation id of ours, which relays keep,
  `caws_await` takes it for the answer although the offer stays pending until its own
  reply or its timeout.
- A snapshot TTL of 0 is documented as "never" and deletes snapshots in the next sweep.
- With a cache TTL of 0, eviction on snapshot expiry is documented to go on; the server
  then gives the picker no handle on the cache. `EvaluateSweptFreed` assumes a positive TTL.
- A stale copy written back after a termination leaves a session that is Active and has
  no engine.
- What a directive asks while a deduction is seeded goes to the cache's global namespace,
  since `run()` installs the id later; another deduction's seeding is answered from it.
- The "rule firing limit reached" message of `Run` compares the firings left with the
  firings made; `run_rules` reports 0 rules fired because `(run)` returns nothing.

## 4. Proofs

All theorems hold for every value of the constants that satisfies the named
assumptions (`CidAssumption`, `ControllerAssumption`, `ServiceAssumption`,
`SessionAssumption`, `RitualAssumption`, `EvaluateAssumption`, `AgendaAssumption`);
nothing else is assumed. TLC evaluates these assumptions in every run.

**CycleControllerProofs.** `TypeCorrect`, `OneOutcomeHolds`, `PatienceHolds`,
`QuiescentHolds`, `SavedHolds`, and `ConsultImplemented` (refinement). None of the
properties is inductive. The invariant adds

- `StatusInv`: the status is "running" until the run reaches its save;
- `OfferInv`: the pending offers are exactly the published Offerings without an
  outcome, and no Offering has two;
- `FreshInv`: an Offering still in the Prolog mailbox carries an id that was minted and
  never published, so that publishing it cannot reopen a settled offer;
- `SnapshotInv`: at the check, a snapshot that said "empty" still describes both
  mailboxes up to a client's pushes;
- `SaveInv`: nothing is lost before the eviction, and what it will clear is in the
  store, again up to pushes.

**DeduceServiceProofs.** `TypeCorrect`, `SnapshotsIdleHolds`, `FinalStatusHolds`,
`LeakHolds`, `LineageHolds`. The invariant says for every deduction how the task, the thread, the id
channel, the entry and the active set go together (`Life`), and what the verdict and
the rows in the Coire are once the thread has returned (`Outcome`): none after an orderly
exit except those in `stray`, the failed clears and the late pushes. `Lineage` says that
the family of a resumed deduction includes that of its source, and that an event, in the
Coire or in the store, is under a session in whose family it came into being: a collision
of event ids may lose a copy and never hands a deduction another's events.

**SessionServiceProofs.** `TypeCorrect`, `IdentityHolds`, `ClipsEngineHolds`,
`QuotaHolds`. `Identity` says that a request past its first step works on a stored
session whose owner and type its copy has; `Copy` says which requests may carry
Terminated, and that they remove the engine next; `EnvInv` says that a terminated
session with an engine always has a request about to remove it or to overwrite the
status; `QuotaInv` counts the creations that have passed a check together with the
sessions that exist.

**RitualServiceProofs.** `TypeCorrect`, `KeyedIdentityHolds`, `TerminatedClosedHolds`,
`DeliveryHolds`. `WriteThrough` says of a Ritual without a lost write that its row is
absent while `create` is in its window and equal to the map's entry afterwards, unless
the table could not be read, and that the row records every confirmed termination and
every issued id. It is what carries an identity over a restart. `HandleInv` says that a
handle lies within its topic and has returned every live envelope between its join
and its offset, none twice and none beyond, and none older than its join unless the
offset could not be read.

**EvaluateCacheProofs.** `EvaluateTypeOK`, `EvaluateOwn`, `EvaluateOnce`,
`EvaluateSweptFreed` (the last for a positive TTL). The invariant `Inv` says how a
thread's phase, job and context id go together (`JobOK`) and that no two threads work
for one deduction (`OneThread`); that a worker started by a tool call serves a call that
still waits (`LinkOK`); that an entry is attributed to, and was computed for, the
deduction of its key (`EntryOK`); that a call is under way only while nothing is cached
for it (`PendingOK`); and that a tool run is accounted for by such a call or by the entry
it left (`RunsOK`). One thread for each namespace is what
makes separate lookup and fill safe.

**ClipsAgendaProofs.** `TypeHolds`, `OrderHolds`, `GroupsHold`, `MarkersHold`,
`RefractionHolds`, `BestFires`: every property of the agenda, for any rules, matches,
modules, saliences and bounds. The argument goes up in four layers.

1. *The strategies are orders.* `LessRecentOrder`, `BeatsOrder` and `AheadOrder`: under
   each of the seven strategies `Ahead` is a strict total order on activations with
   distinct time tags. `AfterAhead`: the comparison a search of `crstrtgy.c` makes says
   the new activation goes after the old one exactly when the old one is ahead.
2. *One agenda.* `AgendaOK` says that a list has no activation twice, is sorted, holds
   the marked matches of its module, and is delimited by its groups. `PlaceOK` and
   `UnlinkOK`: placing and unlinking one activation keep it. `ReorderOK`: placing the whole
   list again yields it, whatever order the list had.
3. *The engine's record.* `AddOK`, `DetachOK`, `AddActivationsOK`, `RemoveActivationsOK`,
   `RefreshOK`, `SetStrategyOK`, `NextFocusOK`: every operation on `net` keeps all
   agendas, the tags below the clock and the counts.
4. *The steps.* `Inv` adds that the count is right with the firing activation
   (`CountOK`), that a spent match has no marker, which is what refraction rests on, and
   that the focus of a run that continues has an activation to fire (`LoopOK`). One lemma
   for each action.

`ReorderAgenda`, `AddActivations` and `RemoveActivations` run over lists of any length.
The induction they need is made on the set of lengths for which the statement fails,
which would have a least element (`Induction`, from the library's facts on well-founded
relations); the library's own induction theorem, with its operator parameter, is beyond
the provers. To be reasoned about in this way these loops are functions on the length, not folds.

Only model-checked: the liveness properties (`RunReturns`, `DeductionSettles`,
`OrphansCollected`, `EvaluateReturns`), which need fairness and ENABLED, and these are out
of the prover's reach. Every other property of a passing run is a theorem. No module
declares a RECURSIVE operator.

## 5. Not modelled, and the plan

Not modelled of Rituals: the bootstrap of listed participants and its token cache,
which change no Ritual; rows that do not parse, which the code never writes; the
deletion of a topic at the broker.

Not modelled of the toolbox: registration of tools at start-up, the call counter, the
size of entries, `clear_evaluate_cache` (tests only).

Not modelled of the engines: the CLIPS join network, parsers, object system, functions
and memory management, and SWI-Prolog. This third-party C is 390 000 of the repository's
lines, more than nine tenths of them; the program's own logic is the Rust code around
it. The project models of the C what a pass of CLIPS and the foreign-function boundary
rest on, about 2 100 lines. The rest has no state that the server's properties tell apart,
and a share of it comparable to that of the Rust crates is out of reach of a
model that is to stay readable.

Not modelled at all: the clients and adapters, the viewers, the front desk, the caw
interpreter, and logging and tracing, for the reasons in `PROJECT.json`.

Next, in this order:

1. A composition that puts a `CycleController` in the place of the abstract run of
   `DeduceService`.
2. Dagda's tableau and the source registry: upsert, export and import under session
   ids, expiry while a deduction refers to a source.
3. The caws library: memoised offers, the order in which `caws_await` looks, tees, and
   the translation between Prolog and CLIPS terms as pure operators.
