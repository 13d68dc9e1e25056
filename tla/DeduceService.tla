--------------------------- MODULE DeduceService ---------------------------
(***************************************************************************)
(* The life of deductions in the API server (deduce_handler.rs), their     *)
(* mailboxes in the in-memory Coire and in the CoireStore (store.rs), and  *)
(* the background task that deletes stale rows (carrion_picker.rs).        *)
(*                                                                         *)
(* Every deduction has an async task and a blocking thread.  A deduction   *)
(* creates fresh session ids, so its id stands for its session pair; the   *)
(* Prolog and the CLIPS mailbox, always saved, restored and deleted        *)
(* together, are one mailbox here.  CycleController models what the thread *)
(* does in run(); here run() consumes and emits events and ends.           *)
(***************************************************************************)
EXTENDS Integers, FiniteSets

CONSTANTS
  Ded,          \* deduction ids
  Ev,           \* event ids
  None,         \* no deduction, no snapshot
  CoireTtl,     \* coire_store_ttl_seconds
  SnapshotTtl,  \* deduction_snapshot_ttl_seconds
  StoreFails,   \* an operation of the CoireStore may fail
  CoireFails,   \* an operation of the Coire may fail
  MaxClock,     \* bound: the last instant
  MaxBorn,      \* bound: no event is emitted after this instant
  MaxCrash      \* bound: restarts of the server

ASSUME ServiceAssumption ==
  /\ None \notin Ded
  /\ CoireTtl \in Nat /\ SnapshotTtl \in Nat /\ StoreFails \in BOOLEAN
  /\ CoireFails \in BOOLEAN
  /\ MaxClock \in Nat /\ MaxBorn \in Nat /\ MaxCrash \in Nat

VARIABLES
  entry,    \* AppState.deductions: the status clients poll
  flag,     \* its interrupt flag
  persist,  \* the request asked for a snapshot
  from,     \* the deduction whose snapshot this one resumes, or None
  task,     \* the next step of the async task
  thread,   \* the next step of the blocking thread
  ids,      \* the oneshot channel for the session ids
  verdict,  \* what run() returned
  active,   \* active_coire_sessions
  live,     \* the session of each event's row in the Coire
  done,     \* the events whose row is marked processed
  stored,   \* the session each event is stored under in the CoireStore
  born,     \* created_at_ms of each event, -1 before it exists
  snap,     \* expires_at_ms of each deduction's snapshot row, or None
  clock,
  picker,   \* the sweep: its step, and what it read when
  crashes,
  family,   \* history: a deduction and those its snapshot descends from
  home,     \* history: the deduction each event was emitted in or pushed to
  stray     \* history: rows that a failed clear kept or a late push wrote

handleVars == <<entry, flag, persist, from, family, task, ids>>
mailVars   == <<live, done, born, home, stray>>
runVars    == <<thread, verdict, mailVars>>
storeVars  == <<stored, snap>>
restVars   == <<clock, crashes>>

vars == <<handleVars, runVars, storeVars, restVars, active, picker>>

Verdicts == {"Converged", "Interrupted", "MaxCycles", "Error"}

Idle == [at |-> "idle", now |-> 0, exclude |-> {}, todo |-> {}]

TypeOK ==
  /\ entry \in [Ded -> {"none", "Running", "Converged", "Interrupted", "Error", "lost"}]
  /\ flag \in [Ded -> BOOLEAN] /\ persist \in [Ded -> BOOLEAN]
  /\ from \in [Ded -> Ded \cup {None}]
  /\ task \in [Ded -> {"none", "ids", "wait", "record", "persist", "end", "dead"}]
  /\ thread \in [Ded -> {"none", "seed", "restore", "run", "save", "evict", "returned", "dead"}]
  /\ ids \in [Ded -> {"pending", "sent", "dropped"}]
  /\ verdict \in [Ded -> Verdicts \cup {"none"}]
  /\ active \subseteq Ded
  /\ live \in [Ev -> Ded \cup {None}] /\ stored \in [Ev -> Ded \cup {None}]
  /\ born \in [Ev -> Int] /\ home \in [Ev -> Ded \cup {None}]
  /\ done \subseteq Ev /\ stray \subseteq Ev
  /\ family \in [Ded -> SUBSET Ded]
  /\ snap \in [Ded -> Nat \cup {None}]
  /\ clock \in 0..MaxClock /\ crashes \in 0..MaxCrash
  /\ picker \in [at : {"idle", "snapshots", "orphans"}, now : Nat,
                 exclude : SUBSET Ded, todo : SUBSET Ded]

Init ==
  /\ entry = [d \in Ded |-> "none"]
  /\ flag = [d \in Ded |-> FALSE] /\ persist = [d \in Ded |-> FALSE]
  /\ from = [d \in Ded |-> None]
  /\ task = [d \in Ded |-> "none"] /\ thread = [d \in Ded |-> "none"]
  /\ ids = [d \in Ded |-> "pending"] /\ verdict = [d \in Ded |-> "none"]
  /\ active = {}
  /\ live = [e \in Ev |-> None] /\ stored = [e \in Ev |-> None]
  /\ born = [e \in Ev |-> -1] /\ home = [e \in Ev |-> None]
  /\ done = {} /\ stray = {}
  /\ family = [d \in Ded |-> {d}]
  /\ snap = [d \in Ded |-> None]
  /\ clock = 0 /\ picker = Idle /\ crashes = 0

Kept(d)    == {e \in Ev : live[e] = d}     \* the rows of a session in the Coire
Pending(d) == Kept(d) \ done               \* read_pending
Rows(d)    == {e \in Ev : stored[e] = d}   \* read_session

-----------------------------------------------------------------------------
(* The handlers. *)

\* A request is accepted: the entry is inserted and both threads start.
Accept(d, source) ==
  /\ entry[d] = "none"
  /\ entry' = [entry EXCEPT ![d] = "Running"]
  /\ \E p \in BOOLEAN : persist' = [persist EXCEPT ![d] = p]
  /\ from' = [from EXCEPT ![d] = source]
  /\ family' = [family EXCEPT ![d] = IF source = None THEN {d} ELSE {d} \cup family[source]]
  /\ task' = [task EXCEPT ![d] = "ids"]
  /\ thread' = [thread EXCEPT ![d] = "seed"]
  /\ UNCHANGED <<flag, ids, verdict, mailVars, active, picker, storeVars, restVars>>

StartDeduce(d) == Accept(d, None)

\* resume_deduce loads the snapshot and rejects one whose session is active.
ResumeDeduce(d, s) ==
  /\ snap[s] # None
  /\ s \notin active
  /\ Accept(d, s)

\* Mutant: the entry is marked whatever its status.
InterruptDeduceAlways(d) ==
  /\ entry[d] \notin {"none", "lost"}
  /\ flag' = [flag EXCEPT ![d] = TRUE]
  /\ entry' = [entry EXCEPT ![d] = "Interrupted"]
  /\ UNCHANGED <<persist, from, family, task, ids, runVars, active, picker, storeVars, restVars>>

\* interrupt_deduce raises the flag and marks a running entry at once.
InterruptDeduce(d) ==
  /\ entry[d] \notin {"none", "lost"}
  /\ flag' = [flag EXCEPT ![d] = TRUE]
  /\ entry' = [entry EXCEPT ![d] = IF @ = "Running" THEN "Interrupted" ELSE @]
  /\ UNCHANGED <<persist, from, family, task, ids, runVars, active, picker, storeVars, restVars>>

\* CoireStore::delete_session.
RowsDeleted(s) == [e \in Ev |-> IF e \in Rows(s) THEN None ELSE stored[e]]

\* CoireStore::delete_snapshot: nothing if there is no row, else the events of
\* its sessions and then the row, each by a statement of its own.
DeleteSnapshotRow(s) ==
  \/ snap[s] # None /\ stored' = RowsDeleted(s) /\ snap' = [snap EXCEPT ![s] = None]
  \/ snap[s] # None /\ stored' = RowsDeleted(s) /\ UNCHANGED snap /\ StoreFails
  \/ UNCHANGED storeVars /\ (snap[s] = None \/ StoreFails)

\* DELETE /deduce/{id}/snapshot.
DeleteSnapshot(s) ==
  /\ snap[s] # None
  /\ s \notin active
  /\ DeleteSnapshotRow(s)
  /\ UNCHANGED <<handleVars, runVars, active, picker, restVars>>

-----------------------------------------------------------------------------
(* The blocking thread. *)

\* The engines are created and seeded and the session ids sent; an error drops
\* the sender.
Seed(d) ==
  /\ thread[d] = "seed"
  /\ \/ /\ ids' = [ids EXCEPT ![d] = "sent"]
        /\ thread' = [thread EXCEPT ![d] = IF from[d] = None THEN "run" ELSE "restore"]
        /\ UNCHANGED verdict
     \/ /\ ids' = [ids EXCEPT ![d] = "dropped"]
        /\ thread' = [thread EXCEPT ![d] = "returned"]
        /\ verdict' = [verdict EXCEPT ![d] = "Error"]
  /\ UNCHANGED <<entry, flag, persist, from, family, task, mailVars, active, picker, storeVars,
                 restVars>>

\* restore_from copies the stored events in under the new session, keeping
\* their event ids.  One that still has a row in the Coire, pending or
\* processed, is a primary-key error: the thread ends with some of the others
\* written.  So may an error of either store; an error of the tableau import
\* leaves them all.
RestoreFrom(d) ==
  /\ thread[d] = "restore"
  /\ LET rows  == Rows(from[d])
         taken == {e \in rows : live[e] # None}
     IN \E written \in SUBSET (rows \ taken), ok \in BOOLEAN :
          /\ taken # {} => ~ok
          /\ written # rows => ~ok /\ (taken # {} \/ StoreFails \/ CoireFails)
          /\ live' = [e \in Ev |-> IF e \in written THEN d ELSE live[e]]
          /\ thread' = [thread EXCEPT ![d] = IF ok THEN "run" ELSE "returned"]
          /\ verdict' = [verdict EXCEPT ![d] = IF ok THEN @ ELSE "Error"]
  /\ UNCHANGED <<handleVars, done, born, home, stray, active, picker, storeVars, restVars>>

\* An event that does not exist yet gets a row under d.
Write(d, e) ==
  /\ born[e] = -1 /\ clock <= MaxBorn
  /\ live' = [live EXCEPT ![e] = d]
  /\ born' = [born EXCEPT ![e] = clock]
  /\ home' = [home EXCEPT ![e] = d]

\* The engines consume, which marks the row processed, and emit.
RunCycle(d) ==
  /\ thread[d] = "run"
  /\ \E e \in Ev :
       \/ e \in Pending(d) /\ done' = done \cup {e} /\ UNCHANGED <<live, born, home>>
       \/ Write(d, e) /\ UNCHANGED done
  /\ UNCHANGED <<handleVars, thread, verdict, stray, active, picker, storeVars, restVars>>

\* POST /cycle/coire/push writes to any session id a client has read from a
\* result, that of a finished deduction or of a server's earlier life included.
CoirePush(d, e) ==
  /\ ids[d] = "sent"
  /\ Write(d, e)
  /\ stray' = IF thread[d] \in {"returned", "dead"} THEN stray \cup {e} ELSE stray
  /\ UNCHANGED <<handleVars, thread, verdict, done, active, picker, storeVars, restVars>>

\* Mutant: an exhausted budget returns without save and eviction.
RunExitEarly(d) ==
  /\ thread[d] = "run"
  /\ \E v \in Verdicts :
       /\ v = "Interrupted" => flag[d]
       /\ verdict' = [verdict EXCEPT ![d] = v]
       /\ thread' = [thread EXCEPT ![d] = IF v \in {"Error", "MaxCycles"} THEN "returned"
                                                                       ELSE "save"]
  /\ UNCHANGED <<handleVars, mailVars, active, picker, storeVars, restVars>>

\* run() reaches one of its exits; an engine error skips save and eviction.
RunExit(d) ==
  /\ thread[d] = "run"
  /\ \E v \in Verdicts :
       /\ v = "Interrupted" => flag[d]
       /\ verdict' = [verdict EXCEPT ![d] = v]
       /\ thread' = [thread EXCEPT ![d] = IF v = "Error" THEN "returned" ELSE "save"]
  /\ UNCHANGED <<handleVars, mailVars, active, picker, storeVars, restVars>>

\* Mutant: the pending events of every session are saved.
SaveSessionAll(d) ==
  /\ thread[d] = "save"
  /\ \E saved \in SUBSET UNION {Pending(x) : x \in Ded} :
       /\ StoreFails \/ CoireFails \/ saved = UNION {Pending(x) : x \in Ded}
       /\ stored' = [e \in Ev |-> IF e \in saved THEN d ELSE stored[e]]
  /\ thread' = [thread EXCEPT ![d] = "evict"]
  /\ UNCHANGED <<handleVars, verdict, mailVars, snap, active, picker, restVars>>

\* save_session upserts by event id, and so moves a row that is stored under
\* another session; a failure part way is only logged.
SaveSession(d) ==
  /\ thread[d] = "save"
  /\ \E saved \in SUBSET Pending(d) :
       /\ StoreFails \/ CoireFails \/ saved = Pending(d)
       /\ stored' = [e \in Ev |-> IF e \in saved THEN d ELSE stored[e]]
  /\ thread' = [thread EXCEPT ![d] = "evict"]
  /\ UNCHANGED <<handleVars, verdict, mailVars, snap, active, picker, restVars>>

\* evict_coire_sessions clears both mailboxes; a failed clear_session is only
\* logged and keeps the rows of its mailbox.
EvictSession(d) ==
  /\ thread[d] = "evict"
  /\ \E kept \in SUBSET Kept(d) :
       /\ CoireFails \/ kept = {}
       /\ live' = [e \in Ev |-> IF e \in Kept(d) \ kept THEN None ELSE live[e]]
       /\ done' = done \ (Kept(d) \ kept)
       /\ stray' = stray \cup kept
  /\ thread' = [thread EXCEPT ![d] = "returned"]
  /\ UNCHANGED <<handleVars, verdict, born, home, active, picker, storeVars, restVars>>

-----------------------------------------------------------------------------
(* The async task. *)

\* Mutant: the task waits for ids that a failed seeding will never send.
RegisterIdsOnlySent(d) ==
  /\ task[d] = "ids" /\ ids[d] = "sent"
  /\ active' = active \cup {d}
  /\ task' = [task EXCEPT ![d] = "wait"]
  /\ UNCHANGED <<entry, flag, persist, from, family, ids, runVars, picker, storeVars, restVars>>

\* The ids arrive and become active, or the sender is gone.
RegisterIds(d) ==
  /\ task[d] = "ids" /\ ids[d] # "pending"
  /\ active' = IF ids[d] = "sent" THEN active \cup {d} ELSE active
  /\ task' = [task EXCEPT ![d] = "wait"]
  /\ UNCHANGED <<entry, flag, persist, from, family, ids, runVars, picker, storeVars, restVars>>

\* Mutant: the session is never taken out of the active set.
ReleaseIdsKept(d) ==
  /\ task[d] = "wait" /\ thread[d] = "returned"
  /\ task' = [task EXCEPT ![d] = "record"]
  /\ UNCHANGED <<entry, flag, persist, from, family, ids, runVars, active, picker, storeVars, restVars>>

\* The thread has returned: the session stops being active.
ReleaseIds(d) ==
  /\ task[d] = "wait" /\ thread[d] = "returned"
  /\ active' = active \ {d}
  /\ task' = [task EXCEPT ![d] = "record"]
  /\ UNCHANGED <<entry, flag, persist, from, family, ids, runVars, picker, storeVars, restVars>>

\* The status clients see: an exhausted budget is an error.
Reported(v) == IF v = "MaxCycles" THEN "Error" ELSE v

RecordResult(d) ==
  /\ task[d] = "record"
  /\ entry' = [entry EXCEPT ![d] = Reported(verdict[d])]
  /\ task' = [task EXCEPT ![d] = "persist"]
  /\ UNCHANGED <<flag, persist, from, family, ids, runVars, active, picker, storeVars, restVars>>

\* Mutant: the TTL is subtracted.
SaveSnapshotBackwards(d) ==
  /\ task[d] = "persist"
  /\ \/ snap' = [snap EXCEPT ![d] = clock - SnapshotTtl] /\ persist[d] /\ ids[d] = "sent"
     \/ UNCHANGED snap /\ (StoreFails \/ ~persist[d] \/ ids[d] # "sent")
  /\ task' = [task EXCEPT ![d] = "end"]
  /\ UNCHANGED <<entry, flag, persist, from, family, ids, runVars, stored, active, picker, restVars>>

\* The snapshot is saved if it was asked for and the ids are known; a failure
\* is only logged.
SaveSnapshot(d) ==
  /\ task[d] = "persist"
  /\ \/ snap' = [snap EXCEPT ![d] = clock + SnapshotTtl] /\ persist[d] /\ ids[d] = "sent"
     \/ UNCHANGED snap /\ (StoreFails \/ ~persist[d] \/ ids[d] # "sent")
  /\ task' = [task EXCEPT ![d] = "end"]
  /\ UNCHANGED <<entry, flag, persist, from, family, ids, runVars, stored, active, picker, restVars>>

-----------------------------------------------------------------------------
(* CarrionPicker::sweep. *)

\* snapshots_expired.
Expired == {d \in Ded : snap[d] # None /\ snap[d] < clock /\ d \notin active}

\* It reads the clock and the active set once, then asks for expired snapshots;
\* a failed query finds none.
SweepBegin ==
  /\ picker.at = "idle"
  /\ \E expired \in {Expired} \cup (IF StoreFails THEN {{}} ELSE {}) :
       picker' = [at |-> "snapshots", now |-> clock, exclude |-> active, todo |-> expired]
  /\ UNCHANGED <<handleVars, runVars, active, storeVars, restVars>>

SweepSnapshot(d) ==
  /\ picker.at = "snapshots" /\ d \in picker.todo
  /\ DeleteSnapshotRow(d)
  /\ picker' = [picker EXCEPT !.todo = @ \ {d}]
  /\ UNCHANGED <<handleVars, runVars, active, restVars>>

\* Mutant: the query joins the snapshots the wrong way round.
StaleWithSnapshot(d) ==
  /\ Rows(d) # {} /\ snap[d] # None
  /\ \A e \in Rows(d) : born[e] < picker.now - CoireTtl

\* sessions_older_than: sessions whose newest stored event is past the TTL.
Stale(d) ==
  /\ Rows(d) # {}
  /\ \A e \in Rows(d) : born[e] < picker.now - CoireTtl

\* The second pass starts with this query; if it fails the sweep is over.
SweepQueryStale ==
  /\ picker.at = "snapshots" /\ picker.todo = {}
  /\ \/ picker' = [picker EXCEPT !.at = "orphans",
                                 !.todo = {d \in Ded : Stale(d) /\ d \notin picker.exclude}]
     \/ picker' = Idle /\ StoreFails
  /\ UNCHANGED <<handleVars, runVars, active, storeVars, restVars>>

SweepOrphan(d) ==
  /\ picker.at = "orphans" /\ d \in picker.todo
  /\ \/ stored' = RowsDeleted(d)
     \/ UNCHANGED stored /\ StoreFails
  /\ picker' = [picker EXCEPT !.todo = @ \ {d}]
  /\ UNCHANGED <<handleVars, runVars, snap, active, restVars>>

SweepEnd ==
  /\ picker.at = "orphans" /\ picker.todo = {}
  /\ picker' = Idle
  /\ UNCHANGED <<handleVars, runVars, active, storeVars, restVars>>

-----------------------------------------------------------------------------
Tick ==
  /\ clock < MaxClock
  /\ clock' = clock + 1
  /\ UNCHANGED <<handleVars, runVars, storeVars, active, picker, crashes>>

\* The server restarts: the store's file is all that is left.
Crash ==
  /\ crashes < MaxCrash
  /\ crashes' = crashes + 1
  /\ entry' = [d \in Ded |-> IF entry[d] = "none" THEN "none" ELSE "lost"]
  /\ task' = [d \in Ded |-> IF task[d] = "none" THEN "none" ELSE "dead"]
  /\ thread' = [d \in Ded |-> IF thread[d] = "none" THEN "none" ELSE "dead"]
  /\ live' = [e \in Ev |-> None] /\ done' = {} /\ stray' = {}
  /\ active' = {} /\ picker' = Idle
  /\ UNCHANGED <<flag, persist, from, family, ids, verdict, born, home, storeVars, clock>>

Thread(d) ==
  \/ Seed(d) \/ RestoreFrom(d) \/ RunExit(d) \/ SaveSession(d) \/ EvictSession(d)

Task(d) == RegisterIds(d) \/ ReleaseIds(d) \/ RecordResult(d) \/ SaveSnapshot(d)

Sweep ==
  \/ SweepBegin \/ SweepQueryStale \/ SweepEnd
  \/ \E d \in Ded : SweepSnapshot(d) \/ SweepOrphan(d)

Client ==
  \E d \in Ded : \/ StartDeduce(d) \/ InterruptDeduce(d) \/ DeleteSnapshot(d)
                 \/ \E s \in Ded : ResumeDeduce(d, s)
                 \/ \E e \in Ev : CoirePush(d, e)

Next ==
  \/ Client \/ Sweep \/ Tick \/ Crash
  \/ \E d \in Ded : Thread(d) \/ RunCycle(d) \/ Task(d)

\* run() returns (CycleController!RunReturns), both threads of a deduction are
\* scheduled, the picker's loop never ends and time passes.  Clients and
\* crashes are free.
Fairness ==
  /\ WF_vars(Sweep) /\ WF_vars(Tick)
  /\ \A d \in Ded : WF_vars(Thread(d)) /\ WF_vars(Task(d))

Spec == Init /\ [][Next]_vars /\ Fairness

-----------------------------------------------------------------------------
(* Properties. *)

\* A deduction has a snapshot only once its thread has returned and its session
\* is no longer active: what resume_deduce copies and delete_snapshot removes
\* never belongs to a running deduction, and their 409 guards cannot fire.
SnapshotsAreIdle ==
  \A d \in Ded : snap[d] # None =>
    d \notin active /\ thread[d] \in {"returned", "dead"}

\* Whatever interrupt_deduce wrote in the meantime, from the moment the task
\* has recorded the result clients poll what run() returned, for good.
FinalStatusIsVerdict ==
  \A d \in Ded : task[d] \in {"persist", "end"} => entry[d] = Reported(verdict[d])

\* A deduction that ended without an engine or restore error has left nothing
\* of its own in the shared in-memory Coire, neither a pending row nor a
\* processed one whose id a later restore would collide with: what is there, a
\* failed clear_session kept or a client pushed after run() had returned.
LeakAccounted ==
  \A d \in Ded : task[d] = "end" /\ verdict[d] # "Error" => Kept(d) \subseteq stray

\* Every event, in the Coire and in the store, lies under the session that
\* emitted or received it or under one that resumed from it, through any chain
\* of restores that keep event ids and saves that move rows between sessions:
\* no deduction ever reads another one's events.
LineageKept ==
  \A e \in Ev, d \in Ded : live[e] = d \/ stored[e] = d => home[e] \in family[d]

\* Every accepted deduction ends: its status is final unless the server dies.
DeductionSettles ==
  \A d \in Ded : entry[d] = "Running" ~> task[d] \in {"end", "dead"}

\* Stored events that no snapshot refers to, left by a deduction without
\* persist or by a crash before save_snapshot, are eventually swept.
OrphansCollected ==
  \A d \in Ded, e \in Ev :
    stored[e] = d /\ snap[d] = None /\ task[d] \in {"end", "dead"} ~> stored[e] # d

-----------------------------------------------------------------------------
(* What the comments claim and the code does not do. *)

\* The step deletes the stored events of d.
Deleted(d) == Rows(d) # {} /\ \A e \in Rows(d) : stored'[e] = None

\* "deletes coire_events rows whose session has no snapshot" (pass 2 of the
\* sweep): the orphan pass never deletes the events of a snapshot.
OrphanSweepSparesSnapshots ==
  [][\A d \in Ded : SweepOrphan(d) /\ Deleted(d) => snap[d] = None]_vars
=============================================================================
