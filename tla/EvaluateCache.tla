--------------------------- MODULE EvaluateCache ---------------------------
(***************************************************************************)
(* clara_evaluate: the call by which a Prolog goal or a CLIPS rule runs a  *)
(* tool, with its process-wide result cache (clara-toolbox ffi.rs), the    *)
(* toolbox mutex, and the passes of the carrion-picker that evict entries. *)
(*                                                                         *)
(* Two kinds of actor call it.  A pool thread seeds the engines of a       *)
(* deduction and then runs its cycle; only the cycle installs the          *)
(* deduction's id in the thread.  A server worker runs the script of a     *)
(* session while it holds the lock of all environments.  The tool asks     *)
(* FieryPit over HTTP, under the toolbox mutex, and FieryPit may use a     *)
(* session of this server before it answers.                               *)
(***************************************************************************)
EXTENDS Integers

CONSTANTS
  Thread,     \* threads of the blocking pool: each runs one deduction at a time
  Worker,     \* server workers: each runs one session script at a time
  Deduction,  \* deduction ids
  Request,    \* trimmed request texts
  Malformed,  \* those that are not JSON
  Engine,     \* the engines scripts call from: "prolog", "clips" or both
  EnvironmentText,  \* what the first bytes of a CLIPS environment read as
  None,       \* no deduction, no actor, no request
  CacheTtl,   \* evaluate_cache_ttl_seconds
  MaxTime,    \* bound on the clock
  MaxCalls    \* bound on the number of calls

ASSUME EvaluateAssumption ==
  /\ None \notin Thread \cup Worker \cup Deduction \cup Request
  /\ Thread \cap Worker = {}
  /\ Malformed \subseteq Request /\ EnvironmentText \subseteq Request
  /\ Engine \subseteq {"prolog", "clips"}
  /\ CacheTtl \in Nat /\ MaxTime \in Nat /\ MaxCalls \in Nat

VARIABLES
  phase,      \* what each actor is doing
  job,        \* the deduction a pool thread works for
  ctx,        \* CURRENT_DEDUCTION_ID of each thread
  call,       \* the evaluate call an actor is inside of
  serves,     \* the tool call a worker's script was started for by FieryPit
  cache,      \* the evaluate cache: an entry or NoEntry for each key
  toolbox,    \* who holds the toolbox mutex
  poisoned,   \* a tool panicked while holding it
  envLock,    \* who holds the write lock of the session environments
  used,       \* deduction ids given out
  saved,      \* deductions with a snapshot in the store
  swept,      \* deductions whose snapshot the carrion-picker expired
  now,        \* the clock
  calls,      \* calls made so far
  astray,     \* requests some script made and that were not what was evaluated
  runs,       \* tool runs for each key since its entry was last evicted
  got         \* what each deduction was answered, and for whom it was computed

vars == <<phase, job, ctx, call, serves, cache, toolbox, poisoned, envLock,
          used, saved, swept, now, calls, astray, runs, got>>
cacheVars  == <<cache, runs>>
pickerVars == <<saved, swept, now>>
workVars   == <<phase, job, ctx, used, serves, envLock>>

Actor     == Thread \cup Worker
Namespace == Deduction \cup {None}
Key       == Namespace \X Request

\* CacheEntry: the status of the response it holds, the deduction it is
\* attributed to and its time; owner (not in the code) is the deduction for
\* which the tool ran.
Status  == {"success", "error"}
Entry   == [status : Status, deduction : Namespace, at : 0..MaxTime, owner : Namespace]
NoEntry == [status |-> "none", deduction |-> None, at |-> -1, owner |-> None]

Call   == [at : {"spawned", "tool", "callback", "store"}, req : Request, status : Status]
NoCall == [at |-> "none", req |-> None, status |-> "none"]

TypeOK ==
  /\ phase \in [Actor -> {"idle", "seed", "run", "wantEnv", "script"}]
  /\ job \in [Actor -> Namespace]
  /\ ctx \in [Actor -> Namespace]
  /\ call \in [Actor -> Call \cup {NoCall}]
  /\ serves \in [Worker -> Actor \cup {None}]
  /\ cache \in [Key -> Entry \cup {NoEntry}]
  /\ toolbox \in Actor \cup {None}
  /\ poisoned \in BOOLEAN
  /\ envLock \in Worker \cup {None}
  /\ used \subseteq Deduction /\ saved \subseteq Deduction /\ swept \subseteq Deduction
  /\ now \in 0..MaxTime
  /\ calls \in 0..MaxCalls
  /\ astray \subseteq Request
  /\ runs \in [Key -> Nat]
  /\ got \in [Deduction -> SUBSET [phase : {"seed", "run"}, owner : Namespace]]

Init ==
  /\ phase = [a \in Actor |-> "idle"]
  /\ job = [a \in Actor |-> None]
  /\ ctx = [a \in Actor |-> None]
  /\ call = [a \in Actor |-> NoCall]
  /\ serves = [w \in Worker |-> None]
  /\ cache = [k \in Key |-> NoEntry]
  /\ toolbox = None
  /\ poisoned = FALSE
  /\ envLock = None
  /\ used = {} /\ saved = {} /\ swept = {}
  /\ now = 0
  /\ calls = 0
  /\ astray = {}
  /\ runs = [k \in Key |-> 0]
  /\ got = [d \in Deduction |-> {}]

\* The call of actor a goes on at another step.
At(a, at, status) == [call EXCEPT ![a] = [at |-> at, req |-> call[a].req, status |-> status]]

-----------------------------------------------------------------------------
(* A deduction on a thread of the pool. *)

\* The task of start_deduce or resume_deduce, under a fresh uuid: the engines
\* are created and seeded.
StartSeed(t, d) ==
  /\ phase[t] = "idle" /\ d \notin used
  /\ used' = used \cup {d}
  /\ phase' = [phase EXCEPT ![t] = "seed"]
  /\ job' = [job EXCEPT ![t] = d]
  /\ UNCHANGED <<ctx, call, serves, toolbox, poisoned, envLock, calls, astray, got, cacheVars, pickerVars>>

\* run() installs the deduction's id for the calls made from this thread.
StartRun(t) ==
  /\ phase[t] = "seed" /\ call[t] = NoCall
  /\ phase' = [phase EXCEPT ![t] = "run"]
  /\ ctx' = [ctx EXCEPT ![t] = job[t]]
  /\ UNCHANGED <<job, used, call, serves, toolbox, poisoned, envLock, calls, astray, got, cacheVars, pickerVars>>

\* Mutant: the id is left behind in the thread.
FinishKeepsContext(t) ==
  /\ phase[t] \in {"seed", "run"} /\ call[t] = NoCall
  /\ phase' = [phase EXCEPT ![t] = "idle"]
  /\ job' = [job EXCEPT ![t] = None]
  /\ saved' \in {saved, saved \cup {job[t]}}
  /\ UNCHANGED <<ctx, used, call, serves, toolbox, poisoned, envLock, swept, now, calls, astray, got, cacheVars>>

\* Seeding fails, or run() returns and its guard clears the id; the task then
\* saves a snapshot if the client asked for one and the store takes it.
Finish(t) ==
  /\ phase[t] \in {"seed", "run"} /\ call[t] = NoCall
  /\ phase' = [phase EXCEPT ![t] = "idle"]
  /\ job' = [job EXCEPT ![t] = None]
  /\ ctx' = [ctx EXCEPT ![t] = None]
  /\ saved' \in {saved, saved \cup {job[t]}}
  /\ UNCHANGED <<used, call, serves, toolbox, poisoned, envLock, swept, now, calls, astray, got, cacheVars>>

-----------------------------------------------------------------------------
(* A session script on a worker. *)

\* A client's request, or one of FieryPit's, asks for the environments.
StartScript(w, a) ==
  /\ phase[w] = "idle"
  /\ phase' = [phase EXCEPT ![w] = "wantEnv"]
  /\ serves' = [serves EXCEPT ![w] = a]
  /\ UNCHANGED <<job, ctx, used, toolbox, poisoned, envLock, calls, astray, got, cacheVars, pickerVars>>

ClientScript(w) == StartScript(w, None) /\ UNCHANGED call

\* with_clips_env: the write lock of all environments is held while f runs.
LockEnv(w) ==
  /\ phase[w] = "wantEnv" /\ envLock = None
  /\ phase' = [phase EXCEPT ![w] = "script"]
  /\ envLock' = w
  /\ UNCHANGED <<job, ctx, used, call, serves, toolbox, poisoned, calls, astray, got, cacheVars, pickerVars>>

\* The script ends; FieryPit, if it is still waiting, goes on with its answer.
EndScript(w) ==
  /\ phase[w] = "script" /\ call[w] = NoCall
  /\ phase' = [phase EXCEPT ![w] = "idle"]
  /\ serves' = [serves EXCEPT ![w] = None]
  /\ envLock' = None
  /\ call' = IF serves[w] = None THEN call ELSE At(serves[w], "tool", "error")
  /\ UNCHANGED <<job, ctx, used, toolbox, poisoned, calls, astray, got, cacheVars, pickerVars>>

-----------------------------------------------------------------------------
(* evaluate_json_string. *)

CanCall(a) == phase[a] \in {"seed", "run", "script"} /\ call[a] = NoCall

\* Mutant: one key for everybody.
cache_key_global(a, q) == <<None, q>>

\* The request, in the namespace of the deduction that runs on this thread.
cache_key(a, q) == <<ctx[a], q>>

\* What the caller is handed was computed for owner.
Answered(a, owner) ==
  got' = IF phase[a] \in {"seed", "run"}
           THEN [got EXCEPT ![job[a]] = @ \cup {[phase |-> phase[a], owner |-> owner]}]
           ELSE got

\* The text rust_clara_evaluate takes for its argument when a script calls it
\* with q.  The predicate of Prolog hands over the text.  The function of CLIPS
\* calls it with the environment and the text: it reads the environment.
Received(e, q) == IF e = "prolog" THEN {q} ELSE EnvironmentText

\* Some script makes a call, and text is what arrives.
Arrives(text) ==
  \E e \in Engine, q \in Request :
    /\ text \in Received(e, q)
    /\ astray' = astray \cup ({q} \ {text})

\* The cache answers, under its read lock.
Hit(a, q) ==
  /\ CanCall(a) /\ calls < MaxCalls /\ Arrives(q)
  /\ cache[cache_key(a, q)] # NoEntry
  /\ Answered(a, cache[cache_key(a, q)].owner)
  /\ calls' = calls + 1
  /\ UNCHANGED <<workVars, call, toolbox, poisoned, cacheVars, pickerVars>>

\* Nothing is cached: a text that is no JSON is answered with an error that is
\* not cached, and any other request is handed to a new thread.
Miss(a, q) ==
  /\ CanCall(a) /\ calls < MaxCalls /\ Arrives(q)
  /\ cache[cache_key(a, q)] = NoEntry
  /\ calls' = calls + 1
  /\ IF q \in Malformed
       THEN Answered(a, job[a]) /\ UNCHANGED call
       ELSE call' = [call EXCEPT ![a] = [at |-> "spawned", req |-> q, status |-> "error"]] /\ UNCHANGED got
  /\ UNCHANGED <<workVars, toolbox, poisoned, cacheVars, pickerVars>>

\* That thread takes the toolbox mutex.  On a poisoned one it panics, and the
\* caller, which joins it, makes that an error response.
LockToolbox(a) ==
  /\ call[a].at = "spawned" /\ toolbox = None
  /\ IF poisoned
       THEN /\ call' = At(a, "store", "error")
            /\ UNCHANGED <<toolbox, runs>>
       ELSE /\ call' = At(a, "tool", "error")
            /\ toolbox' = a
            /\ runs' = [runs EXCEPT ![cache_key(a, call[a].req)] = @ + 1]
  /\ UNCHANGED <<workVars, poisoned, cache, calls, astray, got, pickerVars>>

\* The tool ends with a response, ok or not, and the mutex is released.
ToolEnds(a, status) ==
  /\ toolbox' = None
  /\ call' = At(a, "store", status)
  /\ UNCHANGED <<workVars, cache, runs, calls, astray, got, pickerVars>>

\* FieryPit answers, or refuses, or the tool or its arguments are unknown.
ToolReturns(a) ==
  /\ call[a].at = "tool"
  /\ \E status \in Status : ToolEnds(a, status)
  /\ UNCHANGED poisoned

\* The tool panics while its thread holds the mutex.
ToolPanics(a) ==
  /\ call[a].at = "tool"
  /\ ToolEnds(a, "error")
  /\ poisoned' = TRUE

\* FieryPit uses a session of this server before it answers.
CallBack(a, w) ==
  /\ call[a].at = "tool"
  /\ call' = At(a, "callback", "error")
  /\ StartScript(w, a)

\* Mutant: the HTTP client waits for ever.
TimeoutNever(a) == FALSE /\ UNCHANGED vars

\* Mutant: the end of the script still goes to the call that gave up.
TimeoutKeepsLink(a) ==
  /\ call[a].at \in {"tool", "callback"}
  /\ toolbox' = None
  /\ call' = At(a, "store", "error")
  /\ UNCHANGED <<workVars, poisoned, cache, runs, calls, astray, got, pickerVars>>

\* The HTTP client's deadline, which covers all that FieryPit does for the
\* request; a script it started is not stopped.
Timeout(a) ==
  /\ call[a].at \in {"tool", "callback"}
  /\ serves' = [w \in Worker |-> IF serves[w] = a THEN None ELSE serves[w]]
  /\ toolbox' = None
  /\ call' = At(a, "store", "error")
  /\ UNCHANGED <<phase, job, ctx, used, envLock, poisoned, cache, runs, calls, astray, got, pickerVars>>

\* The deduction of the calling thread, read again after the tool run.
NewEntry(a) == [status |-> call[a].status, deduction |-> ctx[a], at |-> now, owner |-> job[a]]

\* Mutant: an error is not worth keeping.
StoreSuccess(a) ==
  /\ call[a].at = "store"
  /\ cache' = IF call[a].status = "success" THEN [cache EXCEPT ![cache_key(a, call[a].req)] = NewEntry(a)] ELSE cache
  /\ call' = [call EXCEPT ![a] = NoCall]
  /\ Answered(a, job[a])
  /\ UNCHANGED <<workVars, toolbox, poisoned, runs, calls, astray, pickerVars>>

\* The response, an error too, goes into the cache under its write lock and to
\* the caller.
Store(a) ==
  /\ call[a].at = "store"
  /\ cache' = [cache EXCEPT ![cache_key(a, call[a].req)] = NewEntry(a)]
  /\ call' = [call EXCEPT ![a] = NoCall]
  /\ Answered(a, job[a])
  /\ UNCHANGED <<workVars, toolbox, poisoned, runs, calls, astray, pickerVars>>

-----------------------------------------------------------------------------
(* The carrion-picker and the clock. *)

\* retain: the entries of the set go.
Evict(K) ==
  /\ cache' = [k \in Key |-> IF k \in K THEN NoEntry ELSE cache[k]]
  /\ runs' = [k \in Key |-> IF k \in K /\ cache[k] # NoEntry THEN 0 ELSE runs[k]]

evict_by_deduction(d) == {k \in Key : cache[k] # NoEntry /\ cache[k].deduction = d}
evict_older_than(t)   == {k \in Key : cache[k] # NoEntry /\ cache[k].at < t}

\* Pass 1: a snapshot has expired, and is deleted.  With a cache TTL of 0 the
\* server gives the picker no handle on the cache.
SweepSnapshot(d) ==
  /\ d \in saved
  /\ saved' = saved \ {d}
  /\ swept' = swept \cup {d}
  /\ IF CacheTtl > 0 THEN Evict(evict_by_deduction(d)) ELSE UNCHANGED cacheVars
  /\ UNCHANGED <<workVars, call, toolbox, poisoned, now, calls, astray, got>>

\* DELETE /deduce/{id}/snapshot leaves the cache alone.
DeleteSnapshot(d) ==
  /\ d \in saved
  /\ saved' = saved \ {d}
  /\ UNCHANGED <<workVars, call, toolbox, poisoned, swept, now, calls, astray, got, cacheVars>>

\* Pass 3, which a failed orphan query skips: what is older than the TTL goes.
SweepOld ==
  /\ CacheTtl > 0
  /\ evict_older_than(now - CacheTtl) # {}
  /\ Evict(evict_older_than(now - CacheTtl))
  /\ UNCHANGED <<workVars, call, toolbox, poisoned, calls, astray, got, pickerVars>>

Tick ==
  /\ now < MaxTime
  /\ now' = now + 1
  /\ UNCHANGED <<workVars, call, toolbox, poisoned, calls, astray, got, cacheVars, saved, swept>>

EvaluateStep(a) ==
  \/ \E q \in Request : Hit(a, q) \/ Miss(a, q)
  \/ LockToolbox(a)
  \/ ToolReturns(a)
  \/ ToolPanics(a)
  \/ \E w \in Worker : CallBack(a, w)
  \/ Timeout(a)
  \/ Store(a)

Next ==
  \/ \E t \in Thread : StartRun(t) \/ Finish(t) \/ \E d \in Deduction : StartSeed(t, d)
  \/ \E w \in Worker : ClientScript(w) \/ LockEnv(w) \/ EndScript(w)
  \/ \E a \in Actor : EvaluateStep(a)
  \/ \E d \in Deduction : SweepSnapshot(d) \/ DeleteSnapshot(d)
  \/ SweepOld
  \/ Tick

Spec == Init /\ [][Next]_vars

\* A thread that can go on does, a tool call ends or times out, and a script
\* ends; nothing makes a client call, a panic happen or the picker sweep.
Fairness ==
  /\ \A a \in Actor : /\ WF_vars(LockToolbox(a))
                      /\ WF_vars(ToolReturns(a))
                      /\ WF_vars(Timeout(a))
                      /\ WF_vars(Store(a))
  /\ \A w \in Worker : WF_vars(LockEnv(w)) /\ WF_vars(EndScript(w))

FairSpec == Spec /\ Fairness

-----------------------------------------------------------------------------
(* Properties *)

\* Whatever a deduction's cycle is answered was computed for that deduction:
\* entries never leak across runs, whichever threads the runs share.
RunAnswersOwn ==
  \A d \in Deduction : \A g \in got[d] : g.phase = "run" => g.owner = d

\* A deduction runs the tool once for a request, whatever the outcome, until
\* the entry is evicted: the lookup and the fill are not one critical section,
\* but only one thread ever uses a deduction's namespace.
OncePerDeduction ==
  \A d \in Deduction, q \in Request : runs[<<d, q>>] <= 1

\* The snapshot's expiry takes the deduction's entries with it, for good: no
\* call that was still under way puts one back.
SweptFreed ==
  \A d \in swept, q \in Request : cache[<<d, q>>] = NoEntry

\* Every call returns: the waits of a tool for a session, of a session for the
\* environments and of a script for the toolbox can be circular, and the
\* client's timeout breaks the circle.
EvaluateReturns ==
  \A a \in Actor : call[a] # NoCall ~> call[a] = NoCall

-----------------------------------------------------------------------------
(* What the comments claim and the code does not do. *)

\* "input_json - C string containing JSON tool request" (rust_clara_evaluate):
\* whichever engine a script runs in, its request is what gets evaluated.
RequestsReachToolbox == astray = {}
=============================================================================
