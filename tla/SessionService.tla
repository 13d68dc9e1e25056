--------------------------- MODULE SessionService ---------------------------
(***************************************************************************)
(* The interactive CLIPS and Prolog sessions of the API server:            *)
(* SessionManager and SessionStore (clara-session) under the session,      *)
(* eval and devils handlers (clara-api).                                   *)
(*                                                                         *)
(* The server's workers handle requests side by side.  A request takes the *)
(* lock of the session map or of an environment map once per step and      *)
(* carries its own copy of the Session from one step to the next; what     *)
(* other workers do in between it does not see.                            *)
(***************************************************************************)
EXTENDS Integers, FiniteSets

CONSTANTS
  Worker,         \* worker threads
  Sid,            \* session ids
  User,
  None,           \* no session
  MaxConcurrent,  \* max_concurrent_sessions
  MaxPerUser      \* max_sessions_per_user

ASSUME SessionAssumption ==
  /\ IsFiniteSet(Worker) /\ Worker # {}
  /\ MaxConcurrent \in Nat /\ MaxPerUser \in Nat
  /\ None \notin Sid

VARIABLES
  store,          \* SessionStore.sessions
  envs,           \* the ids in clips_envs and in prolog_envs
  req             \* the request each worker is handling

vars == <<store, envs, req>>

Kinds == {"clips", "prolog"}

Session == [user : User, type : Kinds,
            status : {"Initializing", "Active", "Evaluating", "Terminated"}]

NoSession == [user |-> None, type |-> None, status |-> None]

\* A request: the step it takes next and, for some, the one after it, the
\* environment map it works on, its session id and its copy of the Session.
Request == [at : {"countUser", "insert", "env", "write", "remove", "use", "touch", "eval"},
            next : {"idle", "write", "remove", "eval"},
            kind : Kinds, sid : Sid \cup {None}, ses : Session]

Idle == [at |-> "idle", next |-> "idle", kind |-> "clips", sid |-> None, ses |-> NoSession]

TypeOK ==
  /\ store \in [Sid -> Session \cup {NoSession}]
  /\ envs \in [Kinds -> SUBSET Sid]
  /\ req \in [Worker -> Request \cup {Idle}]

Init ==
  /\ store = [s \in Sid |-> NoSession]
  /\ envs = [k \in Kinds |-> {}]
  /\ req = [w \in Worker |-> Idle]

Exists(s) == store[s] # NoSession

\* SessionStore::count_active and count_user_sessions count every entry of the
\* map, and no operation of the service removes one.
Stored     == {s \in Sid : Exists(s)}
OwnedBy(u) == {s \in Sid : Exists(s) /\ store[s].user = u}

WithStatus(ses, status) == [ses EXCEPT !.status = status]

\* The worker goes on with its request, or drops it and is idle.
Set(w, r)  == req' = [req EXCEPT ![w] = r]
Step(w, at, next, ses) ==
  Set(w, [req[w] EXCEPT !.at = at, !.next = next, !.ses = ses])
Finish(w)  == Set(w, Idle)
Advance(w) == IF req[w].next = "idle" THEN Finish(w)
                                      ELSE Step(w, req[w].next, "idle", req[w].ses)

Begin(w, at, next, kind, s, ses) ==
  /\ req[w].at = "idle"
  /\ Set(w, [at |-> at, next |-> next, kind |-> kind, sid |-> s, ses |-> ses])
  /\ UNCHANGED <<store, envs>>

-----------------------------------------------------------------------------
(* create_session_with_name and create_prolog_session_with_name. *)

\* The global limit is checked; a refused request changes nothing.
CountActive(w, u, k) ==
  /\ Cardinality(Stored) < MaxConcurrent
  /\ Begin(w, "countUser", "idle", k, None, [user |-> u, type |-> k, status |-> "Initializing"])

\* Mutant: the limit itself is let through.
CountUserInclusive(w) ==
  /\ req[w].at = "countUser"
  /\ IF Cardinality(OwnedBy(req[w].ses.user)) <= MaxPerUser
       THEN Step(w, "insert", "idle", req[w].ses)
       ELSE Finish(w)
  /\ UNCHANGED <<store, envs>>

\* Then the user's.
CountUser(w) ==
  /\ req[w].at = "countUser"
  /\ IF Cardinality(OwnedBy(req[w].ses.user)) < MaxPerUser
       THEN Step(w, "insert", "idle", req[w].ses)
       ELSE Finish(w)
  /\ UNCHANGED <<store, envs>>

\* Mutant: the map is overwritten when the id is taken.
InsertOverwrites(w) ==
  /\ req[w].at = "insert"
  /\ \E s \in Sid : /\ store' = [store EXCEPT ![s] = req[w].ses]
                    /\ Set(w, [req[w] EXCEPT !.at = "env", !.sid = s])
  /\ UNCHANGED envs

\* The engine is created and the session inserted under a new id; either the
\* engine fails or the id (a millisecond and a number below 100000) is taken,
\* and the request ends.
Insert(w) ==
  /\ req[w].at = "insert"
  /\ \/ \E s \in Sid : /\ ~Exists(s)
                       /\ store' = [store EXCEPT ![s] = req[w].ses]
                       /\ Set(w, [req[w] EXCEPT !.at = "env", !.sid = s])
     \/ Finish(w) /\ UNCHANGED store
  /\ UNCHANGED envs

\* The engine is put in its map, and the session will be activated.
InsertEnv(w) ==
  /\ req[w].at = "env"
  /\ envs' = [envs EXCEPT ![req[w].kind] = @ \cup {req[w].sid}]
  /\ Step(w, "write", "idle", WithStatus(req[w].ses, "Active"))
  /\ UNCHANGED store

-----------------------------------------------------------------------------
(* The other requests start by reading a session another request inserted. *)

\* Mutant: the environment is removed before the session is marked.
TerminateSessionEnvFirst(w, s) ==
  /\ Exists(s)
  /\ Begin(w, "remove", "write", "clips", s, WithStatus(store[s], "Terminated"))

\* terminate_session does not look at the type and removes a CLIPS environment.
TerminateSession(w, s) ==
  /\ Exists(s)
  /\ Begin(w, "write", "remove", "clips", s, WithStatus(store[s], "Terminated"))

TerminatePrologSession(w, s) ==
  /\ Exists(s) /\ store[s].type = "prolog"
  /\ Begin(w, "write", "remove", "prolog", s, WithStatus(store[s], "Terminated"))

Alive(s) == Exists(s) /\ store[s].status # "Terminated"

SaveSession(w, s) ==
  /\ Alive(s)
  /\ Begin(w, "write", "idle", "clips", s, store[s])

\* load_rules, load_facts, run_rules, query_facts; query_prolog, consult_prolog.
UseSession(w, s, k) ==
  /\ Alive(s)
  /\ k = "prolog" => store[s].type = "prolog"
  /\ Begin(w, "use", "idle", k, s, store[s])

EvalSession(w, s) ==
  /\ Alive(s)
  /\ Begin(w, "write", "eval", "clips", s, WithStatus(store[s], "Evaluating"))

\* SessionStore::update: the request's copy replaces what is there.
Write(w) ==
  /\ req[w].at = "write"
  /\ store' = [store EXCEPT ![req[w].sid] = req[w].ses]
  /\ Advance(w)
  /\ UNCHANGED envs

\* Mutant: the request is not dropped when its work is done.
RemoveEnvKeepsRequest(w) ==
  /\ req[w].at = "remove"
  /\ envs' = [envs EXCEPT ![req[w].kind] = @ \ {req[w].sid}]
  /\ Step(w, req[w].next, "idle", req[w].ses)
  /\ UNCHANGED store

RemoveEnv(w) ==
  /\ req[w].at = "remove"
  /\ envs' = [envs EXCEPT ![req[w].kind] = @ \ {req[w].sid}]
  /\ Advance(w)
  /\ UNCHANGED store

\* with_clips_env or with_prolog_env: the environment is missing, or what runs
\* in it fails, or the session is touched next (query_facts ends here).
WithEnv(w) ==
  /\ req[w].at = "use"
  /\ \/ Finish(w)
     \/ /\ req[w].sid \in envs[req[w].kind]
        /\ Step(w, "touch", "idle", req[w].ses)
  /\ UNCHANGED <<store, envs>>

\* touch_session reads the session again.
TouchSession(w) ==
  /\ req[w].at = "touch"
  /\ IF Alive(req[w].sid) THEN Step(w, "write", "idle", store[req[w].sid])
                          ELSE Finish(w)
  /\ UNCHANGED <<store, envs>>

\* The script has run or failed: either way the copy goes back to Active.
Evaluated(w) ==
  /\ req[w].at = "eval"
  /\ Step(w, "write", "idle", WithStatus(req[w].ses, "Active"))
  /\ UNCHANGED <<store, envs>>

Next == \E w \in Worker :
  \/ CountUser(w) \/ Insert(w) \/ InsertEnv(w) \/ Write(w) \/ RemoveEnv(w)
  \/ WithEnv(w) \/ TouchSession(w) \/ Evaluated(w)
  \/ \E u \in User, k \in Kinds : CountActive(w, u, k)
  \/ \E s \in Sid : \/ TerminateSession(w, s) \/ TerminatePrologSession(w, s)
                    \/ SaveSession(w, s) \/ EvalSession(w, s)
                    \/ \E k \in Kinds : UseSession(w, s, k)

Spec == Init /\ [][Next]_vars

-----------------------------------------------------------------------------
(* Properties. *)

\* The limits are checked and the session inserted under different locks, so
\* creations that run side by side can pass them, but by no more than the
\* number of other workers; with one worker the limits are exact.
QuotaOvershoot ==
  LET slack == Cardinality(Worker) - 1
  IN /\ Cardinality(Stored) <= MaxConcurrent + slack
     /\ \A u \in User : Cardinality(OwnedBy(u)) <= MaxPerUser + slack

InUse(s) == \E w \in Worker : req[w].sid = s

\* A terminated CLIPS session whose requests have all ended has no engine left
\* in clips_envs, even if it was terminated while it was being created.
ClipsEngineFreed ==
  \A s \in Sid : Exists(s) /\ store[s].type = "clips" /\ store[s].status = "Terminated"
                 /\ ~InUse(s) => s \notin envs["clips"]

\* Stale copies written back change a session's status only: a session is
\* never removed and never changes its owner or its engine.
IdentityStable ==
  [][\A s \in Sid : Exists(s) => /\ store'[s].user = store[s].user
                                 /\ store'[s].type = store[s].type]_vars
=============================================================================
