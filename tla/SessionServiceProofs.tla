----------------------- MODULE SessionServiceProofs -----------------------
(***************************************************************************)
(* Proofs about SessionService, for any number of workers, sessions and    *)
(* users and for every limit.                                              *)
(***************************************************************************)
EXTENDS SessionService, FiniteSetTheorems, TLAPS

-----------------------------------------------------------------------------
(* What a step of one worker does to the requests. *)

\* An absent session is no session, and an idle worker has no request.
LEMMA Absent == NoSession \notin Session /\ Idle \notin Request
  BY DEF NoSession, Session, Kinds, Idle, Request

Ats   == {"countUser", "insert", "env", "write", "remove", "use", "touch", "eval"}
Nexts == {"idle", "write", "remove", "eval"}

\* The other workers' requests are left alone and all are well typed.
Frame(w) == /\ req' \in [Worker -> Request \cup {Idle}]
            /\ \A x \in Worker \ {w} : req'[x] = req[x]

\* A worker that is not idle has a request.
LEMMA BusyRequest ==
  ASSUME TypeOK, NEW w \in Worker, req[w].at # "idle"
  PROVE  /\ req[w] \in Request
         /\ req[w].kind \in Kinds /\ req[w].ses \in Session /\ req[w].sid \in Sid \cup {None}
         /\ req[w].at \in Ats /\ req[w].next \in Nexts
  BY DEF TypeOK, Idle, Request, Ats, Nexts

\* Step changes the three fields it names.
LEMMA StepEffect ==
  ASSUME TypeOK, NEW w \in Worker, req[w].at # "idle",
         NEW at \in Ats, NEW next \in Nexts, NEW ses \in Session,
         Step(w, at, next, ses)
  PROVE  /\ Frame(w)
         /\ req'[w].at = at /\ req'[w].next = next /\ req'[w].ses = ses
         /\ req'[w].kind = req[w].kind /\ req'[w].sid = req[w].sid
<1> DEFINE r == [req[w] EXCEPT !.at = at, !.next = next, !.ses = ses]
<1>1. /\ r \in Request
      /\ r.at = at /\ r.next = next /\ r.ses = ses
      /\ r.kind = req[w].kind /\ r.sid = req[w].sid
  BY BusyRequest DEF Request, Ats, Nexts
<1>2. req' = [req EXCEPT ![w] = r]
  BY DEF Step, Set
<1> HIDE DEF r
<1>3. req'[w] = r /\ Frame(w)
  BY <1>1, <1>2 DEF TypeOK, Frame
<1>4. QED
  BY <1>1, <1>3

\* Finish makes the worker idle.
LEMMA FinishEffect ==
  ASSUME TypeOK, NEW w \in Worker, Finish(w)
  PROVE  Frame(w) /\ req'[w] = Idle /\ req'[w].at = "idle" /\ req'[w].sid = None
<1>1. req'[w] = Idle /\ Frame(w)
  BY DEF Finish, Set, TypeOK, Frame
<1>2. QED
  BY <1>1 DEF Idle

\* Begin gives an idle worker a request.
LEMMA BeginEffect ==
  ASSUME TypeOK, NEW w \in Worker, NEW at \in Ats, NEW next \in Nexts,
         NEW k \in Kinds, NEW s \in Sid \cup {None}, NEW ses \in Session,
         Begin(w, at, next, k, s, ses)
  PROVE  /\ Frame(w) /\ UNCHANGED <<store, envs>> /\ req[w].at = "idle"
         /\ req'[w].at = at /\ req'[w].next = next /\ req'[w].ses = ses
         /\ req'[w].kind = k /\ req'[w].sid = s
<1> DEFINE r == [at |-> at, next |-> next, kind |-> k, sid |-> s, ses |-> ses]
<1>1. /\ r \in Request
      /\ r.at = at /\ r.next = next /\ r.ses = ses /\ r.kind = k /\ r.sid = s
  BY DEF Request, Ats, Nexts
<1>2. req' = [req EXCEPT ![w] = r] /\ UNCHANGED <<store, envs>> /\ req[w].at = "idle"
  BY DEF Begin, Set
<1> HIDE DEF r
<1>3. req'[w] = r /\ Frame(w)
  BY <1>1, <1>2 DEF TypeOK, Frame
<1>4. QED
  BY <1>1, <1>2, <1>3

\* Insert's own step: the id of the new session is filled in.
LEMMA InsertEffect ==
  ASSUME TypeOK, NEW w \in Worker, req[w].at = "insert", NEW s \in Sid,
         Set(w, [req[w] EXCEPT !.at = "env", !.sid = s])
  PROVE  /\ Frame(w)
         /\ req'[w].at = "env" /\ req'[w].sid = s /\ req'[w].ses = req[w].ses
         /\ req'[w].kind = req[w].kind /\ req'[w].next = req[w].next
<1> DEFINE r == [req[w] EXCEPT !.at = "env", !.sid = s]
<1>1. /\ r \in Request
      /\ r.at = "env" /\ r.sid = s /\ r.ses = req[w].ses /\ r.kind = req[w].kind
      /\ r.next = req[w].next
  BY BusyRequest DEF Request
<1>2. req' = [req EXCEPT ![w] = r]
  BY DEF Set
<1> HIDE DEF r
<1>3. req'[w] = r /\ Frame(w)
  BY <1>1, <1>2 DEF TypeOK, Frame
<1>4. QED
  BY <1>1, <1>3

\* Changing a copy's status keeps its owner and its type.
LEMMA StatusEffect ==
  ASSUME NEW ses \in Session,
         NEW st \in {"Initializing", "Active", "Evaluating", "Terminated"}
  PROVE  /\ WithStatus(ses, st) \in Session
         /\ WithStatus(ses, st).user = ses.user
         /\ WithStatus(ses, st).type = ses.type
         /\ WithStatus(ses, st).status = st
  BY DEF WithStatus, Session

-----------------------------------------------------------------------------
(* Copies and what they are copies of. *)

\* A request past its insertion or its first read works on a stored session,
\* whose owner and type its copy has.
Identity(w) ==
  req[w].at \in {"env", "write", "remove", "use", "touch", "eval"} =>
    /\ req[w].sid \in Sid /\ Exists(req[w].sid)
    /\ req[w].ses.user = store[req[w].sid].user
    /\ req[w].ses.type = store[req[w].sid].type

\* Only a termination writes Terminated, and it then removes the environment.
Copy(w) ==
  /\ req[w].at \in {"countUser", "insert"} => req[w].ses.status # "Terminated"
  /\ req[w].at = "write" /\ req[w].ses.status = "Terminated" =>
       req[w].next = "remove" /\ (req[w].kind = "clips" \/ req[w].ses.type = "prolog")
  /\ req[w].at = "write" => req[w].next \in {"idle", "remove", "eval"}
  /\ req[w].at = "remove" => req[w].next = "idle"

Local(w) == Identity(w) /\ Copy(w)

\* No stored session is removed or changes its owner or type.
Stable == \A s \in Sid : Exists(s) => /\ store'[s] # NoSession
                                      /\ store'[s].user = store[s].user
                                      /\ store'[s].type = store[s].type

\* What every action of worker w establishes.
Good(w) ==
  /\ Frame(w) /\ Local(w)' /\ Stable
  /\ store' \in [Sid -> Session \cup {NoSession}]
  /\ envs' \in [Kinds -> SUBSET Sid]

\* A step that changes neither map, writes and removes nothing, and leaves no
\* creation on its way to its insertion.
Quiet(w) == /\ UNCHANGED <<store, envs>>
            /\ req[w].at \notin {"write", "remove"}
            /\ req'[w].at \notin {"countUser", "insert"}

\* A session that is read is a Session.
LEMMA ReadType ==
  ASSUME TypeOK, NEW s \in Sid, Exists(s)
  PROVE  store[s] \in Session
  BY DEF TypeOK, Exists

\* A step that changes neither map is good if the request it leaves is.
LEMMA QuietGood ==
  ASSUME TypeOK, NEW w \in Worker, UNCHANGED <<store, envs>>, Frame(w), Local(w)'
  PROVE  Good(w)
  BY DEF Good, Stable, TypeOK, Exists

\* Every action is good, and all but six are quiet.
LEMMA ActionsGood ==
  ASSUME TypeOK, \A x \in Worker : Local(x), Next
  PROVE  \E w \in Worker :
           /\ Good(w)
           /\ \/ Quiet(w) \/ CountUser(w) \/ Insert(w) \/ InsertEnv(w) \/ Write(w) \/ RemoveEnv(w)
              \/ \E u \in User, k \in Kinds : CountActive(w, u, k)
<1>1. ASSUME NEW w \in Worker, CountUser(w) PROVE Good(w)
  <2>1. req[w].ses \in Session /\ Local(w) /\ UNCHANGED <<store, envs>>
    BY <1>1, BusyRequest DEF CountUser
  <2>2. CASE Step(w, "insert", "idle", req[w].ses)
    BY <1>1, <2>1, <2>2, StepEffect, QuietGood DEF CountUser, Ats, Nexts, Local, Identity, Copy
  <2>3. CASE Finish(w)
    BY <2>1, <2>3, FinishEffect, QuietGood DEF Local, Identity, Copy
  <2>4. QED
    BY <1>1, <2>2, <2>3 DEF CountUser
<1>2. ASSUME NEW w \in Worker, Insert(w) PROVE Good(w)
  <2>1. req[w].ses \in Session /\ Local(w) /\ req[w].at = "insert" /\ envs' = envs
    BY <1>2, BusyRequest DEF Insert
  <2>2. ASSUME NEW s \in Sid, ~Exists(s), store' = [store EXCEPT ![s] = req[w].ses],
               Set(w, [req[w] EXCEPT !.at = "env", !.sid = s])
        PROVE  Good(w)
    <3>1. store'[s] = req[w].ses /\ store' \in [Sid -> Session \cup {NoSession}] /\ Stable
      BY <2>1, <2>2 DEF TypeOK, Stable, Exists
    <3>2. Frame(w) /\ Local(w)'
      BY <2>1, <2>2, <3>1, InsertEffect, Absent DEF Local, Identity, Copy, Exists
    <3>3. QED
      BY <2>1, <3>1, <3>2 DEF Good, TypeOK
  <2>3. CASE Finish(w) /\ UNCHANGED store
    BY <2>1, <2>3, FinishEffect, QuietGood DEF Local, Identity, Copy
  <2>4. QED
    BY <1>2, <2>2, <2>3 DEF Insert
<1>3. ASSUME NEW w \in Worker, InsertEnv(w) PROVE Good(w)
  <2>1. /\ req[w].ses \in Session /\ Local(w) /\ store' = store
        /\ req[w].sid \in Sid /\ req[w].kind \in Kinds
    BY <1>3, BusyRequest DEF InsertEnv, Local, Identity
  <2>2. envs' \in [Kinds -> SUBSET Sid] /\ Stable
    BY <1>3, <2>1 DEF InsertEnv, TypeOK, Stable, Exists
  <2>3. Frame(w) /\ Local(w)'
    BY <1>3, <2>1, StepEffect, StatusEffect DEF InsertEnv, Ats, Nexts, Local, Identity, Copy, Exists
  <2>4. QED
    BY <2>1, <2>2, <2>3 DEF Good, TypeOK
<1>4. ASSUME NEW w \in Worker, Write(w) PROVE Good(w)
  <2>1. /\ req[w].ses \in Session /\ Local(w) /\ envs' = envs /\ req[w].at = "write"
        /\ req[w].sid \in Sid /\ req[w].next \in {"idle", "remove", "eval"}
    BY <1>4, BusyRequest DEF Write, Local, Identity, Copy
  <2>2. /\ store' \in [Sid -> Session \cup {NoSession}] /\ Stable
        /\ store'[req[w].sid] = req[w].ses
    <3>1. store' = [store EXCEPT ![req[w].sid] = req[w].ses]
      BY <1>4 DEF Write
    <3>2. store' \in [Sid -> Session \cup {NoSession}] /\ store'[req[w].sid] = req[w].ses
      BY <2>1, <3>1 DEF TypeOK
    <3>3. \A s \in Sid \ {req[w].sid} : store'[s] = store[s]
      BY <2>1, <3>1 DEF TypeOK
    <3>4. req[w].ses # NoSession
      BY <2>1, Absent
    <3>5. QED
      BY <2>1, <3>2, <3>3, <3>4 DEF Stable, Local, Identity, Exists
  <2>3. Frame(w) /\ Local(w)'
    <3>1. CASE Finish(w)
      BY <3>1, FinishEffect DEF Local, Identity, Copy
    <3>2. CASE Step(w, req[w].next, "idle", req[w].ses) /\ req[w].next # "idle"
      BY <2>1, <2>2, <3>2, StepEffect, Absent DEF Ats, Nexts, Local, Identity, Copy, Exists
    <3>3. QED
      BY <1>4, <3>1, <3>2 DEF Write, Advance
  <2>4. QED
    BY <2>1, <2>2, <2>3 DEF Good, TypeOK
<1>5. ASSUME NEW w \in Worker, RemoveEnv(w) PROVE Good(w)
  <2>1. /\ Local(w) /\ store' = store /\ req[w].sid \in Sid /\ req[w].kind \in Kinds
        /\ req[w].next = "idle"
    BY <1>5, BusyRequest DEF RemoveEnv, Local, Identity, Copy
  <2>2. envs' \in [Kinds -> SUBSET Sid] /\ Stable
    BY <1>5, <2>1 DEF RemoveEnv, TypeOK, Stable, Exists
  <2>3. Frame(w) /\ Local(w)'
    BY <1>5, <2>1, FinishEffect DEF RemoveEnv, Advance, Local, Identity, Copy
  <2>4. QED
    BY <2>1, <2>2, <2>3 DEF Good, TypeOK
<1>6. ASSUME NEW w \in Worker, WithEnv(w) PROVE Good(w) /\ Quiet(w)
  <2>1. req[w].ses \in Session /\ Local(w) /\ UNCHANGED <<store, envs>> /\ req[w].at = "use"
    BY <1>6, BusyRequest DEF WithEnv
  <2>2. CASE Step(w, "touch", "idle", req[w].ses)
    BY <1>6, <2>1, <2>2, StepEffect, QuietGood DEF WithEnv, Ats, Nexts, Local, Identity, Copy, Exists, Quiet
  <2>3. CASE Finish(w)
    BY <2>1, <2>3, FinishEffect, QuietGood DEF Local, Identity, Copy, Quiet
  <2>4. QED
    BY <1>6, <2>2, <2>3 DEF WithEnv
<1>7. ASSUME NEW w \in Worker, TouchSession(w) PROVE Good(w) /\ Quiet(w)
  <2>1. Local(w) /\ req[w].sid \in Sid /\ UNCHANGED <<store, envs>> /\ req[w].at = "touch"
    BY <1>7 DEF TouchSession, Local, Identity
  <2>2. CASE Alive(req[w].sid) /\ Step(w, "write", "idle", store[req[w].sid])
    <3>1. store[req[w].sid] \in Session /\ store[req[w].sid].status # "Terminated"
      BY <2>1, <2>2, ReadType DEF Alive
    <3>2. QED
      BY <1>7, <2>1, <2>2, <3>1, StepEffect, QuietGood
         DEF TouchSession, Ats, Nexts, Local, Identity, Copy, Exists, Quiet
  <2>3. CASE Finish(w)
    BY <2>1, <2>3, FinishEffect, QuietGood DEF Local, Identity, Copy, Quiet
  <2>4. QED
    BY <1>7, <2>2, <2>3 DEF TouchSession
<1>8. ASSUME NEW w \in Worker, Evaluated(w) PROVE Good(w) /\ Quiet(w)
  <2>1. req[w].ses \in Session /\ Local(w) /\ UNCHANGED <<store, envs>>
    BY <1>8, BusyRequest DEF Evaluated
  <2>2. Frame(w) /\ Local(w)' /\ Quiet(w)
    BY <1>8, <2>1, StepEffect, StatusEffect DEF Evaluated, Ats, Nexts, Local, Identity, Copy, Exists, Quiet
  <2>3. QED
    BY <2>1, <2>2, QuietGood
<1>9. ASSUME NEW w \in Worker, NEW u \in User, NEW k \in Kinds, CountActive(w, u, k) PROVE Good(w)
  <2> DEFINE ses == [user |-> u, type |-> k, status |-> "Initializing"]
  <2>1. ses \in Session /\ ses.status = "Initializing"
    BY DEF Session
  <2>2. Begin(w, "countUser", "idle", k, None, ses)
    BY <1>9 DEF CountActive
  <2> HIDE DEF ses
  <2>3. QED
    BY <2>1, <2>2, BeginEffect, QuietGood DEF Ats, Nexts, Local, Identity, Copy
<1>10. ASSUME NEW w \in Worker, NEW s \in Sid, TerminateSession(w, s) PROVE Good(w) /\ Quiet(w)
  <2>1. store[s] \in Session
    BY <1>10, ReadType DEF TerminateSession
  <2>2. Exists(s) /\ Begin(w, "write", "remove", "clips", s, WithStatus(store[s], "Terminated"))
    BY <1>10 DEF TerminateSession
  <2>3. QED
    BY <2>1, <2>2, BeginEffect, StatusEffect, QuietGood
       DEF Ats, Nexts, Kinds, Local, Identity, Copy, Exists, Quiet
<1>11. ASSUME NEW w \in Worker, NEW s \in Sid, TerminatePrologSession(w, s) PROVE Good(w) /\ Quiet(w)
  <2>1. store[s] \in Session /\ store[s].type = "prolog"
    BY <1>11, ReadType DEF TerminatePrologSession
  <2>2. Exists(s) /\ Begin(w, "write", "remove", "prolog", s, WithStatus(store[s], "Terminated"))
    BY <1>11 DEF TerminatePrologSession
  <2>3. QED
    BY <2>1, <2>2, BeginEffect, StatusEffect, QuietGood
       DEF Ats, Nexts, Kinds, Local, Identity, Copy, Exists, Quiet
<1>12. ASSUME NEW w \in Worker, NEW s \in Sid, SaveSession(w, s) PROVE Good(w) /\ Quiet(w)
  <2>1. store[s] \in Session /\ store[s].status # "Terminated"
    BY <1>12, ReadType DEF SaveSession, Alive
  <2>2. Exists(s) /\ Begin(w, "write", "idle", "clips", s, store[s])
    BY <1>12 DEF SaveSession, Alive
  <2>3. QED
    BY <2>1, <2>2, BeginEffect, StatusEffect, QuietGood
       DEF Ats, Nexts, Kinds, Local, Identity, Copy, Exists, Quiet
<1>13. ASSUME NEW w \in Worker, NEW s \in Sid, EvalSession(w, s) PROVE Good(w) /\ Quiet(w)
  <2>1. store[s] \in Session
    BY <1>13, ReadType DEF EvalSession, Alive
  <2>2. Exists(s) /\ Begin(w, "write", "eval", "clips", s, WithStatus(store[s], "Evaluating"))
    BY <1>13 DEF EvalSession, Alive
  <2>3. QED
    BY <2>1, <2>2, BeginEffect, StatusEffect, QuietGood
       DEF Ats, Nexts, Kinds, Local, Identity, Copy, Exists, Quiet
<1>14. ASSUME NEW w \in Worker, NEW s \in Sid, NEW k \in Kinds, UseSession(w, s, k) PROVE Good(w) /\ Quiet(w)
  <2>1. store[s] \in Session
    BY <1>14, ReadType DEF UseSession, Alive
  <2>2. Exists(s) /\ Begin(w, "use", "idle", k, s, store[s])
    BY <1>14 DEF UseSession, Alive
  <2>3. QED
    BY <2>1, <2>2, BeginEffect, StatusEffect, QuietGood
       DEF Ats, Nexts, Kinds, Local, Identity, Copy, Exists, Quiet
<1>15. QED
  BY <1>1, <1>2, <1>3, <1>4, <1>5, <1>6, <1>7,
     <1>8, <1>9, <1>10, <1>11, <1>12, <1>13, <1>14 DEF Next

-----------------------------------------------------------------------------
(* Types, and the identity of stored sessions. *)

\* The other requests' copies stay copies of what they were.
LEMMA OthersLocal ==
  ASSUME TypeOK, \A x \in Worker : Local(x), NEW w \in Worker, Good(w)
  PROVE  TypeOK' /\ \A x \in Worker : Local(x)'
<1>1. TypeOK'
  BY DEF Good, Frame, TypeOK
<1>2. ASSUME NEW x \in Worker \ {w} PROVE Local(x)'
  BY <1>2 DEF Good, Frame, Stable, Local, Identity, Copy, Exists
<1>3. QED
  BY <1>1, <1>2 DEF Good

\* TypeOK and Local hold initially.
LEMMA LocalInit == Init => TypeOK /\ \A x \in Worker : Local(x)
  BY DEF Init, TypeOK, Local, Identity, Copy, Idle

\* The inductive invariant behind types and identity.
LocalInv == TypeOK /\ \A x \in Worker : Local(x)

\* Every step keeps it.
LEMMA LocalNext == LocalInv /\ [Next]_vars => LocalInv'
<1>1. ASSUME LocalInv, Next PROVE LocalInv'
  BY <1>1, ActionsGood, OthersLocal DEF LocalInv
<1>2. ASSUME LocalInv, UNCHANGED vars PROVE LocalInv'
  BY <1>2 DEF LocalInv, vars, TypeOK, Local, Identity, Copy, Exists
<1>3. QED
  BY <1>1, <1>2

\* It is an invariant.
LEMMA LocalHolds == Spec => []LocalInv
<1>1. Init => LocalInv
  BY LocalInit DEF LocalInv
<1>2. QED
  BY <1>1, LocalNext, PTL DEF Spec

\* The session map, the environment maps and the requests stay well typed
\* whatever the interleaving of the handlers.
THEOREM TypeCorrect == Spec => []TypeOK
<1>1. LocalInv => TypeOK
  BY DEF LocalInv
<1>2. QED
  BY <1>1, LocalHolds, PTL

\* Writing stale copies back never removes a session from the map and never
\* changes its owner or its type (SessionStore::update, insert).
THEOREM IdentityHolds == Spec => IdentityStable
<1> DEFINE Kept == \A s \in Sid : Exists(s) => /\ store'[s].user = store[s].user
                                               /\ store'[s].type = store[s].type
<1>1. ASSUME LocalInv, Next PROVE Kept
  BY <1>1, ActionsGood DEF LocalInv, Good, Stable
<1>2. LocalInv /\ [Next]_vars => [Kept]_vars
  BY <1>1
<1>3. QED
  BY <1>2, LocalHolds, PTL DEF Spec, IdentityStable

-----------------------------------------------------------------------------
(* The engines of terminated CLIPS sessions. *)

\* While a terminated CLIPS session still has an engine, some request is about
\* to remove it, or to write a copy that was not terminated over the session.
Doomed(s)   == Exists(s) /\ store[s].type = "clips" /\ store[s].status = "Terminated"
               /\ s \in envs["clips"]
Guards(w, s) == /\ req[w].sid = s
                /\ \/ req[w].at = "remove" /\ req[w].kind = "clips"
                   \/ req[w].at = "write" /\ req[w].ses.status # "Terminated"
EnvInv == \A s \in Sid : Doomed(s) => \E w \in Worker : Guards(w, s)

\* A session that was doomed before the step is still guarded after it if its
\* guard was another worker, or none of this worker's steps undid it.
LEMMA EnvKept ==
  ASSUME EnvInv, NEW w \in Worker, Frame(w), NEW s \in Sid, Doomed(s),
         ~Guards(w, s) \/ Guards(w, s)'
  PROVE  \E x \in Worker : Guards(x, s)'
<1>1. PICK x \in Worker : Guards(x, s)
  BY DEF EnvInv
<1>2. CASE x = w
  BY <1>1, <1>2
<1>3. CASE x # w
  BY <1>1, <1>3 DEF Frame, Guards
<1>4. QED
  BY <1>2, <1>3

\* Every step keeps every doomed session guarded.
LEMMA EnvNext ==
  ASSUME LocalInv, EnvInv, Next
  PROVE  EnvInv'
<1>1. PICK w \in Worker :
        /\ Good(w)
        /\ \/ Quiet(w) \/ CountUser(w) \/ Insert(w) \/ InsertEnv(w) \/ Write(w) \/ RemoveEnv(w)
           \/ \E u \in User, k \in Kinds : CountActive(w, u, k)
  BY ActionsGood DEF LocalInv
<1>2. TypeOK /\ Local(w) /\ Frame(w)
  BY <1>1 DEF LocalInv, Good
<1>3. ASSUME UNCHANGED <<store, envs>>, req[w].at \notin {"write", "remove"} PROVE EnvInv'
  <2>1. ASSUME NEW s \in Sid, Doomed(s)' PROVE \E x \in Worker : Guards(x, s)'
    <3>1. Doomed(s) /\ ~Guards(w, s)
      BY <1>3, <2>1 DEF Doomed, Guards, Exists
    <3>2. QED
      BY <1>2, <3>1, EnvKept
  <2>2. QED
    BY <2>1 DEF EnvInv
<1>4. CASE Insert(w)
  <2>1. CASE UNCHANGED store
    BY <1>3, <1>4, <2>1 DEF Insert
  <2>2. ASSUME NEW n \in Sid, store' = [store EXCEPT ![n] = req[w].ses] PROVE EnvInv'
    <3>1. /\ store'[n] = req[w].ses /\ req[w].ses.status # "Terminated" /\ envs' = envs
          /\ req[w].at = "insert"
          /\ \A s \in Sid \ {n} : store'[s] = store[s]
      BY <1>2, <1>4, <2>2 DEF Insert, TypeOK, Local, Copy
    <3>2. ASSUME NEW s \in Sid, Doomed(s)' PROVE \E x \in Worker : Guards(x, s)'
      <4>1. Doomed(s) /\ ~Guards(w, s)
        BY <3>1, <3>2 DEF Doomed, Guards, Exists
      <4>2. QED
        BY <1>2, <4>1, EnvKept
    <3>3. QED
      BY <3>2 DEF EnvInv
  <2>3. QED
    BY <1>4, <2>1, <2>2 DEF Insert
<1>5. CASE InsertEnv(w)
  <2>1. /\ req[w].ses \in Session /\ req[w].sid \in Sid /\ req[w].kind \in Kinds
        /\ req[w].at = "env" /\ store' = store
    BY <1>2, <1>5, BusyRequest DEF InsertEnv, Local, Identity
  <2>2. /\ WithStatus(req[w].ses, "Active") \in Session
        /\ WithStatus(req[w].ses, "Active").status = "Active"
    BY <2>1, StatusEffect
  <2>3. req'[w].at = "write" /\ req'[w].sid = req[w].sid /\ req'[w].ses.status = "Active"
    BY <1>2, <1>5, <2>1, <2>2, StepEffect DEF InsertEnv, Ats, Nexts
  <2>4. ASSUME NEW s \in Sid, Doomed(s)' PROVE \E x \in Worker : Guards(x, s)'
    <3>1. CASE s = req[w].sid
      BY <2>3, <3>1 DEF Guards
    <3>2. CASE s # req[w].sid
      <4>1. Doomed(s) /\ ~Guards(w, s)
        BY <1>2, <1>5, <2>1, <2>4, <3>2 DEF InsertEnv, Doomed, Guards, Exists, TypeOK, Kinds
      <4>2. QED
        BY <1>2, <4>1, EnvKept
    <3>3. QED
      BY <3>1, <3>2
  <2>5. QED
    BY <2>4 DEF EnvInv
<1>6. CASE Write(w)
  <2>1. /\ req[w].ses \in Session /\ req[w].sid \in Sid /\ req[w].at = "write" /\ envs' = envs
        /\ req[w].ses.type = store[req[w].sid].type
    BY <1>2, <1>6, BusyRequest DEF Write, Local, Identity
  <2>2. store'[req[w].sid] = req[w].ses /\ \A s \in Sid \ {req[w].sid} : store'[s] = store[s]
    BY <1>2, <1>6, <2>1 DEF Write, TypeOK
  <2>3. ASSUME NEW s \in Sid, Doomed(s)' PROVE \E x \in Worker : Guards(x, s)'
    <3>1. CASE s = req[w].sid
      <4>1. req[w].ses.status = "Terminated" /\ req[w].ses.type = "clips"
        BY <2>2, <2>3, <3>1 DEF Doomed
      <4>2. req[w].next = "remove" /\ req[w].kind = "clips"
        BY <1>2, <2>1, <4>1 DEF Local, Copy
      <4>3. Step(w, "remove", "idle", req[w].ses)
        BY <1>6, <4>2 DEF Write, Advance
      <4>4. req'[w].at = "remove" /\ req'[w].kind = "clips" /\ req'[w].sid = s
        BY <1>2, <2>1, <3>1, <4>2, <4>3, StepEffect DEF Ats, Nexts
      <4>5. QED
        BY <4>4 DEF Guards
    <3>2. CASE s # req[w].sid
      <4>1. Doomed(s) /\ ~Guards(w, s)
        BY <2>1, <2>2, <2>3, <3>2 DEF Doomed, Guards, Exists
      <4>2. QED
        BY <1>2, <4>1, EnvKept
    <3>3. QED
      BY <3>1, <3>2
  <2>4. QED
    BY <2>3 DEF EnvInv
<1>7. CASE RemoveEnv(w)
  <2>1. req[w].sid \in Sid /\ req[w].kind \in Kinds /\ req[w].at = "remove" /\ store' = store
    BY <1>2, <1>7, BusyRequest DEF RemoveEnv, Local, Identity
  <2>2. ASSUME NEW s \in Sid, Doomed(s)' PROVE \E x \in Worker : Guards(x, s)'
    <3>1. envs'["clips"] = envs["clips"] \ (IF req[w].kind = "clips" THEN {req[w].sid} ELSE {})
      BY <1>2, <1>7, <2>1 DEF RemoveEnv, TypeOK, Kinds
    <3>2. Doomed(s) /\ ~Guards(w, s)
      BY <2>1, <2>2, <3>1 DEF Doomed, Guards, Exists
    <3>3. QED
      BY <1>2, <3>2, EnvKept
  <2>3. QED
    BY <2>2 DEF EnvInv
<1>8. QED
  BY <1>1, <1>3, <1>4, <1>5, <1>6, <1>7 DEF Quiet, CountUser, CountActive, Begin

\* A terminated CLIPS session whose requests have ended has no engine left in
\* clips_envs (terminate_session racing the other handlers).
THEOREM ClipsEngineHolds == Spec => []ClipsEngineFreed
<1>1. Init => EnvInv
  BY DEF Init, EnvInv, Doomed, Exists
<1>2. LocalInv /\ EnvInv /\ [Next]_vars => EnvInv'
  <2>1. ASSUME EnvInv, UNCHANGED vars PROVE EnvInv'
    BY <2>1 DEF EnvInv, vars, Doomed, Guards, Exists
  <2>2. QED
    BY <2>1, EnvNext
<1>3. EnvInv => ClipsEngineFreed
  BY DEF EnvInv, ClipsEngineFreed, Doomed, Guards, InUse
<1>4. QED
  BY <1>1, <1>2, <1>3, LocalHolds, PTL DEF Spec

-----------------------------------------------------------------------------
(* The limits. *)

\* A set of sessions and the creations that may still add one to it pass a
\* limit together by at most the other workers.
Within(S, P, max) == /\ IsFiniteSet(S) /\ P \in SUBSET Worker
                     /\ Cardinality(S) + Cardinality(P) <= max + Cardinality(Worker) - 1

\* The workers' number.
LEMMA Workers ==
  /\ Cardinality(Worker) \in Nat \ {0}
  /\ \A P \in SUBSET Worker : /\ IsFiniteSet(P) /\ Cardinality(P) \in Nat
                              /\ Cardinality(P) <= Cardinality(Worker)
<1>1. IsFiniteSet(Worker) /\ Worker # {}
  BY SessionAssumption
<1>2. Cardinality(Worker) \in Nat /\ Cardinality(Worker) # 0
  BY <1>1, FS_CardinalityType, FS_EmptySet
<1>3. ASSUME NEW P \in SUBSET Worker
      PROVE  IsFiniteSet(P) /\ Cardinality(P) <= Cardinality(Worker)
  BY <1>1, FS_Subset
<1>4. ASSUME NEW P \in SUBSET Worker PROVE Cardinality(P) \in Nat
  BY <1>3, FS_CardinalityType
<1>5. QED
  BY <1>2, <1>3, <1>4

\* A creation that passes the check adds at most one worker to those counted.
LEMMA WithinBegin ==
  ASSUME NEW S, IsFiniteSet(S), NEW P \in SUBSET Worker, NEW max \in Nat, Cardinality(S) < max
  PROVE  Within(S, P, max)
<1>1. Cardinality(S) \in Nat
  BY FS_CardinalityType
<1>2. QED
  BY <1>1, Workers DEF Within

\* A creation that ends gives its place back.
LEMMA WithinFewer ==
  ASSUME NEW S, NEW P, NEW max \in Nat, Within(S, P, max), NEW Q \in SUBSET P
  PROVE  Within(S, Q, max)
<1>1. Cardinality(S) \in Nat /\ Q \in SUBSET Worker
  BY FS_CardinalityType DEF Within
<1>2. Cardinality(Q) <= Cardinality(P)
  BY Workers, FS_Subset DEF Within
<1>3. QED
  BY <1>1, <1>2, Workers DEF Within

\* A creation that inserts its session no longer counts as one to come.
LEMMA WithinInsert ==
  ASSUME NEW S, NEW P, NEW max \in Nat, Within(S, P, max), NEW w \in P, NEW s, s \notin S
  PROVE  Within(S \cup {s}, P \ {w}, max)
<1>1. Cardinality(S) \in Nat /\ IsFiniteSet(P) /\ Cardinality(P) \in Nat
  BY FS_CardinalityType, Workers DEF Within
<1>2. IsFiniteSet(S \cup {s}) /\ Cardinality(S \cup {s}) = Cardinality(S) + 1
  BY FS_AddElement DEF Within
<1>3. Cardinality(P \ {w}) = Cardinality(P) - 1 /\ P \ {w} \in SUBSET Worker
  BY <1>1, FS_RemoveElement DEF Within
<1>4. QED
  BY <1>1, <1>2, <1>3, Workers DEF Within

\* The creations past the global check, and those past the check of a user.
Creating       == {w \in Worker : req[w].at \in {"countUser", "insert"}}
CreatingFor(u) == {w \in Worker : req[w].at = "insert" /\ req[w].ses.user = u}

QuotaInv ==
  /\ Within(Stored, Creating, MaxConcurrent)
  /\ \A u \in User : Within(OwnedBy(u), CreatingFor(u), MaxPerUser)

\* A step that inserts no session and lets no creation past a check.
LEMMA QuotaKept ==
  ASSUME QuotaInv, Stored' = Stored, \A u \in User : OwnedBy(u)' = OwnedBy(u),
         Creating' \subseteq Creating, \A u \in User : CreatingFor(u)' \subseteq CreatingFor(u)
  PROVE  QuotaInv'
<1>1. MaxConcurrent \in Nat /\ MaxPerUser \in Nat
  BY SessionAssumption
<1>2. Within(Stored, Creating', MaxConcurrent)
  BY <1>1, WithinFewer DEF QuotaInv
<1>3. ASSUME NEW u \in User PROVE Within(OwnedBy(u), CreatingFor(u)', MaxPerUser)
  BY <1>1, <1>3, WithinFewer DEF QuotaInv
<1>4. QED
  BY <1>2, <1>3 DEF QuotaInv, Within

\* Every step keeps the limits.
LEMMA QuotaNext ==
  ASSUME LocalInv, QuotaInv, Next
  PROVE  QuotaInv'
<1>1. PICK w \in Worker :
        /\ Good(w)
        /\ \/ Quiet(w) \/ CountUser(w) \/ Insert(w) \/ InsertEnv(w) \/ Write(w) \/ RemoveEnv(w)
           \/ \E u \in User, k \in Kinds : CountActive(w, u, k)
  BY ActionsGood DEF LocalInv
<1>2. /\ TypeOK /\ Local(w) /\ Frame(w) /\ Stable
      /\ MaxConcurrent \in Nat /\ MaxPerUser \in Nat
  BY <1>1, SessionAssumption DEF LocalInv, Good
<1>3. ASSUME store' = store
      PROVE  Stored' = Stored /\ \A u \in User : OwnedBy(u)' = OwnedBy(u)
  BY <1>3 DEF Stored, OwnedBy, Exists
<1>4. ASSUME req'[w].at \notin {"countUser", "insert"}
      PROVE  /\ Creating' \subseteq Creating \ {w}
             /\ \A u \in User : CreatingFor(u)' \subseteq CreatingFor(u) \ {w}
  BY <1>2, <1>4 DEF Frame, Creating, CreatingFor
<1>5. CASE Quiet(w)
  BY <1>3, <1>4, <1>5, QuotaKept DEF Quiet
<1>6. CASE InsertEnv(w)
  <2>1. req[w].ses \in Session /\ req[w].at = "env"
    BY <1>2, <1>6, BusyRequest DEF InsertEnv
  <2>2. WithStatus(req[w].ses, "Active") \in Session
    BY <2>1, StatusEffect
  <2>3. req'[w].at = "write" /\ store' = store
    BY <1>2, <1>6, <2>1, <2>2, StepEffect DEF InsertEnv, Ats, Nexts
  <2>4. QED
    BY <1>3, <1>4, <2>3, QuotaKept
<1>7. CASE Write(w)
  <2>1. /\ req[w].ses \in Session /\ req[w].sid \in Sid /\ Exists(req[w].sid)
        /\ req[w].at = "write" /\ req[w].next \in {"idle", "remove", "eval"}
    BY <1>2, <1>7, BusyRequest DEF Write, Local, Identity, Copy
  <2>2. \A s \in Sid \ {req[w].sid} : store'[s] = store[s]
    BY <1>2, <1>7, <2>1 DEF Write, TypeOK
  <2>3. Stored' = Stored /\ \A u \in User : OwnedBy(u)' = OwnedBy(u)
    BY <1>2, <2>1, <2>2 DEF Stored, OwnedBy, Stable, Exists
  <2>4. req'[w].at \in {"idle", "remove", "eval"}
    <3>1. CASE Finish(w)
      BY <1>2, <3>1, FinishEffect
    <3>2. CASE Step(w, req[w].next, "idle", req[w].ses) /\ req[w].next # "idle"
      BY <1>2, <2>1, <3>2, StepEffect DEF Ats, Nexts
    <3>3. QED
      BY <1>7, <3>1, <3>2 DEF Write, Advance
  <2>5. QED
    BY <1>4, <2>3, <2>4, QuotaKept
<1>8. CASE RemoveEnv(w)
  <2>1. Finish(w) /\ store' = store
    BY <1>2, <1>8 DEF RemoveEnv, Advance, Local, Copy
  <2>2. req'[w].at = "idle"
    BY <1>2, <2>1, FinishEffect
  <2>3. QED
    BY <1>3, <1>4, <2>1, <2>2, QuotaKept
<1>9. CASE CountUser(w)
  <2>1. /\ req[w].ses \in Session /\ req[w].at = "countUser" /\ store' = store
        /\ req[w].ses.user \in User
    BY <1>2, <1>9, BusyRequest DEF CountUser, Session
  <2>2. Stored' = Stored /\ \A u \in User : OwnedBy(u)' = OwnedBy(u)
    BY <1>3, <2>1
  <2>3. CASE Finish(w)
    BY <1>2, <1>4, <2>2, <2>3, FinishEffect, QuotaKept
  <2>4. CASE /\ Cardinality(OwnedBy(req[w].ses.user)) < MaxPerUser
             /\ Step(w, "insert", "idle", req[w].ses)
    <3>1. req'[w].at = "insert" /\ req'[w].ses = req[w].ses
      BY <1>2, <2>1, <2>4, StepEffect DEF Ats, Nexts
    <3>2. Creating' \in SUBSET Creating
      BY <1>2, <2>1, <3>1 DEF Frame, Creating
    <3>3. Within(Stored, Creating', MaxConcurrent)
      BY <1>2, <3>2, WithinFewer DEF QuotaInv
    <3>4. ASSUME NEW u \in User PROVE Within(OwnedBy(u), CreatingFor(u)', MaxPerUser)
      <4>1. CASE u = req[w].ses.user
        <5>1. IsFiniteSet(OwnedBy(u)) /\ CreatingFor(u)' \in SUBSET Worker
          BY <3>4 DEF QuotaInv, Within, CreatingFor
        <5>2. QED
          BY <1>2, <2>4, <4>1, <5>1, WithinBegin
      <4>2. CASE u # req[w].ses.user
        <5>1. CreatingFor(u)' \in SUBSET CreatingFor(u)
          BY <1>2, <3>1, <4>2 DEF Frame, CreatingFor
        <5>2. QED
          BY <1>2, <3>4, <5>1, WithinFewer DEF QuotaInv
      <4>3. QED
        BY <4>1, <4>2
    <3>5. QED
      BY <2>2, <3>3, <3>4 DEF QuotaInv, Within
  <2>5. QED
    BY <1>9, <2>3, <2>4 DEF CountUser
<1>10. ASSUME NEW u \in User, NEW k \in Kinds, CountActive(w, u, k) PROVE QuotaInv'
  <2> DEFINE ses == [user |-> u, type |-> k, status |-> "Initializing"]
  <2>1. ses \in Session
    BY DEF Session
  <2>2. Begin(w, "countUser", "idle", k, None, ses) /\ Cardinality(Stored) < MaxConcurrent
    BY <1>10 DEF CountActive
  <2> HIDE DEF ses
  <2>3. req'[w].at = "countUser" /\ store' = store
    BY <1>2, <2>1, <2>2, BeginEffect DEF Ats, Nexts
  <2>4. Within(Stored, Creating', MaxConcurrent)
    <3>1. IsFiniteSet(Stored) /\ Creating' \in SUBSET Worker
      BY DEF QuotaInv, Within, Creating
    <3>2. QED
      BY <1>2, <2>2, <3>1, WithinBegin
  <2>5. ASSUME NEW v \in User PROVE Within(OwnedBy(v), CreatingFor(v)', MaxPerUser)
    <3>1. CreatingFor(v)' \in SUBSET CreatingFor(v)
      BY <1>2, <2>3 DEF Frame, CreatingFor
    <3>2. QED
      BY <1>2, <2>5, <3>1, WithinFewer DEF QuotaInv
  <2>6. QED
    BY <1>3, <2>3, <2>4, <2>5 DEF QuotaInv, Within
<1>11. CASE Insert(w)
  <2>1. req[w].ses \in Session /\ req[w].at = "insert" /\ req[w].ses.user \in User
    BY <1>2, <1>11, BusyRequest DEF Insert, Session
  <2>2. CASE Finish(w) /\ UNCHANGED store
    BY <1>2, <1>3, <1>4, <2>2, FinishEffect, QuotaKept
  <2>3. ASSUME NEW s \in Sid, ~Exists(s), store' = [store EXCEPT ![s] = req[w].ses],
               Set(w, [req[w] EXCEPT !.at = "env", !.sid = s])
        PROVE  QuotaInv'
    <3>1. req'[w].at = "env"
      BY <1>2, <2>1, <2>3, InsertEffect
    <3>2. /\ store'[s] = req[w].ses /\ req[w].ses # NoSession
          /\ \A r \in Sid \ {s} : store'[r] = store[r]
      BY <1>2, <2>1, <2>3, Absent DEF TypeOK
    <3>3. /\ Stored' = Stored \cup {s} /\ s \notin Stored
          /\ Creating' \in SUBSET (Creating \ {w}) /\ w \in Creating
      BY <1>4, <2>1, <2>3, <3>1, <3>2 DEF Stored, Exists, Creating
    <3>4. Within(Stored', Creating', MaxConcurrent)
      <4>1. Within(Stored', Creating \ {w}, MaxConcurrent)
        BY <1>2, <3>3, WithinInsert DEF QuotaInv
      <4>2. QED
        BY <1>2, <3>3, <4>1, WithinFewer
    <3>5. ASSUME NEW u \in User PROVE Within(OwnedBy(u)', CreatingFor(u)', MaxPerUser)
      <4>1. CreatingFor(u)' \in SUBSET (CreatingFor(u) \ {w})
        BY <1>4, <3>1
      <4>2. CASE u = req[w].ses.user
        <5>1. OwnedBy(u)' = OwnedBy(u) \cup {s} /\ s \notin OwnedBy(u) /\ w \in CreatingFor(u)
          BY <2>1, <2>3, <3>2, <4>2 DEF OwnedBy, Exists, CreatingFor
        <5>2. Within(OwnedBy(u)', CreatingFor(u) \ {w}, MaxPerUser)
          BY <1>2, <3>5, <5>1, WithinInsert DEF QuotaInv
        <5>3. QED
          BY <1>2, <4>1, <5>2, WithinFewer
      <4>3. CASE u # req[w].ses.user
        <5>1. OwnedBy(u)' = OwnedBy(u)
          BY <2>3, <3>2, <4>3 DEF OwnedBy, Exists
        <5>2. Within(OwnedBy(u)', CreatingFor(u), MaxPerUser)
          BY <3>5, <5>1 DEF QuotaInv
        <5>3. QED
          BY <1>2, <4>1, <5>2, WithinFewer
      <4>4. QED
        BY <4>2, <4>3
    <3>6. QED
      BY <3>4, <3>5 DEF QuotaInv, Within
  <2>4. QED
    BY <1>11, <2>2, <2>3 DEF Insert
<1>12. QED
  BY <1>1, <1>5, <1>6, <1>7, <1>8, <1>9, <1>10, <1>11

\* Initially nobody creates and nothing is stored.
LEMMA QuotaInit == Init => QuotaInv
<1> SUFFICES ASSUME Init PROVE QuotaInv
  OBVIOUS
<1>1. Stored = {} /\ Creating = {}
      /\ \A u \in User : OwnedBy(u) = {} /\ CreatingFor(u) = {}
  BY DEF Init, Stored, OwnedBy, Exists, Creating, CreatingFor, Idle
<1>2. ASSUME NEW max \in Nat PROVE Within({}, {}, max)
  BY <1>2, FS_EmptySet, Workers DEF Within
<1>3. QED
  BY <1>1, <1>2, SessionAssumption DEF QuotaInv

\* Concurrent creations pass max_concurrent_sessions and max_sessions_per_user
\* by at most the number of the other workers (create_session_with_name).
THEOREM QuotaHolds == Spec => []QuotaOvershoot
<1>1. LocalInv /\ QuotaInv /\ [Next]_vars => QuotaInv'
  <2>1. ASSUME QuotaInv, UNCHANGED vars PROVE QuotaInv'
    <3>1. Stored' = Stored /\ Creating' = Creating
          /\ \A u \in User : OwnedBy(u)' = OwnedBy(u) /\ CreatingFor(u)' = CreatingFor(u)
      BY <2>1 DEF vars, Stored, OwnedBy, Exists, Creating, CreatingFor
    <3>2. QED
      BY <2>1, <3>1, QuotaKept
  <2>2. QED
    BY <2>1, QuotaNext
<1>2. ASSUME NEW S, NEW P, NEW max \in Nat, Within(S, P, max)
      PROVE  Cardinality(S) <= max + (Cardinality(Worker) - 1)
  <2>1. Cardinality(S) \in Nat /\ Cardinality(P) \in Nat
    BY <1>2, Workers, FS_CardinalityType DEF Within
  <2>2. QED
    BY <1>2, <2>1, Workers DEF Within
<1>3. QuotaInv => QuotaOvershoot
  BY <1>2, SessionAssumption DEF QuotaInv, QuotaOvershoot
<1>4. QED
  BY <1>1, <1>3, QuotaInit, LocalHolds, PTL DEF Spec

=============================================================================
