------------------------ MODULE EvaluateCacheProofs ------------------------
(***************************************************************************)
(* Proofs about EvaluateCache for any number of threads, workers,          *)
(* deductions and requests.  Each part of the inductive invariant below is *)
(* preserved by every step; they are combined at the end.                  *)
(***************************************************************************)
EXTENDS EvaluateCache, TLAPS

\* What an actor is doing fits its kind, its deduction and its context: the
\* id is installed while the cycle runs, and only then.
JobOK ==
  \A a \in Actor :
    /\ a \in Thread => phase[a] \in {"idle", "seed", "run"}
    /\ a \in Worker => phase[a] \in {"idle", "wantEnv", "script"}
    /\ phase[a] \in {"seed", "run"} => job[a] \in used
    /\ phase[a] \notin {"seed", "run"} => job[a] = None
    /\ ctx[a] = IF phase[a] = "run" THEN job[a] ELSE None
    /\ phase[a] \in {"idle", "wantEnv"} => call[a] = NoCall

\* A deduction has one thread, until it has a snapshot.
OneThread ==
  /\ \A a, b \in Actor : job[a] # None /\ job[a] = job[b] => a = b
  /\ saved \cup swept \subseteq used
  /\ \A a \in Actor : job[a] \notin saved \cup swept

\* A script FieryPit started belongs to a tool call that waits for it alone.
LinkOK ==
  /\ \A w \in Worker : serves[w] # None => call[serves[w]].at = "callback"
  /\ \A v, w \in Worker : serves[v] # None /\ serves[v] = serves[w] => v = w

\* An entry is filed under, attributed to and computed for one deduction.
EntryOK ==
  \A d \in Deduction, q \in Request :
    cache[<<d, q>>] # NoEntry =>
      cache[<<d, q>>].deduction = d /\ cache[<<d, q>>].owner = d

InTool(a) == call[a].at \in {"tool", "callback", "store"}

\* A call of a deduction is under way only while nothing is cached for it, and
\* before it has the toolbox no tool ran for it.
PendingOK ==
  \A a \in Actor : call[a] # NoCall /\ ctx[a] # None =>
    /\ cache[<<ctx[a], call[a].req>>] = NoEntry
    /\ call[a].at = "spawned" => runs[<<ctx[a], call[a].req>>] = 0

Busy(d, q) == \E a \in Actor : ctx[a] = d /\ call[a].req = q /\ InTool(a)

\* A tool run is accounted for by such a call or by the entry it left.
RunsOK ==
  \A d \in Deduction, q \in Request :
    \/ runs[<<d, q>>] = 0
    \/ runs[<<d, q>>] = 1 /\ (cache[<<d, q>>] # NoEntry \/ Busy(d, q))

Base == TypeOK /\ JobOK /\ OneThread /\ LinkOK

-----------------------------------------------------------------------------

LEMMA Distinct == NoCall \notin Call /\ NoEntry \notin Entry
BY DEF Call, NoCall, Entry, NoEntry

LEMMA InitBase == Init => Base
<1> SUFFICES ASSUME Init PROVE Base
  OBVIOUS
<1> USE EvaluateAssumption DEF Init
<1>1. phase \in [Actor -> {"idle", "seed", "run", "wantEnv", "script"}]
  OBVIOUS
<1>2. TypeOK
  <2>1. 0 \in 0..MaxTime /\ 0 \in 0..MaxCalls
    OBVIOUS
  <2>2. poisoned \in BOOLEAN
    OBVIOUS
  <2>3. /\ job \in [Actor -> Namespace] /\ ctx \in [Actor -> Namespace]
        /\ call \in [Actor -> Call \cup {NoCall}]
        /\ serves \in [Worker -> Actor \cup {None}]
        /\ cache \in [Key -> Entry \cup {NoEntry}]
    BY DEF Namespace
  <2> QED BY <1>1, <2>1, <2>2, <2>3 DEF TypeOK
<1>3. JobOK
  BY DEF JobOK, Actor
<1>4. OneThread /\ LinkOK
  BY DEF OneThread, LinkOK
<1> QED BY <1>2, <1>3, <1>4 DEF Base

LEMMA TypeStep == Base /\ [Next]_vars => TypeOK'
<1> SUFFICES ASSUME Base, [Next]_vars PROVE TypeOK'
  OBVIOUS
<1> USE EvaluateAssumption DEF Base, TypeOK, Actor, Namespace
<1>1. ASSUME NEW t \in Thread, StartRun(t) PROVE TypeOK'
  BY <1>1 DEF StartRun, cacheVars, pickerVars
<1>2. ASSUME NEW t \in Thread, Finish(t) PROVE TypeOK'
  BY <1>2 DEF Finish, cacheVars, JobOK
<1>3. ASSUME NEW t \in Thread, NEW d \in Deduction, StartSeed(t, d) PROVE TypeOK'
  BY <1>3 DEF StartSeed, cacheVars, pickerVars
<1>4. ASSUME NEW w \in Worker, ClientScript(w) PROVE TypeOK'
  BY <1>4 DEF ClientScript, StartScript, cacheVars, pickerVars
<1>5. ASSUME NEW w \in Worker, LockEnv(w) PROVE TypeOK'
  BY <1>5 DEF LockEnv, cacheVars, pickerVars
<1>6. ASSUME NEW w \in Worker, EndScript(w) PROVE TypeOK'
  <2>1. call' \in [Actor -> Call \cup {NoCall}]
    BY <1>6 DEF EndScript, LinkOK, At, Call, NoCall, Status
  <2> QED BY <1>6, <2>1 DEF EndScript, cacheVars, pickerVars
<1>7. ASSUME NEW a \in Actor, NEW q \in Request, Hit(a, q) PROVE TypeOK'
  <2>1. cache_key(a, q) \in Key
    BY DEF cache_key, Key
  <2>2. cache[cache_key(a, q)].owner \in Namespace
    BY <1>7, <2>1 DEF Hit, Entry
  <2>3. got' \in [Deduction -> SUBSET [phase : {"seed", "run"}, owner : Namespace]]
    BY <1>7, <2>2 DEF Hit, Answered, JobOK
  <2>4. astray' \subseteq Request
    BY <1>7 DEF Hit, Arrives
  <2> QED BY <1>7, <2>3, <2>4 DEF Hit, workVars, cacheVars, pickerVars
<1>8. ASSUME NEW a \in Actor, NEW q \in Request, Miss(a, q) PROVE TypeOK'
  <2>1. got' \in [Deduction -> SUBSET [phase : {"seed", "run"}, owner : Namespace]]
    BY <1>8 DEF Miss, Answered, JobOK
  <2>2. call' \in [Actor -> Call \cup {NoCall}]
    BY <1>8 DEF Miss, Call, Status
  <2>3. astray' \subseteq Request
    BY <1>8 DEF Miss, Arrives
  <2> QED BY <1>8, <2>1, <2>2, <2>3 DEF Miss, workVars, cacheVars, pickerVars
<1>9. ASSUME NEW a \in Actor, LockToolbox(a) PROVE TypeOK'
  <2>1. call[a] \in Call
    BY <1>9 DEF LockToolbox, NoCall
  <2>2. call' \in [Actor -> Call \cup {NoCall}]
    BY <1>9, <2>1 DEF LockToolbox, At, Call, Status
  <2>3. runs' \in [Key -> Nat]
    <3>1. cache_key(a, call[a].req) \in Key
      BY <2>1 DEF Call, cache_key, Key
    <3>2. \/ runs' = runs
          \/ runs' = [runs EXCEPT ![cache_key(a, call[a].req)] = @ + 1]
      BY <1>9 DEF LockToolbox
    <3> QED BY <3>1, <3>2
  <2> QED BY <1>9, <2>2, <2>3 DEF LockToolbox, workVars, pickerVars
<1>10. ASSUME NEW a \in Actor, ToolReturns(a) \/ ToolPanics(a) PROVE TypeOK'
  <2>1. call[a] \in Call
    BY <1>10 DEF ToolReturns, ToolPanics, NoCall
  <2>2. call' \in [Actor -> Call \cup {NoCall}]
    BY <1>10, <2>1 DEF ToolReturns, ToolPanics, ToolEnds, At, Call, Status
  <2> QED BY <1>10, <2>2 DEF ToolReturns, ToolPanics, ToolEnds, workVars, pickerVars
<1>11. ASSUME NEW a \in Actor, NEW w \in Worker, CallBack(a, w) PROVE TypeOK'
  <2>1. call[a] \in Call
    BY <1>11 DEF CallBack, NoCall
  <2>2. call' \in [Actor -> Call \cup {NoCall}]
    BY <1>11, <2>1 DEF CallBack, At, Call, Status
  <2> QED BY <1>11, <2>2 DEF CallBack, StartScript, cacheVars, pickerVars
<1>12. ASSUME NEW a \in Actor, Timeout(a) PROVE TypeOK'
  <2>1. call[a] \in Call
    BY <1>12 DEF Timeout, NoCall
  <2>2. call' \in [Actor -> Call \cup {NoCall}]
    BY <1>12, <2>1 DEF Timeout, At, Call, Status
  <2> QED BY <1>12, <2>2 DEF Timeout, pickerVars
<1>13. ASSUME NEW a \in Actor, Store(a) PROVE TypeOK'
  <2>1. call[a] \in Call
    BY <1>13 DEF Store, NoCall
  <2>2. NewEntry(a) \in Entry
    BY <2>1 DEF NewEntry, Entry, Call
  <2>3. cache' \in [Key -> Entry \cup {NoEntry}]
    BY <1>13, <2>1, <2>2 DEF Store, Call, cache_key, Key
  <2>4. got' \in [Deduction -> SUBSET [phase : {"seed", "run"}, owner : Namespace]]
    BY <1>13 DEF Store, Answered, JobOK
  <2>5. call' \in [Actor -> Call \cup {NoCall}]
    BY <1>13 DEF Store
  <2> QED BY <1>13, <2>3, <2>4, <2>5 DEF Store, workVars, pickerVars
<1>14. ASSUME NEW d \in Deduction, SweepSnapshot(d) PROVE TypeOK'
  BY <1>14 DEF SweepSnapshot, Evict, workVars, cacheVars
<1>15. ASSUME NEW d \in Deduction, DeleteSnapshot(d) PROVE TypeOK'
  BY <1>15 DEF DeleteSnapshot, workVars, cacheVars
<1>16. CASE SweepOld
  BY <1>16 DEF SweepOld, Evict, workVars, pickerVars
<1>17. CASE Tick
  BY <1>17 DEF Tick, workVars, cacheVars
<1>18. CASE UNCHANGED vars
  BY <1>18 DEF vars
<1> QED
  BY <1>1, <1>2, <1>3, <1>4, <1>5, <1>6, <1>7, <1>8, <1>9, <1>10, <1>11, <1>12,
     <1>13, <1>14, <1>15, <1>16, <1>17, <1>18 DEF Next, EvaluateStep

LEMMA JobStep == Base /\ [Next]_vars => JobOK'
<1> SUFFICES ASSUME Base, [Next]_vars PROVE JobOK'
  OBVIOUS
<1> USE EvaluateAssumption DEF Base, TypeOK, JobOK, Actor, NoCall
<1>1. ASSUME NEW t \in Thread, StartRun(t) PROVE JobOK'
  BY <1>1 DEF StartRun, pickerVars
<1>2. ASSUME NEW t \in Thread, Finish(t) PROVE JobOK'
  BY <1>2 DEF Finish, pickerVars
<1>3. ASSUME NEW t \in Thread, NEW d \in Deduction, StartSeed(t, d) PROVE JobOK'
  BY <1>3 DEF StartSeed, pickerVars
<1>4. ASSUME NEW w \in Worker, ClientScript(w) PROVE JobOK'
  BY <1>4 DEF ClientScript, StartScript, pickerVars
<1>5. ASSUME NEW w \in Worker, LockEnv(w) PROVE JobOK'
  BY <1>5 DEF LockEnv, pickerVars
<1>6. ASSUME NEW w \in Worker, EndScript(w) PROVE JobOK'
  <2>1. call[w].at = "none"
    BY <1>6 DEF EndScript
  <2>2. CASE serves[w] = None
    BY <1>6, <2>2 DEF EndScript
  <2>3. CASE serves[w] # None
    <3>1. serves[w] \in Actor /\ call[serves[w]].at = "callback" /\ serves[w] # w
      BY <2>1, <2>3 DEF LinkOK
    <3>2. phase[serves[w]] \notin {"idle", "wantEnv"}
      BY <3>1
    <3> QED BY <1>6, <2>3, <3>1, <3>2 DEF EndScript, At
  <2> QED BY <2>2, <2>3
<1>7. ASSUME NEW a \in Actor, NEW q \in Request, Hit(a, q) PROVE JobOK'
  BY <1>7 DEF Hit, workVars, pickerVars
<1>8. ASSUME NEW a \in Actor, NEW q \in Request, Miss(a, q) PROVE JobOK'
  BY <1>8 DEF Miss, CanCall, workVars, pickerVars
<1>9. ASSUME NEW a \in Actor, LockToolbox(a) PROVE JobOK'
  BY <1>9 DEF LockToolbox, At, workVars, pickerVars
<1>10. ASSUME NEW a \in Actor, ToolReturns(a) \/ ToolPanics(a) PROVE JobOK'
  BY <1>10 DEF ToolReturns, ToolPanics, ToolEnds, At, workVars, pickerVars
<1>11. ASSUME NEW a \in Actor, NEW w \in Worker, CallBack(a, w) PROVE JobOK'
  BY <1>11 DEF CallBack, StartScript, At, pickerVars
<1>12. ASSUME NEW a \in Actor, Timeout(a) PROVE JobOK'
  BY <1>12 DEF Timeout, At, pickerVars
<1>13. ASSUME NEW a \in Actor, Store(a) PROVE JobOK'
  BY <1>13 DEF Store, workVars, pickerVars
<1>14. ASSUME NEW d \in Deduction, SweepSnapshot(d) PROVE JobOK'
  BY <1>14 DEF SweepSnapshot, Evict, workVars, cacheVars, pickerVars
<1>15. ASSUME NEW d \in Deduction, DeleteSnapshot(d) PROVE JobOK'
  BY <1>15 DEF DeleteSnapshot, workVars, pickerVars
<1>16. CASE SweepOld
  BY <1>16 DEF SweepOld, Evict, workVars, pickerVars
<1>17. CASE Tick
  BY <1>17 DEF Tick, workVars, pickerVars
<1>18. CASE UNCHANGED vars
  BY <1>18 DEF vars, pickerVars
<1> QED
  BY <1>1, <1>2, <1>3, <1>4, <1>5, <1>6, <1>7, <1>8, <1>9,
     <1>10, <1>11, <1>12, <1>13, <1>14, <1>15, <1>16, <1>17, <1>18 DEF Next, EvaluateStep

LEMMA OneThreadStep == Base /\ [Next]_vars => OneThread'
<1> SUFFICES ASSUME Base, [Next]_vars PROVE OneThread'
  OBVIOUS
<1> USE EvaluateAssumption DEF Base, TypeOK, JobOK, OneThread, Actor
<1>1. ASSUME NEW t \in Thread, StartRun(t) PROVE OneThread'
  BY <1>1 DEF StartRun, pickerVars
<1>2. ASSUME NEW t \in Thread, Finish(t) PROVE OneThread'
  BY <1>2 DEF Finish, pickerVars
<1>3. ASSUME NEW t \in Thread, NEW d \in Deduction, StartSeed(t, d) PROVE OneThread'
  BY <1>3 DEF StartSeed, pickerVars
<1>4. ASSUME NEW w \in Worker, ClientScript(w) PROVE OneThread'
  BY <1>4 DEF ClientScript, StartScript, pickerVars
<1>5. ASSUME NEW w \in Worker, LockEnv(w) PROVE OneThread'
  BY <1>5 DEF LockEnv, pickerVars
<1>6. ASSUME NEW w \in Worker, EndScript(w) PROVE OneThread'
  BY <1>6 DEF EndScript, At, pickerVars
<1>7. ASSUME NEW a \in Actor, NEW q \in Request, Hit(a, q) PROVE OneThread'
  BY <1>7 DEF Hit, workVars, pickerVars
<1>8. ASSUME NEW a \in Actor, NEW q \in Request, Miss(a, q) PROVE OneThread'
  BY <1>8 DEF Miss, CanCall, workVars, pickerVars
<1>9. ASSUME NEW a \in Actor, LockToolbox(a) PROVE OneThread'
  BY <1>9 DEF LockToolbox, At, workVars, pickerVars
<1>10. ASSUME NEW a \in Actor, ToolReturns(a) \/ ToolPanics(a) PROVE OneThread'
  BY <1>10 DEF ToolReturns, ToolPanics, ToolEnds, At, workVars, pickerVars
<1>11. ASSUME NEW a \in Actor, NEW w \in Worker, CallBack(a, w) PROVE OneThread'
  BY <1>11 DEF CallBack, StartScript, At, pickerVars
<1>12. ASSUME NEW a \in Actor, Timeout(a) PROVE OneThread'
  BY <1>12 DEF Timeout, At, pickerVars
<1>13. ASSUME NEW a \in Actor, Store(a) PROVE OneThread'
  BY <1>13 DEF Store, workVars, pickerVars
<1>14. ASSUME NEW d \in Deduction, SweepSnapshot(d) PROVE OneThread'
  BY <1>14 DEF SweepSnapshot, Evict, workVars, cacheVars, pickerVars
<1>15. ASSUME NEW d \in Deduction, DeleteSnapshot(d) PROVE OneThread'
  BY <1>15 DEF DeleteSnapshot, workVars, pickerVars
<1>16. CASE SweepOld
  BY <1>16 DEF SweepOld, Evict, workVars, pickerVars
<1>17. CASE Tick
  BY <1>17 DEF Tick, workVars, pickerVars
<1>18. CASE UNCHANGED vars
  BY <1>18 DEF vars, pickerVars
<1> QED
  BY <1>1, <1>2, <1>3, <1>4, <1>5, <1>6, <1>7, <1>8, <1>9,
     <1>10, <1>11, <1>12, <1>13, <1>14, <1>15, <1>16, <1>17, <1>18 DEF Next, EvaluateStep

LEMMA LinkStep == Base /\ [Next]_vars => LinkOK'
<1> SUFFICES ASSUME Base, [Next]_vars PROVE LinkOK'
  OBVIOUS
<1> USE EvaluateAssumption DEF Base, TypeOK, JobOK, LinkOK, Actor, NoCall
<1>1. ASSUME NEW t \in Thread, StartRun(t) PROVE LinkOK'
  BY <1>1 DEF StartRun
<1>2. ASSUME NEW t \in Thread, Finish(t) PROVE LinkOK'
  BY <1>2 DEF Finish
<1>3. ASSUME NEW t \in Thread, NEW d \in Deduction, StartSeed(t, d) PROVE LinkOK'
  BY <1>3 DEF StartSeed
<1>4. ASSUME NEW w \in Worker, ClientScript(w) PROVE LinkOK'
  BY <1>4 DEF ClientScript, StartScript
<1>5. ASSUME NEW w \in Worker, LockEnv(w) PROVE LinkOK'
  BY <1>5 DEF LockEnv
<1>6. ASSUME NEW w \in Worker, EndScript(w) PROVE LinkOK'
  BY <1>6 DEF EndScript, At
<1>7. ASSUME NEW a \in Actor, NEW q \in Request, Hit(a, q) PROVE LinkOK'
  BY <1>7 DEF Hit, workVars
<1>8. ASSUME NEW a \in Actor, NEW q \in Request, Miss(a, q) PROVE LinkOK'
  BY <1>8 DEF Miss, CanCall, workVars
<1>9. ASSUME NEW a \in Actor, LockToolbox(a) PROVE LinkOK'
  BY <1>9 DEF LockToolbox, At, workVars
<1>10. ASSUME NEW a \in Actor, ToolReturns(a) \/ ToolPanics(a) PROVE LinkOK'
  BY <1>10 DEF ToolReturns, ToolPanics, ToolEnds, At, workVars
<1>11. ASSUME NEW a \in Actor, NEW w \in Worker, CallBack(a, w) PROVE LinkOK'
  BY <1>11 DEF CallBack, StartScript, At
<1>12. ASSUME NEW a \in Actor, Timeout(a) PROVE LinkOK'
  BY <1>12 DEF Timeout, At
<1>13. ASSUME NEW a \in Actor, Store(a) PROVE LinkOK'
  BY <1>13 DEF Store, workVars
<1>14. ASSUME NEW d \in Deduction, SweepSnapshot(d) PROVE LinkOK'
  BY <1>14 DEF SweepSnapshot, Evict, workVars, cacheVars
<1>15. ASSUME NEW d \in Deduction, DeleteSnapshot(d) PROVE LinkOK'
  BY <1>15 DEF DeleteSnapshot, workVars
<1>16. CASE SweepOld
  BY <1>16 DEF SweepOld, Evict, workVars
<1>17. CASE Tick
  BY <1>17 DEF Tick, workVars
<1>18. CASE UNCHANGED vars
  BY <1>18 DEF vars
<1> QED
  BY <1>1, <1>2, <1>3, <1>4, <1>5, <1>6, <1>7, <1>8, <1>9,
     <1>10, <1>11, <1>12, <1>13, <1>14, <1>15, <1>16, <1>17, <1>18 DEF Next, EvaluateStep

LEMMA EntryStep == Base /\ EntryOK /\ [Next]_vars => EntryOK'
<1> SUFFICES ASSUME Base /\ EntryOK, [Next]_vars PROVE EntryOK'
  OBVIOUS
<1> USE EvaluateAssumption DEF EntryOK, Key, Namespace
<1>1. ASSUME NEW t \in Thread, StartRun(t) PROVE EntryOK'
  BY <1>1 DEF StartRun, cacheVars
<1>2. ASSUME NEW t \in Thread, Finish(t) PROVE EntryOK'
  BY <1>2 DEF Finish, cacheVars
<1>3. ASSUME NEW t \in Thread, NEW d \in Deduction, StartSeed(t, d) PROVE EntryOK'
  BY <1>3 DEF StartSeed, cacheVars
<1>4. ASSUME NEW w \in Worker, ClientScript(w) PROVE EntryOK'
  BY <1>4 DEF ClientScript, StartScript, cacheVars
<1>5. ASSUME NEW w \in Worker, LockEnv(w) PROVE EntryOK'
  BY <1>5 DEF LockEnv, cacheVars
<1>6. ASSUME NEW w \in Worker, EndScript(w) PROVE EntryOK'
  BY <1>6 DEF EndScript, cacheVars
<1>7. ASSUME NEW a \in Actor, NEW q \in Request, Hit(a, q) PROVE EntryOK'
  BY <1>7 DEF Hit, workVars, cacheVars
<1>8. ASSUME NEW a \in Actor, NEW q \in Request, Miss(a, q) PROVE EntryOK'
  BY <1>8 DEF Miss, CanCall, workVars, cacheVars
<1>9. ASSUME NEW a \in Actor, LockToolbox(a) PROVE EntryOK'
  BY <1>9 DEF LockToolbox, workVars, cacheVars
<1>10. ASSUME NEW a \in Actor, ToolReturns(a) \/ ToolPanics(a) PROVE EntryOK'
  BY <1>10 DEF ToolReturns, ToolPanics, ToolEnds, workVars, cacheVars
<1>11. ASSUME NEW a \in Actor, NEW w \in Worker, CallBack(a, w) PROVE EntryOK'
  BY <1>11 DEF CallBack, StartScript, cacheVars
<1>12. ASSUME NEW a \in Actor, Timeout(a) PROVE EntryOK'
  BY <1>12 DEF Timeout, cacheVars
<1>13. ASSUME NEW a \in Actor, Store(a) PROVE EntryOK'
  <2>1. call[a] \in Call /\ ctx[a] \in Namespace
    BY <1>13 DEF Store, Base, TypeOK, NoCall
  <2>2. <<ctx[a], call[a].req>> \in Key
    BY <2>1 DEF Call
  <2>3. ctx[a] # None => job[a] = ctx[a]
    BY DEF Base, JobOK
  <2> QED BY <1>13, <2>1, <2>2, <2>3 DEF Store, cache_key, NewEntry, Base, TypeOK
<1>14. ASSUME NEW d \in Deduction, SweepSnapshot(d) PROVE EntryOK'
  BY <1>14 DEF SweepSnapshot, Evict, workVars, cacheVars, cacheVars
<1>15. ASSUME NEW d \in Deduction, DeleteSnapshot(d) PROVE EntryOK'
  BY <1>15 DEF DeleteSnapshot, workVars, cacheVars
<1>16. CASE SweepOld
  BY <1>16 DEF SweepOld, Evict, workVars, cacheVars
<1>17. CASE Tick
  BY <1>17 DEF Tick, workVars, cacheVars
<1>18. CASE UNCHANGED vars
  BY <1>18 DEF vars, cacheVars
<1> QED
  BY <1>1, <1>2, <1>3, <1>4, <1>5, <1>6, <1>7, <1>8, <1>9,
     <1>10, <1>11, <1>12, <1>13, <1>14, <1>15, <1>16, <1>17, <1>18 DEF Next, EvaluateStep

\* The actor of a deduction's context is the only one.
LEMMA OneContext ==
  ASSUME Base, NEW a \in Actor, NEW b \in Actor, ctx[a] # None, ctx[a] = ctx[b]
  PROVE  a = b
BY DEF Base, JobOK, OneThread

\* A call whose tool has run stays where it is but for its own last step.
LEMMA BusyStep ==
  ASSUME Base, [Next]_vars, NEW d \in Deduction, NEW q \in Request, Busy(d, q),
         \A a \in Actor : ~Store(a)
  PROVE  Busy(d, q)'
<1> USE EvaluateAssumption DEF Base, TypeOK, NoCall
<1>1. PICK b \in Actor : ctx[b] = d /\ call[b].req = q /\ InTool(b)
  BY DEF Busy
<1>2. ctx'[b] = d
  BY <1>1 DEF InTool, Next, EvaluateStep, StartRun, Finish, StartSeed, ClientScript, StartScript, LockEnv,
     EndScript, Hit, Miss, LockToolbox, ToolReturns, ToolPanics, ToolEnds, CallBack, Timeout,
     SweepSnapshot, DeleteSnapshot, SweepOld, Tick, workVars, vars, Actor
<1>3. call'[b].req = q /\ InTool(b)'
  <2>1. CASE call' = call
    BY <1>1, <2>1 DEF InTool
  <2>2. ASSUME NEW w \in Worker, EndScript(w) PROVE call'[b].req = q /\ InTool(b)'
    BY <1>1, <2>2 DEF EndScript, At, InTool
  <2>3. ASSUME NEW a \in Actor, NEW r \in Request, Miss(a, r) PROVE call'[b].req = q /\ InTool(b)'
    BY <1>1, <2>3 DEF Miss, CanCall, InTool
  <2>4. ASSUME NEW a \in Actor, LockToolbox(a) PROVE call'[b].req = q /\ InTool(b)'
    BY <1>1, <2>4 DEF LockToolbox, At, InTool
  <2>5. ASSUME NEW a \in Actor, ToolReturns(a) \/ ToolPanics(a) PROVE call'[b].req = q /\ InTool(b)'
    BY <1>1, <2>5 DEF ToolReturns, ToolPanics, ToolEnds, At, InTool
  <2>6. ASSUME NEW a \in Actor, NEW w \in Worker, CallBack(a, w) PROVE call'[b].req = q /\ InTool(b)'
    BY <1>1, <2>6 DEF CallBack, At, InTool
  <2>7. ASSUME NEW a \in Actor, Timeout(a) PROVE call'[b].req = q /\ InTool(b)'
    BY <1>1, <2>7 DEF Timeout, At, InTool
  <2> QED
    BY <2>1, <2>2, <2>3, <2>4, <2>5, <2>6, <2>7 DEF Next, EvaluateStep, StartRun, Finish, StartSeed,
       ClientScript, LockEnv, Hit, SweepSnapshot, DeleteSnapshot, SweepOld, Tick, vars
<1> QED BY <1>1, <1>2, <1>3 DEF Busy

Inv == Base /\ EntryOK /\ PendingOK /\ RunsOK

LEMMA PendingStep == Inv /\ [Next]_vars => PendingOK'
<1> SUFFICES ASSUME Inv, [Next]_vars PROVE PendingOK'
  OBVIOUS
<1> USE EvaluateAssumption DEF Inv, PendingOK, NoCall
<1>0. call \in [Actor -> Call \cup {NoCall}] /\ ctx \in [Actor -> Namespace]
  BY DEF Base, TypeOK
<1>1. CASE UNCHANGED <<call, cache, runs>> /\ \A a \in Actor : call[a] # NoCall => ctx'[a] = ctx[a]
  BY <1>1
<1>2. ASSUME NEW t \in Thread, StartRun(t) \/ Finish(t) \/ \E d \in Deduction : StartSeed(t, d)
      PROVE PendingOK'
  BY <1>0, <1>1, <1>2 DEF StartRun, Finish, StartSeed, cacheVars, Actor
<1>3. ASSUME NEW w \in Worker, ClientScript(w) \/ LockEnv(w) PROVE PendingOK'
  BY <1>1, <1>3 DEF ClientScript, StartScript, LockEnv, cacheVars
<1>4. ASSUME NEW w \in Worker, EndScript(w) PROVE PendingOK'
  BY <1>0, <1>4 DEF EndScript, At, cacheVars, Base, LinkOK
<1>5. ASSUME NEW a \in Actor, NEW q \in Request, Hit(a, q) PROVE PendingOK'
  BY <1>1, <1>5 DEF Hit, workVars, cacheVars
<1>6. ASSUME NEW a \in Actor, NEW q \in Request, Miss(a, q) PROVE PendingOK'
  <2>1. ctx[a] # None => runs[<<ctx[a], q>>] = 0
    <3>1. SUFFICES ASSUME ctx[a] # None PROVE runs[<<ctx[a], q>>] = 0
      OBVIOUS
    <3>2. cache[<<ctx[a], q>>] = NoEntry /\ call[a] = NoCall
      BY <1>6 DEF Miss, CanCall, cache_key
    <3>3. ~Busy(ctx[a], q)
      BY <3>1, <3>2, OneContext DEF Busy, InTool
    <3> QED BY <1>0, <3>1, <3>2, <3>3 DEF RunsOK, Namespace
  <2> QED BY <1>0, <1>6, <2>1 DEF Miss, cache_key, workVars, cacheVars
<1>7. ASSUME NEW a \in Actor, LockToolbox(a) PROVE PendingOK'
  <2> SUFFICES ASSUME NEW b \in Actor, call'[b] # NoCall, ctx'[b] # None
               PROVE  /\ cache'[<<ctx'[b], call'[b].req>>] = NoEntry
                      /\ call'[b].at = "spawned" => runs'[<<ctx'[b], call'[b].req>>] = 0
    OBVIOUS
  <2>1. ctx' = ctx /\ cache' = cache /\ call[a] # NoCall
    BY <1>7 DEF LockToolbox, workVars
  <2>2. CASE b = a
    BY <1>0, <1>7, <2>1, <2>2 DEF LockToolbox, At
  <2>3. CASE b # a
    <3>1. ctx[b] # ctx[a]
      BY <2>1, <2>3, OneContext
    <3>2. call'[b] = call[b]
      BY <1>0, <1>7, <2>3 DEF LockToolbox, At
    <3>3. runs'[<<ctx[b], call[b].req>>] = runs[<<ctx[b], call[b].req>>]
      <4>1. <<ctx[b], call[b].req>> \in Key
        BY <1>0, <2>1, <3>2 DEF Key, Call
      <4>2. runs \in [Key -> Nat]
        BY DEF Base, TypeOK
      <4>3. \/ runs' = runs
            \/ runs' = [runs EXCEPT ![<<ctx[a], call[a].req>>] = @ + 1]
        BY <1>7 DEF LockToolbox, cache_key
      <4> QED BY <3>1, <4>1, <4>2, <4>3
    <3> QED BY <2>1, <3>2, <3>3
  <2> QED BY <2>2, <2>3
<1>8. ASSUME NEW a \in Actor, ToolReturns(a) \/ ToolPanics(a) PROVE PendingOK'
  BY <1>0, <1>8 DEF ToolReturns, ToolPanics, ToolEnds, At, workVars
<1>9. ASSUME NEW a \in Actor, NEW w \in Worker, CallBack(a, w) PROVE PendingOK'
  BY <1>0, <1>9 DEF CallBack, StartScript, At, cacheVars
<1>10. ASSUME NEW a \in Actor, Timeout(a) PROVE PendingOK'
  BY <1>0, <1>10 DEF Timeout, At
<1>11. ASSUME NEW a \in Actor, Store(a) PROVE PendingOK'
  BY <1>0, <1>11, OneContext DEF Store, cache_key, workVars, Base, TypeOK
<1>12. ASSUME \E K \in SUBSET Key : Evict(K), UNCHANGED <<call, ctx>> PROVE PendingOK'
  <2>1. PICK K \in SUBSET Key : Evict(K)
    BY <1>12
  <2>2. ASSUME NEW a \in Actor, call[a] # NoCall, ctx[a] # None PROVE <<ctx[a], call[a].req>> \in Key
    BY <1>0, <2>2 DEF Key, Call
  <2> QED BY <1>12, <2>1, <2>2 DEF Evict
<1>13. ASSUME NEW d \in Deduction, SweepSnapshot(d) PROVE PendingOK'
  BY <1>1, <1>12, <1>13 DEF SweepSnapshot, evict_by_deduction, workVars, cacheVars
<1>14. ASSUME NEW d \in Deduction, DeleteSnapshot(d) PROVE PendingOK'
  BY <1>1, <1>14 DEF DeleteSnapshot, workVars, cacheVars
<1>15. CASE SweepOld
  BY <1>12, <1>15 DEF SweepOld, evict_older_than, workVars
<1>16. CASE Tick \/ UNCHANGED vars
  BY <1>1, <1>16 DEF Tick, workVars, cacheVars, vars
<1> QED
  BY <1>2, <1>3, <1>4, <1>5, <1>6, <1>7, <1>8, <1>9, <1>10, <1>11, <1>13, <1>14, <1>15, <1>16
  DEF Next, EvaluateStep

LEMMA RunsStep == Inv /\ [Next]_vars => RunsOK'
<1> SUFFICES ASSUME Inv, [Next]_vars, NEW d \in Deduction, NEW q \in Request
             PROVE  \/ runs'[<<d, q>>] = 0
                    \/ runs'[<<d, q>>] = 1 /\ (cache'[<<d, q>>] # NoEntry \/ Busy(d, q)')
  BY DEF RunsOK
<1> DEFINE Goal == \/ runs'[<<d, q>>] = 0
                   \/ runs'[<<d, q>>] = 1 /\ (cache'[<<d, q>>] # NoEntry \/ Busy(d, q)')
<1> USE EvaluateAssumption DEF Inv
<1>0. /\ call \in [Actor -> Call \cup {NoCall}] /\ ctx \in [Actor -> Namespace]
      /\ cache \in [Key -> Entry \cup {NoEntry}] /\ runs \in [Key -> Nat]
      /\ <<d, q>> \in Key
  BY DEF Base, TypeOK, Key, Namespace
<1>1. CASE UNCHANGED <<cache, runs>> /\ \A a \in Actor : ~Store(a)
  BY <1>1, BusyStep DEF RunsOK
<1>2. ASSUME NEW a \in Actor, LockToolbox(a) PROVE Goal
  <2>1. call[a] # NoCall /\ call[a].at = "spawned" /\ \A b \in Actor : ~Store(b)
    BY <1>0, <1>2 DEF LockToolbox, NoCall, Store, Call, At
  <2>2. CASE runs' = runs
    BY <1>1, <1>2, <2>1, <2>2 DEF LockToolbox
  <2>3. CASE runs' # runs
    <3>1. runs' = [runs EXCEPT ![<<ctx[a], call[a].req>>] = @ + 1] /\ cache' = cache
      BY <1>2, <2>3 DEF LockToolbox, cache_key
    <3>2. CASE <<d, q>> = <<ctx[a], call[a].req>>
      <4>1. runs'[<<d, q>>] = 1
        BY <1>0, <2>1, <3>1, <3>2 DEF PendingOK
      <4>2. Busy(d, q)'
        BY <1>0, <1>2, <2>3, <3>2 DEF LockToolbox, At, Busy, InTool, workVars
      <4> QED BY <4>1, <4>2
    <3>3. CASE <<d, q>> # <<ctx[a], call[a].req>>
      BY <1>0, <2>1, <3>1, <3>3, BusyStep DEF RunsOK
    <3> QED BY <3>2, <3>3
  <2> QED BY <2>2, <2>3
<1>3. ASSUME NEW a \in Actor, Store(a) PROVE Goal
  <2>1. call[a] \in Call
    BY <1>0, <1>3 DEF Store, NoCall
  <2>2. NewEntry(a) # NoEntry
    BY <2>1 DEF NewEntry, NoEntry, Call, Status
  <2>3. runs' = runs /\ cache' = [cache EXCEPT ![<<ctx[a], call[a].req>>] = NewEntry(a)]
    BY <1>3 DEF Store, cache_key
  <2>4. CASE <<d, q>> = <<ctx[a], call[a].req>>
    BY <1>0, <2>2, <2>3, <2>4 DEF RunsOK
  <2>5. CASE <<d, q>> # <<ctx[a], call[a].req>>
    <3>1. Busy(d, q) => Busy(d, q)'
      BY <1>0, <1>3, <2>5 DEF Store, Busy, InTool, workVars
    <3> QED BY <1>0, <2>3, <2>5, <3>1 DEF RunsOK
  <2> QED BY <2>4, <2>5
<1>4. ASSUME \E K \in SUBSET Key : Evict(K), \A a \in Actor : ~Store(a) PROVE Goal
  <2>1. PICK K \in SUBSET Key : Evict(K)
    BY <1>4
  <2>2. Busy(d, q) => Busy(d, q)'
    BY <1>4, BusyStep
  <2> QED BY <1>0, <2>1, <2>2 DEF RunsOK, Evict
<1>5. ASSUME NEW e \in Deduction, SweepSnapshot(e) PROVE Goal
  <2>1. \A a \in Actor : ~Store(a)
    BY <1>0, <1>5 DEF SweepSnapshot, Store, NoCall
  <2> QED BY <1>1, <1>4, <1>5, <2>1 DEF SweepSnapshot, evict_by_deduction, cacheVars
<1>6. CASE SweepOld
  <2>1. \A a \in Actor : ~Store(a)
    BY <1>0, <1>6 DEF SweepOld, Store, NoCall
  <2> QED BY <1>4, <1>6, <2>1 DEF SweepOld, evict_older_than
<1>7. CASE UNCHANGED <<cache, runs>>
  BY <1>1, <1>3, <1>7
<1> QED
  BY <1>2, <1>3, <1>5, <1>6, <1>7
  DEF Next, EvaluateStep, StartRun, Finish, StartSeed, ClientScript, StartScript, LockEnv, EndScript, Hit,
      Miss, ToolReturns, ToolPanics, ToolEnds, CallBack, Timeout, DeleteSnapshot, Tick, cacheVars, vars

-----------------------------------------------------------------------------
(* Theorems *)

\* The inductive invariant of the evaluate cache, from which the others follow.
THEOREM InvHolds == Spec => []Inv
<1>1. Init => Inv
  BY InitBase DEF Init, Inv, EntryOK, PendingOK, RunsOK, Key, Namespace
<1>2. Inv /\ [Next]_vars => Inv'
  BY TypeStep, JobStep, OneThreadStep, LinkStep, EntryStep, PendingStep, RunsStep DEF Inv, Base
<1> QED BY <1>1, <1>2, PTL DEF Spec

\* The type invariant of the evaluate cache, for any constants: also that the
\* end of a script never reaches a call that has timed out.
THEOREM EvaluateTypeOK == Spec => []TypeOK
<1>1. Inv => TypeOK
  BY DEF Inv, Base
<1> QED BY <1>1, InvHolds, PTL

\* A deduction runs a tool once for a request until the entry is evicted.
THEOREM EvaluateOnce == Spec => []OncePerDeduction
<1>1. Inv => OncePerDeduction
  <2> SUFFICES ASSUME Inv, NEW d \in Deduction, NEW q \in Request PROVE runs[<<d, q>>] <= 1
    BY DEF OncePerDeduction
  <2>1. runs[<<d, q>>] = 0 \/ runs[<<d, q>>] = 1
    BY DEF Inv, RunsOK
  <2> QED BY <2>1
<1> QED BY <1>1, InvHolds, PTL

\* What a cycle is answered was computed for its deduction: a hit comes from
\* the deduction's own namespace, whose entries EntryOK describes.
THEOREM EvaluateOwn == Spec => []RunAnswersOwn
<1>1. Init => RunAnswersOwn
  BY DEF Init, RunAnswersOwn
<1>2. Inv /\ RunAnswersOwn /\ [Next]_vars => RunAnswersOwn'
  <2> SUFFICES ASSUME Inv, RunAnswersOwn, [Next]_vars PROVE RunAnswersOwn'
    OBVIOUS
  <2>0. got \in [Deduction -> SUBSET [phase : {"seed", "run"}, owner : Namespace]]
    BY DEF Inv, Base, TypeOK
  <2>1. ASSUME NEW a \in Actor, NEW owner, Answered(a, owner), phase[a] = "run" => owner = job[a]
        PROVE  RunAnswersOwn'
    <3>1. phase[a] \in {"seed", "run"} => job[a] \in Deduction
      BY DEF Inv, Base, JobOK, TypeOK
    <3> QED BY <2>0, <2>1, <3>1 DEF Answered, RunAnswersOwn
  <2>2. ASSUME NEW a \in Actor, NEW q \in Request, Hit(a, q) PROVE RunAnswersOwn'
    <3>1. phase[a] = "run" => ctx[a] = job[a] /\ job[a] \in Deduction
      BY DEF Inv, Base, JobOK, TypeOK
    <3>2. phase[a] = "run" => cache[<<ctx[a], q>>].owner = job[a]
      BY <2>2, <3>1 DEF Hit, cache_key, Inv, EntryOK
    <3> QED BY <2>1, <2>2, <3>2 DEF Hit, cache_key
  <2>3. ASSUME NEW a \in Actor, Store(a) \/ \E q \in Request : Miss(a, q) PROVE RunAnswersOwn'
    BY <2>1, <2>3 DEF Store, Miss, RunAnswersOwn
  <2>4. CASE got' = got
    BY <2>4 DEF RunAnswersOwn
  <2> QED
    BY <2>2, <2>3, <2>4
    DEF Next, EvaluateStep, StartRun, Finish, StartSeed, ClientScript, StartScript, LockEnv, EndScript,
        LockToolbox, ToolReturns, ToolPanics, ToolEnds, CallBack, Timeout, SweepSnapshot, DeleteSnapshot,
        SweepOld, Tick, vars
<1> QED BY <1>1, <1>2, InvHolds, PTL DEF Spec

\* With a positive cache TTL, a deduction whose snapshot has expired has no
\* entry and gets none: a snapshot is saved only after the thread has left the
\* deduction's context.
THEOREM EvaluateSweptFreed ==
  ASSUME CacheTtl > 0
  PROVE  Spec => []SweptFreed
<1>1. Init => SweptFreed
  BY DEF Init, SweptFreed
<1>2. Inv /\ SweptFreed /\ [Next]_vars => SweptFreed'
  <2> SUFFICES ASSUME Inv, SweptFreed, [Next]_vars PROVE SweptFreed'
    OBVIOUS
  <2>0. /\ cache \in [Key -> Entry \cup {NoEntry}] /\ swept \subseteq Deduction
        /\ \A d \in Deduction, q \in Request : <<d, q>> \in Key
    BY DEF Inv, Base, TypeOK, Key, Namespace
  <2>1. CASE UNCHANGED <<cache, swept>>
    BY <2>1 DEF SweptFreed
  <2>2. ASSUME NEW a \in Actor, Store(a) PROVE SweptFreed'
    <3>1. ctx[a] \notin swept
      BY EvaluateAssumption DEF Inv, Base, JobOK, OneThread, TypeOK
    <3>2. cache' = [cache EXCEPT ![<<ctx[a], call[a].req>>] = NewEntry(a)] /\ swept' = swept
      BY <2>2 DEF Store, cache_key, pickerVars
    <3> QED BY <2>0, <3>1, <3>2 DEF SweptFreed
  <2>3. ASSUME NEW d \in Deduction, SweepSnapshot(d) PROVE SweptFreed'
    <3>1. cache' = [k \in Key |-> IF k \in evict_by_deduction(d) THEN NoEntry ELSE cache[k]]
          /\ swept' = swept \cup {d}
      BY <2>3 DEF SweepSnapshot, Evict
    <3>2. \A q \in Request : cache[<<d, q>>] = NoEntry \/ <<d, q>> \in evict_by_deduction(d)
      BY <2>0 DEF evict_by_deduction, Inv, EntryOK
    <3> QED BY <2>0, <3>1, <3>2 DEF SweptFreed
  <2>4. CASE SweepOld
    BY <2>0, <2>4 DEF SweepOld, Evict, SweptFreed, pickerVars
  <2> QED
    BY <2>1, <2>2, <2>3, <2>4
    DEF Next, EvaluateStep, StartRun, Finish, StartSeed, ClientScript, StartScript, LockEnv, EndScript, Hit,
        Miss, LockToolbox, ToolReturns, ToolPanics, ToolEnds, CallBack, Timeout, DeleteSnapshot, Tick,
        cacheVars, pickerVars, vars
<1> QED BY <1>1, <1>2, InvHolds, PTL DEF Spec

=============================================================================
