------------------------ MODULE DeduceServiceProofs ------------------------
(***************************************************************************)
(* Proofs about DeduceService, for any number of deductions and events and *)
(* for every TTL: its type correctness and the four safety invariants.     *)
(***************************************************************************)
EXTENDS DeduceService, TLAPS

-----------------------------------------------------------------------------
(* The inductive invariant and its parts. *)

\* Initial states are well typed.
LEMMA InitType == Init => TypeOK
<1> USE ServiceAssumption
<1> SUFFICES ASSUME Init PROVE TypeOK
  OBVIOUS
<1>1. picker \in [at : {"idle", "snapshots", "orphans"}, now : Nat,
                  exclude : SUBSET Ded, todo : SUBSET Ded]
  BY DEF Init, Idle
<1>2. /\ entry \in [Ded -> {"none", "Running", "Converged", "Interrupted", "Error", "lost"}]
      /\ flag \in [Ded -> BOOLEAN] /\ persist \in [Ded -> BOOLEAN]
      /\ from \in [Ded -> Ded \cup {None}]
  BY DEF Init
<1>3. /\ task \in [Ded -> {"none", "ids", "wait", "record", "persist", "end", "dead"}]
      /\ thread \in [Ded -> {"none", "seed", "restore", "run", "save", "evict", "returned", "dead"}]
      /\ ids \in [Ded -> {"pending", "sent", "dropped"}]
      /\ verdict \in [Ded -> Verdicts \cup {"none"}]
  BY DEF Init
<1>4. /\ live \in [Ev -> Ded \cup {None}] /\ stored \in [Ev -> Ded \cup {None}]
      /\ born \in [Ev -> Int] /\ snap \in [Ded -> Nat \cup {None}]
      /\ home \in [Ev -> Ded \cup {None}] /\ family \in [Ded -> SUBSET Ded]
      /\ done \subseteq Ev /\ stray \subseteq Ev
  BY DEF Init
<1>5. clock \in 0..MaxClock /\ crashes \in 0..MaxCrash /\ active \subseteq Ded
  BY DEF Init
<1>6. QED
  BY <1>1, <1>2, <1>3, <1>4, <1>5 DEF TypeOK

\* What the status, the task and the thread of a deduction say of each other.
Life(d) ==
  /\ entry[d] = "none" => task[d] = "none"
  /\ thread[d] = "none" => task[d] = "none"
  /\ d \in active => task[d] = "wait"
  /\ task[d] \in {"record", "persist", "end"} => thread[d] = "returned"
  /\ task[d] = "dead" => thread[d] = "dead"
  /\ thread[d] \in {"save", "evict", "returned"} => verdict[d] \in Verdicts
  /\ snap[d] # None => task[d] \in {"end", "dead"}

\* What a returned thread has left behind and what the task has reported.
Outcome(d) ==
  /\ thread[d] = "returned" /\ verdict[d] # "Error" =>
       \A e \in Ev : live[e] = d => e \in stray
  /\ task[d] \in {"persist", "end"} => entry[d] = Reported(verdict[d])

\* A deduction inherits the family of the one it resumes, which was accepted
\* before it; what lies under its session comes from its family.
Lineage(d) ==
  /\ d \in family[d]
  /\ thread[d] = "restore" => from[d] # None
  /\ entry[d] = "none" => family[d] = {d}
  /\ from[d] # None => entry[from[d]] # "none" /\ family[from[d]] \subseteq family[d]
  /\ \A e \in Ev : live[e] = d \/ stored[e] = d => home[e] \in family[d]
  /\ \A e \in Ev : live[e] = d \/ stored[e] = d => born[e] # -1

\* The inductive invariant.
Inv ==
  /\ TypeOK
  /\ \A d \in Ded : Life(d)
  /\ \A d \in Ded : Outcome(d)
  /\ \A d \in Ded : Lineage(d)

\* Every step keeps the types.
LEMMA StepType == Inv /\ [Next]_vars => TypeOK'
<1> USE ServiceAssumption
<1> SUFFICES ASSUME Inv, [Next]_vars PROVE TypeOK'
  OBVIOUS
<1> USE DEF handleVars, runVars, mailVars, storeVars, restVars, Inv
<1>1. ASSUME NEW d \in Ded, NEW s \in Ded \cup {None}, Accept(d, s) PROVE TypeOK'
  BY <1>1 DEF Accept, TypeOK
<1>2. ASSUME NEW d \in Ded, InterruptDeduce(d) PROVE TypeOK'
  BY <1>2 DEF InterruptDeduce, TypeOK
<1>3. ASSUME NEW d \in Ded, DeleteSnapshot(d) PROVE TypeOK'
  BY <1>3 DEF DeleteSnapshot, DeleteSnapshotRow, RowsDeleted, TypeOK
<1>4. ASSUME NEW d \in Ded, Seed(d) PROVE TypeOK'
  <2>1. /\ ids' \in [Ded -> {"pending", "sent", "dropped"}]
        /\ verdict' \in [Ded -> Verdicts \cup {"none"}]
    BY <1>4 DEF Seed, TypeOK, Verdicts
  <2>2. thread' \in [Ded -> {"none", "seed", "restore", "run", "save", "evict", "returned", "dead"}]
    BY <1>4 DEF Seed, TypeOK
  <2>3. QED
    BY <1>4, <2>1, <2>2 DEF Seed, TypeOK
<1>5. ASSUME NEW d \in Ded, RestoreFrom(d) PROVE TypeOK'
  BY <1>5 DEF RestoreFrom, Rows, TypeOK, Verdicts
<1>6. ASSUME NEW d \in Ded, RunCycle(d) PROVE TypeOK'
  BY <1>6 DEF RunCycle, Write, Pending, Kept, TypeOK
<1>7. ASSUME NEW d \in Ded, RunExit(d) PROVE TypeOK'
  BY <1>7 DEF RunExit, TypeOK
<1>8. ASSUME NEW d \in Ded, SaveSession(d) PROVE TypeOK'
  BY <1>8 DEF SaveSession, Pending, Kept, TypeOK
<1>9. ASSUME NEW d \in Ded, EvictSession(d) PROVE TypeOK'
  BY <1>9 DEF EvictSession, Kept, TypeOK
<1>10. ASSUME NEW d \in Ded, RegisterIds(d) PROVE TypeOK'
  BY <1>10 DEF RegisterIds, TypeOK
<1>11. ASSUME NEW d \in Ded, ReleaseIds(d) PROVE TypeOK'
  BY <1>11 DEF ReleaseIds, TypeOK
<1>12. ASSUME NEW d \in Ded, RecordResult(d) PROVE TypeOK'
  BY <1>12 DEF RecordResult, Reported, TypeOK, Verdicts, Life
<1>13. ASSUME NEW d \in Ded, SaveSnapshot(d) PROVE TypeOK'
  BY <1>13 DEF SaveSnapshot, TypeOK
<1>14. ASSUME NEW d \in Ded, SweepSnapshot(d) PROVE TypeOK'
  BY <1>14 DEF SweepSnapshot, DeleteSnapshotRow, RowsDeleted, TypeOK
<1>15. ASSUME NEW d \in Ded, SweepOrphan(d) PROVE TypeOK'
  BY <1>15 DEF SweepOrphan, RowsDeleted, TypeOK
<1>16. ASSUME SweepBegin PROVE TypeOK'
  BY <1>16 DEF SweepBegin, Expired, TypeOK
<1>17. ASSUME SweepQueryStale PROVE TypeOK'
  <2>1. CASE picker' = Idle
    BY <1>17, <2>1 DEF SweepQueryStale, Idle, TypeOK
  <2>2. ASSUME NEW S \in SUBSET Ded,
               picker' = [picker EXCEPT !.at = "orphans", !.todo = S]
        PROVE  picker' \in [at : {"idle", "snapshots", "orphans"}, now : Nat,
                            exclude : SUBSET Ded, todo : SUBSET Ded]
    BY <2>2 DEF TypeOK
  <2>3. CASE picker' = [picker EXCEPT !.at = "orphans",
                           !.todo = {d \in Ded : Stale(d) /\ d \notin picker.exclude}]
    BY <1>17, <2>2, <2>3 DEF SweepQueryStale, TypeOK
  <2>4. QED
    BY <1>17, <2>1, <2>3 DEF SweepQueryStale
<1>18. ASSUME SweepEnd PROVE TypeOK'
  BY <1>18 DEF SweepEnd, Idle, TypeOK
<1>19. ASSUME Tick PROVE TypeOK'
  BY <1>19 DEF Tick, TypeOK
<1>20. ASSUME Crash PROVE TypeOK'
  BY <1>20 DEF Crash, Idle, TypeOK
<1>21. ASSUME NEW d \in Ded, NEW e \in Ev, CoirePush(d, e) PROVE TypeOK'
  BY <1>21 DEF CoirePush, Write, TypeOK
<1>22. ASSUME UNCHANGED vars PROVE TypeOK'
  BY <1>22 DEF vars, TypeOK
<1>23. QED
  BY <1>1, <1>2, <1>3, <1>4, <1>5, <1>6, <1>7, <1>8, <1>9, <1>10, <1>11,
     <1>12, <1>13, <1>14, <1>15, <1>16, <1>17, <1>18, <1>19, <1>20, <1>21, <1>22
     DEF Next, Client, Sweep, Thread, Task, StartDeduce, ResumeDeduce

\* Every step keeps Life.
LEMMA StepLife == Inv /\ [Next]_vars => \A x \in Ded : Life(x)'
<1> USE ServiceAssumption
<1> SUFFICES ASSUME Inv, [Next]_vars, NEW x \in Ded PROVE Life(x)'
  OBVIOUS
<1>0. TypeOK /\ Life(x) /\ Outcome(x)
  BY DEF Inv
<1> USE DEF handleVars, runVars, mailVars, storeVars, restVars
<1>1. ASSUME NEW d \in Ded, NEW s \in Ded \cup {None}, Accept(d, s) PROVE Life(x)'
  BY <1>0, <1>1 DEF Accept, TypeOK, Life
<1>2. ASSUME NEW d \in Ded, InterruptDeduce(d) PROVE Life(x)'
  BY <1>0, <1>2 DEF InterruptDeduce, TypeOK, Life
<1>3. ASSUME NEW d \in Ded, DeleteSnapshot(d) PROVE Life(x)'
  BY <1>0, <1>3 DEF DeleteSnapshot, DeleteSnapshotRow, RowsDeleted, TypeOK, Life
<1>4. ASSUME NEW d \in Ded, Seed(d) PROVE Life(x)'
  BY <1>0, <1>4 DEF Seed, TypeOK, Life, Verdicts
<1>5. ASSUME NEW d \in Ded, RestoreFrom(d) PROVE Life(x)'
  BY <1>0, <1>5 DEF RestoreFrom, Rows, TypeOK, Life, Verdicts
<1>6. ASSUME NEW d \in Ded, RunCycle(d) PROVE Life(x)'
  BY <1>0, <1>6 DEF RunCycle, Write, Pending, Kept, TypeOK, Life
<1>7. ASSUME NEW d \in Ded, RunExit(d) PROVE Life(x)'
  BY <1>0, <1>7 DEF RunExit, TypeOK, Life
<1>8. ASSUME NEW d \in Ded, SaveSession(d) PROVE Life(x)'
  BY <1>0, <1>8 DEF SaveSession, Pending, Kept, TypeOK, Life
<1>9. ASSUME NEW d \in Ded, EvictSession(d) PROVE Life(x)'
  BY <1>0, <1>9 DEF EvictSession, Kept, TypeOK, Life
<1>10. ASSUME NEW d \in Ded, RegisterIds(d) PROVE Life(x)'
  BY <1>0, <1>10 DEF RegisterIds, TypeOK, Life
<1>11. ASSUME NEW d \in Ded, ReleaseIds(d) PROVE Life(x)'
  BY <1>0, <1>11 DEF ReleaseIds, TypeOK, Life
<1>12. ASSUME NEW d \in Ded, RecordResult(d) PROVE Life(x)'
  BY <1>0, <1>12 DEF RecordResult, TypeOK, Life, Reported, Verdicts
<1>13. ASSUME NEW d \in Ded, SaveSnapshot(d) PROVE Life(x)'
  BY <1>0, <1>13 DEF SaveSnapshot, TypeOK, Life
<1>14. ASSUME NEW d \in Ded, SweepSnapshot(d) PROVE Life(x)'
  BY <1>0, <1>14 DEF SweepSnapshot, DeleteSnapshotRow, RowsDeleted, TypeOK, Life
<1>15. ASSUME NEW d \in Ded, SweepOrphan(d) PROVE Life(x)'
  BY <1>0, <1>15 DEF SweepOrphan, RowsDeleted, TypeOK, Life
<1>16. ASSUME SweepBegin PROVE Life(x)'
  BY <1>0, <1>16 DEF SweepBegin, Expired, TypeOK, Life
<1>17. ASSUME SweepQueryStale PROVE Life(x)'
  BY <1>0, <1>17 DEF SweepQueryStale, Idle, TypeOK, Life
<1>18. ASSUME SweepEnd PROVE Life(x)'
  BY <1>0, <1>18 DEF SweepEnd, Idle, TypeOK, Life
<1>19. ASSUME Tick PROVE Life(x)'
  BY <1>0, <1>19 DEF Tick, TypeOK, Life
<1>20. ASSUME Crash PROVE Life(x)'
  BY <1>0, <1>20 DEF Crash, Idle, TypeOK, Life
<1>21. ASSUME NEW d \in Ded, NEW e \in Ev, CoirePush(d, e) PROVE Life(x)'
  BY <1>0, <1>21 DEF CoirePush, Write, TypeOK, Life
<1>22. ASSUME UNCHANGED vars PROVE Life(x)'
  BY <1>0, <1>22 DEF vars, TypeOK, Life
<1>23. QED
  BY <1>1, <1>2, <1>3, <1>4, <1>5, <1>6, <1>7, <1>8, <1>9, <1>10, <1>11,
     <1>12, <1>13, <1>14, <1>15, <1>16, <1>17, <1>18, <1>19, <1>20, <1>21, <1>22
     DEF Next, Client, Sweep, Thread, Task, StartDeduce, ResumeDeduce

\* Every step keeps Outcome.
LEMMA StepOutcome == Inv /\ [Next]_vars => \A x \in Ded : Outcome(x)'
<1> USE ServiceAssumption
<1> SUFFICES ASSUME Inv, [Next]_vars, NEW x \in Ded PROVE Outcome(x)'
  OBVIOUS
<1>0. TypeOK /\ Life(x) /\ Outcome(x)
  BY DEF Inv
<1> USE DEF handleVars, runVars, mailVars, storeVars, restVars
<1>1. ASSUME NEW d \in Ded, NEW s \in Ded \cup {None}, Accept(d, s) PROVE Outcome(x)'
  BY <1>0, <1>1 DEF Accept, TypeOK, Outcome
<1>2. ASSUME NEW d \in Ded, InterruptDeduce(d) PROVE Outcome(x)'
  BY <1>0, <1>2 DEF InterruptDeduce, TypeOK, Outcome, Reported, Verdicts
<1>3. ASSUME NEW d \in Ded, DeleteSnapshot(d) PROVE Outcome(x)'
  BY <1>0, <1>3 DEF DeleteSnapshot, DeleteSnapshotRow, RowsDeleted, TypeOK, Outcome
<1>4. ASSUME NEW d \in Ded, Seed(d) PROVE Outcome(x)'
  BY <1>0, <1>4 DEF Seed, TypeOK, Outcome, Life
<1>5. ASSUME NEW d \in Ded, RestoreFrom(d) PROVE Outcome(x)'
  BY <1>0, <1>5 DEF RestoreFrom, Rows, TypeOK, Outcome, Life
<1>6. ASSUME NEW d \in Ded, RunCycle(d) PROVE Outcome(x)'
  BY <1>0, <1>6 DEF RunCycle, Write, Pending, Kept, TypeOK, Outcome
<1>7. ASSUME NEW d \in Ded, RunExit(d) PROVE Outcome(x)'
  BY <1>0, <1>7 DEF RunExit, TypeOK, Outcome, Life
<1>8. ASSUME NEW d \in Ded, SaveSession(d) PROVE Outcome(x)'
  BY <1>0, <1>8 DEF SaveSession, Pending, Kept, TypeOK, Outcome
<1>9. ASSUME NEW d \in Ded, EvictSession(d) PROVE Outcome(x)'
  BY <1>0, <1>9 DEF EvictSession, Kept, TypeOK, Outcome
<1>10. ASSUME NEW d \in Ded, RegisterIds(d) PROVE Outcome(x)'
  BY <1>0, <1>10 DEF RegisterIds, TypeOK, Outcome
<1>11. ASSUME NEW d \in Ded, ReleaseIds(d) PROVE Outcome(x)'
  BY <1>0, <1>11 DEF ReleaseIds, TypeOK, Outcome
<1>12. ASSUME NEW d \in Ded, RecordResult(d) PROVE Outcome(x)'
  BY <1>0, <1>12 DEF RecordResult, TypeOK, Outcome
<1>13. ASSUME NEW d \in Ded, SaveSnapshot(d) PROVE Outcome(x)'
  BY <1>0, <1>13 DEF SaveSnapshot, TypeOK, Outcome
<1>14. ASSUME NEW d \in Ded, SweepSnapshot(d) PROVE Outcome(x)'
  BY <1>0, <1>14 DEF SweepSnapshot, DeleteSnapshotRow, RowsDeleted, TypeOK, Outcome
<1>15. ASSUME NEW d \in Ded, SweepOrphan(d) PROVE Outcome(x)'
  BY <1>0, <1>15 DEF SweepOrphan, RowsDeleted, TypeOK, Outcome
<1>16. ASSUME SweepBegin PROVE Outcome(x)'
  BY <1>0, <1>16 DEF SweepBegin, Expired, TypeOK, Outcome
<1>17. ASSUME SweepQueryStale PROVE Outcome(x)'
  BY <1>0, <1>17 DEF SweepQueryStale, Idle, TypeOK, Outcome
<1>18. ASSUME SweepEnd PROVE Outcome(x)'
  BY <1>0, <1>18 DEF SweepEnd, Idle, TypeOK, Outcome
<1>19. ASSUME Tick PROVE Outcome(x)'
  BY <1>0, <1>19 DEF Tick, TypeOK, Outcome
<1>20. ASSUME Crash PROVE Outcome(x)'
  BY <1>0, <1>20 DEF Crash, Idle, TypeOK, Outcome
<1>21. ASSUME NEW d \in Ded, NEW e \in Ev, CoirePush(d, e) PROVE Outcome(x)'
  BY <1>0, <1>21 DEF CoirePush, Write, TypeOK, Outcome
<1>22. ASSUME UNCHANGED vars PROVE Outcome(x)'
  BY <1>0, <1>22 DEF vars, TypeOK, Outcome
<1>23. QED
  BY <1>1, <1>2, <1>3, <1>4, <1>5, <1>6, <1>7, <1>8, <1>9, <1>10, <1>11,
     <1>12, <1>13, <1>14, <1>15, <1>16, <1>17, <1>18, <1>19, <1>20, <1>21, <1>22
     DEF Next, Client, Sweep, Thread, Task, StartDeduce, ResumeDeduce

\* Every step keeps Lineage.
LEMMA StepLineage == Inv /\ [Next]_vars => \A x \in Ded : Lineage(x)'
<1> USE ServiceAssumption
<1> SUFFICES ASSUME Inv, [Next]_vars, NEW x \in Ded PROVE Lineage(x)'
  OBVIOUS
<1>0. TypeOK /\ Lineage(x) /\ \A y \in Ded : Lineage(y) /\ Life(y)
  BY DEF Inv
<1> USE DEF handleVars, runVars, mailVars, storeVars, restVars
<1>1. ASSUME NEW d \in Ded, NEW s \in Ded \cup {None}, Accept(d, s),
             s # None => entry[s] # "none"
      PROVE  Lineage(x)'
  BY <1>0, <1>1 DEF Accept, TypeOK, Lineage
<1>2. ASSUME NEW d \in Ded, InterruptDeduce(d) PROVE Lineage(x)'
  BY <1>0, <1>2 DEF InterruptDeduce, TypeOK, Lineage
<1>3. ASSUME NEW d \in Ded, DeleteSnapshot(d) PROVE Lineage(x)'
  BY <1>0, <1>3 DEF DeleteSnapshot, DeleteSnapshotRow, RowsDeleted, TypeOK, Lineage
<1>4. ASSUME NEW d \in Ded, Seed(d) PROVE Lineage(x)'
  BY <1>0, <1>4 DEF Seed, TypeOK, Lineage
<1>5. ASSUME NEW d \in Ded, RestoreFrom(d) PROVE Lineage(x)'
  <2>1. UNCHANGED <<entry, from, family, home, born, stored>>
    BY <1>5 DEF RestoreFrom
  <2>2. ASSUME NEW y \in Ded, thread'[y] = "restore" PROVE thread[y] = "restore"
    BY <1>0, <1>5, <2>2 DEF RestoreFrom, TypeOK
  <2>3. PICK written \in SUBSET Rows(from[d]) :
               live' = [e \in Ev |-> IF e \in written THEN d ELSE live[e]]
    BY <1>5 DEF RestoreFrom
  <2>4. ASSUME NEW e \in Ev, e \in written
        PROVE  home[e] \in family[d] /\ born[e] # -1
    <3>1. stored[e] = from[d]
      BY <2>4 DEF Rows
    <3>2. from[d] # None
      BY <1>0, <1>5 DEF RestoreFrom, Lineage
    <3>3. QED
      BY <3>1, <3>2, <1>0 DEF Lineage, TypeOK
  <2>5. ASSUME NEW e \in Ev, live'[e] = x \/ stored'[e] = x
        PROVE  home'[e] \in family'[x] /\ born'[e] # -1
    BY <1>0, <2>1, <2>3, <2>4, <2>5 DEF TypeOK, Lineage
  <2>6. QED
    BY <1>0, <2>1, <2>2, <2>5 DEF Lineage
<1>6. ASSUME NEW d \in Ded, RunCycle(d) PROVE Lineage(x)'
  BY <1>0, <1>6 DEF RunCycle, Write, Pending, Kept, TypeOK, Lineage
<1>7. ASSUME NEW d \in Ded, RunExit(d) PROVE Lineage(x)'
  BY <1>0, <1>7 DEF RunExit, TypeOK, Lineage
<1>8. ASSUME NEW d \in Ded, SaveSession(d) PROVE Lineage(x)'
  BY <1>0, <1>8 DEF SaveSession, Pending, Kept, TypeOK, Lineage
<1>9. ASSUME NEW d \in Ded, EvictSession(d) PROVE Lineage(x)'
  BY <1>0, <1>9 DEF EvictSession, Kept, TypeOK, Lineage
<1>10. ASSUME NEW d \in Ded, RegisterIds(d) PROVE Lineage(x)'
  BY <1>0, <1>10 DEF RegisterIds, TypeOK, Lineage
<1>11. ASSUME NEW d \in Ded, ReleaseIds(d) PROVE Lineage(x)'
  BY <1>0, <1>11 DEF ReleaseIds, TypeOK, Lineage
<1>12. ASSUME NEW d \in Ded, RecordResult(d) PROVE Lineage(x)'
  BY <1>0, <1>12 DEF RecordResult, TypeOK, Lineage, Life, Reported, Verdicts
<1>13. ASSUME NEW d \in Ded, SaveSnapshot(d) PROVE Lineage(x)'
  BY <1>0, <1>13 DEF SaveSnapshot, TypeOK, Lineage
<1>14. ASSUME NEW d \in Ded, SweepSnapshot(d) PROVE Lineage(x)'
  BY <1>0, <1>14 DEF SweepSnapshot, DeleteSnapshotRow, RowsDeleted, TypeOK, Lineage
<1>15. ASSUME NEW d \in Ded, SweepOrphan(d) PROVE Lineage(x)'
  BY <1>0, <1>15 DEF SweepOrphan, RowsDeleted, TypeOK, Lineage
<1>16. ASSUME SweepBegin PROVE Lineage(x)'
  BY <1>0, <1>16 DEF SweepBegin, TypeOK, Lineage
<1>17. ASSUME SweepQueryStale PROVE Lineage(x)'
  BY <1>0, <1>17 DEF SweepQueryStale, TypeOK, Lineage
<1>18. ASSUME SweepEnd PROVE Lineage(x)'
  BY <1>0, <1>18 DEF SweepEnd, TypeOK, Lineage
<1>19. ASSUME Tick PROVE Lineage(x)'
  BY <1>0, <1>19 DEF Tick, TypeOK, Lineage
<1>20. ASSUME Crash PROVE Lineage(x)'
  BY <1>0, <1>20 DEF Crash, TypeOK, Lineage
<1>21. ASSUME NEW d \in Ded, NEW e \in Ev, CoirePush(d, e) PROVE Lineage(x)'
  BY <1>0, <1>21 DEF CoirePush, Write, TypeOK, Lineage
<1>22. ASSUME UNCHANGED vars PROVE Lineage(x)'
  BY <1>0, <1>22 DEF vars, TypeOK, Lineage
<1>23. ASSUME NEW d \in Ded, NEW s \in Ded, ResumeDeduce(d, s) PROVE Lineage(x)'
  <2>1. entry[s] # "none"
    BY <1>0, <1>23 DEF ResumeDeduce, Life
  <2>2. QED
    BY <1>1, <1>23, <2>1 DEF ResumeDeduce
<1>24. ASSUME NEW d \in Ded, StartDeduce(d) PROVE Lineage(x)'
  BY <1>1, <1>24 DEF StartDeduce
<1>25. QED
  BY <1>2, <1>3, <1>4, <1>5, <1>6, <1>7, <1>8, <1>9, <1>10, <1>11, <1>12, <1>13,
     <1>14, <1>15, <1>16, <1>17, <1>18, <1>19, <1>20, <1>21, <1>22, <1>23, <1>24
     DEF Next, Client, Sweep, Thread, Task

\* Initially nothing has started.
LEMMA InitLife == Init => \A d \in Ded : Life(d) /\ Outcome(d) /\ Lineage(d)
  BY ServiceAssumption DEF Init, Life, Outcome, Lineage

\* The invariant holds in every reachable state.
LEMMA Inductive == Spec => []Inv
<1>1. Init => Inv
  BY InitType, InitLife DEF Inv
<1>2. Inv /\ [Next]_vars => Inv'
  BY StepType, StepLife, StepOutcome, StepLineage DEF Inv
<1>3. QED
  BY <1>1, <1>2, PTL DEF Spec

\* Every variable of the deduction service keeps its type; the result recorded
\* for a deduction is always one that run() returned.
THEOREM TypeCorrect == Spec => []TypeOK
<1>1. Inv => TypeOK
  BY DEF Inv
<1>2. QED
  BY Inductive, <1>1, PTL

\* resume_deduce and delete_snapshot only ever meet the snapshot of a session
\* that is not active and whose thread is done.
THEOREM SnapshotsIdleHolds == Spec => []SnapshotsAreIdle
<1>1. Inv => SnapshotsAreIdle
  BY DEF Inv, Life, SnapshotsAreIdle
<1>2. QED
  BY Inductive, <1>1, PTL

\* Once recorded, the status of a deduction stays what run() returned, whenever
\* interrupt_deduce is called.
THEOREM FinalStatusHolds == Spec => []FinalStatusIsVerdict
<1>1. Inv => FinalStatusIsVerdict
  BY DEF Inv, Outcome, FinalStatusIsVerdict
<1>2. QED
  BY Inductive, <1>1, PTL

\* A deduction that ended without an error leaves in the shared Coire only what a
\* failed clear kept or a client pushed after its end.
THEOREM LeakHolds == Spec => []LeakAccounted
<1>1. Inv => LeakAccounted
  BY DEF Inv, Life, Outcome, LeakAccounted, Kept
<1>2. QED
  BY Inductive, <1>1, PTL

\* However events are restored, saved, swept and pushed, none ever lies under a
\* session outside the family of the deduction it came from.
THEOREM LineageHolds == Spec => []LineageKept
<1>1. Inv => LineageKept
  BY DEF Inv, Lineage, LineageKept
<1>2. QED
  BY Inductive, <1>1, PTL
=============================================================================
