----------------------- MODULE CycleControllerProofs -----------------------
(***************************************************************************)
(* Proofs about CycleController, for every value of its constants: type    *)
(* correctness, the inductive invariant behind its safety properties, and  *)
(* the step simulation by ConsultProtocol.                                 *)
(***************************************************************************)
EXTENDS CycleController, TLAPS

\* Event builds an event.
LEMMA EventType ==
  ASSUME NEW o \in Origins, NEW l \in Labels, NEW c \in Cid \cup {NoCid}
  PROVE  Event(o, l, c) \in ClaraEvent
  BY DEF Event, ClaraEvent

\* What an engine may emit is a set of events, and the ids in it are new.
LEMMA ConsultationType ==
  ASSUME NEW q \in Consultations
  PROVE  /\ q \subseteq ClaraEvent
         /\ CidsOf(q) \subseteq CorrCid \ minted
         /\ \A e \in q : e.origin = "evaluator"
         /\ \A e \in q : e.cid = NoCid \/ e.cid \in CidsOf(q)
  BY CidAssumption DEF Consultations, CidsOf, ClaraEvent, Cid

\* So is what an engine publishes for the other one.
LEMMA FactsType ==
  ASSUME NEW o \in Origins, NEW f \in Facts(o)
  PROVE  /\ f \subseteq ClaraEvent
         /\ \A e \in f : e.origin = o
  <1>1. Event(o, "data", NoCid) \in ClaraEvent
    BY EventType DEF Labels
  <1>2. QED
    BY <1>1 DEF Facts, Event

\* What a relay moves becomes relay events.
LEMMA RelayedType ==
  ASSUME NEW box
  PROVE  {Event("relay", "data", NoCid) : e \in box} \subseteq ClaraEvent
  BY EventType DEF Origins, Labels

\* A filtered poll returns part of the mailbox.
LEMMA PollSubset ==
  ASSUME NEW box, NEW o
  PROVE  /\ WithOrigin(box, o) \subseteq box
         /\ ExcludingOrigin(box, o) \subseteq box
  BY DEF WithOrigin, ExcludingOrigin

\* Whatever rules poll and whichever writes fail, a mailbox holds nothing but
\* what it held and what was written to it.
LEMMA MailboxSubset ==
  ASSUME NEW box, NEW new
  PROVE  /\ \A left \in Polled(box, new) : left \subseteq box \cup new
         /\ \A left \in Drained(box, new) : left \subseteq box \cup new
         /\ \A left \in Written(box, new) : left \subseteq box \cup new
         /\ \A left \in Cleared(box) : left \subseteq box
  BY PollSubset DEF Polled, Drained, Written, Cleared

\* A timeout Tabu is an event.
LEMMA TabuType ==
  ASSUME NEW c \in Cid
  PROVE  TimeoutTabu(c) \in ClaraEvent
  <1>1. (IF c \in CorrCid THEN c ELSE NoCid) \in Cid \cup {NoCid}
    OBVIOUS
  <1>2. QED
    BY <1>1, EventType DEF TimeoutTabu, Origins, Labels

\* What prolog_pass may leave in its mailbox.
LEMMA PrologPassMail ==
  ASSUME PrologPass
  PROVE  \E f \in Facts("prolog"), q \in Consultations :
           pm' \subseteq pm \cup f \cup q /\ minted' = minted \cup CidsOf(q)
<1>1. PICK f \in Facts("prolog"), q \in Consultations :
        /\ pm' \in Drained(pm \ WithOrigin(pm, "relay"), f \cup q) \cup {pm}
        /\ minted' = minted \cup CidsOf(q)
  BY DEF PrologPass
<1>2. pm' \subseteq pm \cup f \cup q
  BY <1>1, MailboxSubset
<1>3. QED
  BY <1>1, <1>2

\* What clips_pass may leave in the two mailboxes.
LEMMA ClipsPassMail ==
  ASSUME ClipsPass
  PROVE  \E f \in Facts("clips"), q \in Consultations :
           /\ cm' \subseteq cm \cup f
           /\ pm' \subseteq pm \cup q
           /\ minted' = minted \cup CidsOf(q)
<1>1. PICK f \in Facts("clips"), q \in Consultations :
        /\ cm' \in Polled(cm \ ExcludingOrigin(cm, "clips"), f)
                   \cup {cm \ ExcludingOrigin(cm, "clips")}
        /\ pm' \in Polled(pm, q) \cup {pm}
        /\ minted' = minted \cup CidsOf(q)
  BY DEF ClipsPass
<1>2. cm' \subseteq cm \cup f /\ pm' \subseteq pm \cup q
  BY <1>1, MailboxSubset
<1>3. QED
  BY <1>1, <1>2

\* What a pass that fails may leave in the two mailboxes.
LEMMA EngineErrorMail ==
  ASSUME EngineError
  PROVE  \E f \in Facts(pc), q \in Consultations :
           /\ pc \notin {"prolog", "clips"} => f = {}
           /\ pm' \subseteq pm \cup q \cup f
           /\ pc # "prolog" => pm' \subseteq pm \cup q
           /\ cm' \subseteq cm \cup f
           /\ minted' = minted \cup CidsOf(q)
<1>1. PICK f \in Facts(pc), q \in Consultations :
        /\ pc \notin {"prolog", "clips"} => f = {}
        /\ \E p \in {pm, ExcludingOrigin(pm, "relay"), ExcludingOrigin(pm, "prolog")} :
             \/ pc = "prolog" /\ pm' \in Drained(p, f \cup q)
             \/ pc # "prolog" /\ pm' \in Polled(p, q) \cup {p}
        /\ \E c \in {cm, WithOrigin(cm, "clips"), ExcludingOrigin(cm, "clips")} :
             cm' \in Polled(c, f) \cup {c}
        /\ minted' = minted \cup CidsOf(q)
  BY DEF EngineError
<1>2. PICK p \in {pm, ExcludingOrigin(pm, "relay"), ExcludingOrigin(pm, "prolog")},
           c \in {cm, WithOrigin(cm, "clips"), ExcludingOrigin(cm, "clips")} :
        /\ \/ pc = "prolog" /\ pm' \in Drained(p, f \cup q)
           \/ pc # "prolog" /\ pm' \in Polled(p, q) \cup {p}
        /\ cm' \in Polled(c, f) \cup {c}
  BY <1>1
<1>3. p \subseteq pm /\ c \subseteq cm
  BY PollSubset
<1>4. /\ pc = "prolog" => pm' \subseteq p \cup (f \cup q)
      /\ pc # "prolog" => pm' \subseteq p \cup q
      /\ cm' \subseteq c \cup f
  BY <1>2, MailboxSubset
<1>5. QED
  BY <1>1, <1>3, <1>4

\* What has_converged may leave in the two mailboxes.
LEMMA HasConvergedMail ==
  ASSUME HasConverged
  PROVE  \E f \in Facts("prolog"), q \in Consultations :
           /\ pm' \subseteq pm \cup f \cup q \cup {TimeoutTabu(c) : c \in TimedOut}
           /\ cm' \subseteq cm \cup {TimeoutTabu(c) : c \in TimedOut}
           /\ minted' = minted \cup CidsOf(q)
<1> DEFINE tabus == {TimeoutTabu(c) : c \in TimedOut}
<1> HIDE DEF tabus
<1>1. PICK f \in Facts("prolog"), q \in Consultations :
        /\ \E p \in Drained(pm, f \cup q) \cup {pm} : pm' \in Written(p, tabus)
        /\ cm' \in Written(cm, tabus)
        /\ minted' = minted \cup CidsOf(q)
  BY DEF HasConverged, tabus
<1>2. PICK p \in Drained(pm, f \cup q) \cup {pm} : pm' \in Written(p, tabus)
  BY <1>1
<1>3. p \subseteq pm \cup f \cup q /\ pm' \subseteq p \cup tabus /\ cm' \subseteq cm \cup tabus
  BY <1>1, <1>2, MailboxSubset
<1>4. QED
  BY <1>1, <1>3 DEF tabus

-----------------------------------------------------------------------------
(* Type correctness. *)

\* Initial states are well typed.
LEMMA InitType == Init => TypeOK
<1> USE CidAssumption, ControllerAssumption
<1> SUFFICES ASSUME Init PROVE TypeOK
  OBVIOUS
<1>1. pm \subseteq ClaraEvent /\ cm \subseteq ClaraEvent /\ minted \subseteq CorrCid
  <2>1. /\ Event("relay", "data", NoCid) \in ClaraEvent
        /\ Event("ritual", "offering", NoCid) \in ClaraEvent
        /\ \A c \in CorrCid : /\ Event("evaluator", "offering", c) \in ClaraEvent
                              /\ Event("evaluator", "offering", c).cid = c
    BY EventType DEF Cid, Origins, Labels, Event
  <2>2. \A p \in Restored : p \subseteq ClaraEvent
    BY <2>1 DEF Restored
  <2>3. cm \subseteq ClaraEvent
    BY <2>2 DEF Init
  <2>4. PICK p \in Restored, q \in {{}} \cup {{Event("evaluator", "offering", c)} : c \in CorrCid} :
          /\ pm = IF Resumed THEN p \cup q ELSE {}
          /\ minted = IF Resumed THEN {e.cid : e \in q} ELSE {}
    BY DEF Init
  <2>5. q \subseteq ClaraEvent /\ {e.cid : e \in q} \subseteq CorrCid
    BY <2>1
  <2>6. QED
    BY <2>2, <2>3, <2>4, <2>5
<1>2. wire \in Seq(Envelope) /\ inbox \in Seq(Envelope)
  BY DEF Init
<1>3. /\ waiting \in [Cid -> Nat]
      /\ sent \in [Cid -> 0..MaxCycles \cup {NotSent}]
  BY DEF Init
<1>4. outcome \in [Cid -> Seq({"hohi", "tabu", "tabu-timeout"})]
  BY DEF Init
<1>5. stored \in [{"p", "c"} -> SUBSET ClaraEvent]
  BY DEF Init
<1>6. /\ agendaEmpty \in BOOLEAN /\ empty \in BOOLEAN /\ progressed \in BOOLEAN
      /\ interrupt \in BOOLEAN
  BY DEF Init
<1>7. /\ pc \in Steps /\ answer \in {"none", "false", "true"}
      /\ status \in {"running", "Converged", "Interrupted", "MaxCycles", "Error"}
  BY DEF Init, Steps
<1>8. /\ cycle \in 0..MaxCycles /\ tephras \in 0..MaxTephra /\ pushes \in 0..MaxPush
  BY DEF Init
<1>9. /\ offers \subseteq Cid /\ saved \subseteq {"p", "c"} /\ lost \subseteq ClaraEvent
  BY DEF Init
<1>10. QED
  BY <1>1, <1>2, <1>3, <1>4, <1>5, <1>6, <1>7, <1>8, <1>9 DEF TypeOK

\* Every step keeps the types.
LEMMA StepType == TypeOK /\ [Next]_vars => TypeOK'
<1> USE CidAssumption, ControllerAssumption
<1> SUFFICES ASSUME TypeOK, [Next]_vars PROVE TypeOK'
  OBVIOUS
<1>1. CASE Start
  <2>1. Event("ritual", "offering", NoCid) \in ClaraEvent
    BY EventType DEF Origins, Labels
  <2>2. QED
    <3>1. PICK injected \in {{}, {Event("ritual", "offering", NoCid)}} :
            pm' \in Written(pm, injected) /\ cm' \in Written(cm, injected)
      BY <1>1 DEF Start
    <3>2. pm' \subseteq ClaraEvent /\ cm' \subseteq ClaraEvent
      BY <2>1, <3>1, MailboxSubset DEF TypeOK
    <3>3. QED
      BY <1>1, <3>2 DEF Start, TypeOK, Steps, engineVars, consultVars, envVars
<1>2. CASE PrologPass
  <2>1. PICK f \in Facts("prolog"), q \in Consultations :
          pm' \subseteq pm \cup f \cup q /\ minted' = minted \cup CidsOf(q)
    BY <1>2, PrologPassMail
  <2>2. pm' \subseteq ClaraEvent /\ minted' \subseteq CorrCid
    BY <2>1, ConsultationType, FactsType DEF TypeOK, Origins
  <2>3. answer' \in {"none", "false", "true"} /\ progressed' \in BOOLEAN
    BY <1>2 DEF PrologPass, TypeOK
  <2>4. QED
    BY <1>2, <2>2, <2>3 DEF PrologPass, TypeOK, Steps, consultVars, envVars, exitVars
<1>3. CASE RelayPrologToClips
  <2>1. cm' \subseteq ClaraEvent /\ pm' \subseteq ClaraEvent
    BY <1>3, RelayedType, PollSubset DEF RelayPrologToClips, TypeOK
  <2>2. progressed' \in BOOLEAN
    BY <1>3 DEF RelayPrologToClips, TypeOK, Touch
  <2>3. QED
    BY <1>3, <2>1, <2>2
    DEF RelayPrologToClips, TypeOK, Steps, consultVars, envVars, exitVars
<1>4. CASE ClipsPass
  <2>1. PICK f \in Facts("clips"), q \in Consultations :
          /\ cm' \subseteq cm \cup f
          /\ pm' \subseteq pm \cup q
          /\ minted' = minted \cup CidsOf(q)
    BY <1>4, ClipsPassMail
  <2>2. pm' \subseteq ClaraEvent /\ cm' \subseteq ClaraEvent /\ minted' \subseteq CorrCid
    BY <2>1, ConsultationType, FactsType DEF TypeOK, Origins
  <2>3. agendaEmpty' \in BOOLEAN
    BY <1>4 DEF ClipsPass
  <2>4. QED
    BY <1>4, <2>2, <2>3 DEF ClipsPass, TypeOK, Steps, consultVars, envVars, exitVars
<1>5. CASE RelayClipsToProlog
  <2>1. cm' \subseteq ClaraEvent /\ pm' \subseteq ClaraEvent
    BY <1>5, RelayedType, PollSubset DEF RelayClipsToProlog, TypeOK
  <2>2. progressed' \in BOOLEAN
    BY <1>5 DEF RelayClipsToProlog, TypeOK, Touch
  <2>3. QED
    BY <1>5, <2>1, <2>2
    DEF RelayClipsToProlog, TypeOK, Steps, consultVars, envVars, exitVars
<1>6. CASE EngineError
  <2>1. PICK f \in Facts(pc), q \in Consultations :
          /\ pc \notin {"prolog", "clips"} => f = {}
          /\ pm' \subseteq pm \cup q \cup f
          /\ cm' \subseteq cm \cup f
          /\ minted' = minted \cup CidsOf(q)
    BY <1>6, EngineErrorMail
  <2>2. f \subseteq ClaraEvent
    BY <2>1, FactsType DEF Origins
  <2>3. pm' \subseteq ClaraEvent /\ cm' \subseteq ClaraEvent /\ minted' \subseteq CorrCid
    BY <2>1, <2>2, ConsultationType DEF TypeOK
  <2>4. QED
    BY <1>6, <2>3 DEF EngineError, TypeOK, Steps, consultVars, envVars
<1>7. CASE PollIncoming
  <2>1. inbox' \in Seq(Envelope) /\ wire' \in Seq(Envelope)
    <3>1. <<>> \in Seq(Envelope)
      OBVIOUS
    <3>2. (inbox' = wire /\ wire' = <<>>) \/ (inbox' = inbox /\ wire' = wire)
      BY <1>7 DEF PollIncoming
    <3>3. QED
      BY <3>1, <3>2 DEF TypeOK
  <2>2. QED
    BY <1>7, <2>1 DEF PollIncoming, TypeOK, Steps, engineVars, exitVars
<1>8. CASE IngestTephra
  <2> DEFINE t == Head(inbox)
             e == Event("ritual", t.label, t.cid)
  <2>1. t \in Envelope /\ inbox' \in Seq(Envelope)
    BY <1>8 DEF IngestTephra, TypeOK
  <2>2. e \in ClaraEvent
    <3>1. t.label \in Labels /\ t.cid \in Cid \cup {NoCid}
      BY <2>1 DEF Envelope, Labels
    <3>2. QED
      BY <3>1, EventType DEF Origins
  <2>3. pm' \subseteq ClaraEvent /\ cm' \subseteq ClaraEvent
    BY <1>8, <2>2, MailboxSubset DEF IngestTephra, TypeOK
  <2>4. /\ offers' \subseteq Cid
        /\ waiting' \in [Cid -> Nat]
        /\ outcome' \in [Cid -> Seq({"hohi", "tabu", "tabu-timeout"})]
    <3>1. CASE UNCHANGED <<offers, waiting, outcome>>
      BY <3>1 DEF TypeOK
    <3>2. ASSUME NEW c \in EvidenceFor(t),
                 /\ offers' = offers \ {c}
                 /\ waiting' = [waiting EXCEPT ![c] = 0]
                 /\ outcome' = [outcome EXCEPT ![c] = Append(@, t.label)]
          PROVE  /\ offers' \subseteq Cid
                 /\ waiting' \in [Cid -> Nat]
                 /\ outcome' \in [Cid -> Seq({"hohi", "tabu", "tabu-timeout"})]
      <4>1. t.label \in {"hohi", "tabu", "tabu-timeout"}
        BY <3>2 DEF EvidenceFor, IsReply
      <4>2. outcome' \in [Cid -> Seq({"hohi", "tabu", "tabu-timeout"})]
        <5>1. \A d \in Cid : Append(outcome[d], t.label) \in Seq({"hohi", "tabu", "tabu-timeout"})
          BY <4>1 DEF TypeOK
        <5>2. QED
          BY <3>2, <5>1 DEF TypeOK
      <4>3. QED
        BY <3>2, <4>2 DEF TypeOK
    <3>3. QED
      BY <1>8, <3>1, <3>2 DEF IngestTephra
  <2>5. QED
    BY <1>8, <2>1, <2>3, <2>4 DEF IngestTephra, TypeOK, engineVars, envVars, exitVars
<1>9. CASE IngestEnd
  BY <1>9 DEF IngestEnd, TypeOK, Steps, engineVars, consultVars, envVars, exitVars
<1>10. CASE PublishEvaluatorEvents
  <2>1. \/ UNCHANGED <<offers, waiting, sent>>
        \/ \E new \in SUBSET Cid :
             /\ offers' = offers \cup new
             /\ waiting' = [c \in Cid |-> IF c \in new THEN 0 ELSE waiting[c]]
             /\ sent' = [c \in Cid |-> IF c \in new THEN cycle ELSE sent[c]]
    <3>0. CASE UNCHANGED <<offers, waiting, sent>>
      BY <3>0
    <3> SUFFICES ASSUME ~UNCHANGED <<offers, waiting, sent>>
                 PROVE  \E new \in SUBSET Cid :
                          /\ offers' = offers \cup new
                          /\ waiting' = [c \in Cid |-> IF c \in new THEN 0 ELSE waiting[c]]
                          /\ sent' = [c \in Cid |-> IF c \in new THEN cycle ELSE sent[c]]
      BY <3>0
    <3>1. PICK accepted \in SUBSET WithOrigin(pm, "evaluator"),
               fresh \in SUBSET (LegacyCid \ Published) :
            /\ offers' = offers \cup (CidsOf(accepted) \cup fresh)
            /\ waiting' = [c \in Cid |-> IF c \in CidsOf(accepted) \cup fresh
                                           THEN 0 ELSE waiting[c]]
            /\ sent' = [c \in Cid |-> IF c \in CidsOf(accepted) \cup fresh
                                        THEN cycle ELSE sent[c]]
      BY <1>10 DEF PublishEvaluatorEvents
    <3>2. accepted \subseteq ClaraEvent
      BY PollSubset DEF TypeOK
    <3>3. CidsOf(accepted) \cup fresh \subseteq Cid
      BY <3>2 DEF CidsOf, ClaraEvent, Cid
    <3>4. QED
      BY <3>1, <3>3
  <2>2. /\ offers' \subseteq Cid
        /\ waiting' \in [Cid -> Nat]
        /\ sent' \in [Cid -> 0..MaxCycles \cup {NotSent}]
    <3>1. CASE UNCHANGED <<offers, waiting, sent>>
      BY <3>1 DEF TypeOK
    <3>2. ASSUME NEW new \in SUBSET Cid,
                 /\ offers' = offers \cup new
                 /\ waiting' = [c \in Cid |-> IF c \in new THEN 0 ELSE waiting[c]]
                 /\ sent' = [c \in Cid |-> IF c \in new THEN cycle ELSE sent[c]]
          PROVE  /\ offers' \subseteq Cid
                 /\ waiting' \in [Cid -> Nat]
                 /\ sent' \in [Cid -> 0..MaxCycles \cup {NotSent}]
      BY <3>2 DEF TypeOK
    <3>3. QED
      BY <2>1, <3>1, <3>2
  <2>3. pm' \subseteq ClaraEvent
    BY <1>10 DEF PublishEvaluatorEvents, TypeOK
  <2>4. QED
    BY <1>10, <2>2, <2>3
    DEF PublishEvaluatorEvents, TypeOK, Steps, engineVars, envVars, exitVars
<1>11. CASE Snapshot
  BY <1>11 DEF Snapshot, TypeOK, Steps, engineVars, consultVars, envVars, exitVars
<1>12. CASE HasConverged
  <2>1. {TimeoutTabu(c) : c \in TimedOut} \subseteq ClaraEvent
    BY TabuType DEF TimedOut, TypeOK
  <2>2. PICK f \in Facts("prolog"), q \in Consultations :
          /\ pm' \subseteq pm \cup f \cup q \cup {TimeoutTabu(c) : c \in TimedOut}
          /\ cm' \subseteq cm \cup {TimeoutTabu(c) : c \in TimedOut}
          /\ minted' = minted \cup CidsOf(q)
    BY <1>12, HasConvergedMail
  <2>3. pm' \subseteq ClaraEvent /\ minted' \subseteq CorrCid
    BY <2>1, <2>2, ConsultationType, FactsType DEF TypeOK, Origins
  <2>4. cm' \subseteq ClaraEvent
    BY <2>1, <2>2 DEF TypeOK
  <2>5. answer' \in {"none", "false", "true"}
    BY <1>12 DEF HasConverged, TypeOK
  <2>6. offers' \subseteq Cid /\ waiting' \in [Cid -> Nat]
    BY <1>12 DEF HasConverged, TypeOK
  <2>7. outcome' \in [Cid -> Seq({"hohi", "tabu", "tabu-timeout"})]
    <3>1. \A c \in Cid : Append(outcome[c], "tabu-timeout")
                            \in Seq({"hohi", "tabu", "tabu-timeout"})
      BY DEF TypeOK
    <3>2. QED
      BY <1>12, <3>1 DEF HasConverged, TypeOK
  <2>8. /\ pc' \in Steps
        /\ status' \in {"running", "Converged", "Interrupted", "MaxCycles", "Error"}
    BY <1>12 DEF HasConverged, TypeOK, Steps
  <2>9. empty' \in BOOLEAN /\ progressed' \in BOOLEAN
    BY <1>12 DEF HasConverged
  <2>10. QED
    BY <1>12, <2>3, <2>4, <2>5, <2>6, <2>7, <2>8, <2>9 DEF HasConverged, TypeOK, envVars
<1>13. CASE InterruptCheck
  BY <1>13 DEF InterruptCheck, TypeOK, Steps, engineVars, consultVars, envVars
<1>14. CASE SaveToStore
  BY <1>14 DEF SaveToStore, TypeOK, Steps, engineVars, consultVars, envVars
<1>15. CASE EvictCoireSessions
  <2>1. pm' \subseteq pm /\ cm' \subseteq cm
    BY <1>15, MailboxSubset DEF EvictCoireSessions
  <2>2. QED
    BY <1>15, <2>1 DEF EvictCoireSessions, TypeOK, Steps, engineVars, consultVars, envVars
<1>16. CASE Deliver
  BY <1>16 DEF Deliver, TypeOK, engineVars, consultVars, exitVars
<1>17. CASE CoirePush
  <2>1. \A o \in Origins : Event(o, "pushed", NoCid) \in ClaraEvent
    BY EventType DEF Origins, Labels
  <2>2. QED
    BY <1>17, <2>1 DEF CoirePush, TypeOK, engineVars, consultVars, exitVars
<1>18. CASE RaiseInterrupt
  BY <1>18 DEF RaiseInterrupt, TypeOK, engineVars, consultVars, exitVars
<1>19. CASE UNCHANGED vars
  BY <1>19 DEF vars, TypeOK
<1>20. QED
  BY <1>1, <1>2, <1>3, <1>4, <1>5, <1>6, <1>7, <1>8, <1>9, <1>10, <1>11, <1>12,
     <1>13, <1>14, <1>15, <1>16, <1>17, <1>18, <1>19 DEF Next, Controller, Environment

\* Every variable keeps its type through every step of run() and of the
\* threads beside it: the cycle counter stays within its budget, and only
\* events of the known origins and labels reach the mailboxes.
THEOREM TypeCorrect == Spec => []TypeOK
  BY InitType, StepType, PTL DEF Spec

-----------------------------------------------------------------------------
(* The inductive invariant behind the safety properties. *)

\* Only the exit steps follow a verdict.
StatusInv == pc \notin {"save", "evict", "done"} => status = "running"

\* pending_offers holds exactly the published Offerings without an outcome.
OfferInv ==
  \A c \in Cid :
    /\ c \in offers <=> sent[c] # NotSent /\ outcome[c] = <<>>
    /\ Len(outcome[c]) <= 1
    /\ outcome[c] # <<>> => sent[c] # NotSent

\* A correlation id is published at most once: an Offering still in the
\* mailbox has not been sent, and engines never mint a used id again.
FreshInv ==
  /\ \A c \in CorrCid : sent[c] # NotSent => c \in minted
  /\ \A e \in WithOrigin(pm, "evaluator") :
       e.cid = NoCid \/ (e.cid \in minted /\ sent[e.cid] = NotSent)

\* An "empty" snapshot is still true of the engines' mail when it is used.
SnapshotInv ==
  pc = "converge" /\ empty => \A e \in cm \cup WithOrigin(pm, "relay") : e.label = "pushed"

\* Nothing is lost before the eviction, and what it will clear is saved.
SaveInv ==
  /\ pc \notin {"evict", "done"} => saved = {}
  /\ pc # "done" => lost = {}
  /\ pc = "evict" /\ saved = {"p", "c"} =>
       /\ \A e \in pm \ stored["p"] : e.label = "pushed"
       /\ \A e \in cm \ stored["c"] : e.label = "pushed"

Inv ==
  /\ TypeOK /\ StatusInv /\ OfferInv /\ FreshInv /\ SnapshotInv /\ SaveInv
  /\ PatienceExact /\ ConvergedQuiescent /\ SavedSurvivesEvict

\* The invariant holds initially.
LEMMA InitInv == Init => Inv
<1> USE CidAssumption, ControllerAssumption
<1> SUFFICES ASSUME Init PROVE Inv
  OBVIOUS
<1>1. TypeOK
  BY InitType
<1>2. StatusInv /\ SnapshotInv /\ SaveInv
  BY DEF Init, StatusInv, SnapshotInv, SaveInv
<1>3. OfferInv
  <2>1. offers = {} /\ \A c \in Cid : sent[c] = NotSent /\ outcome[c] = <<>>
    BY DEF Init
  <2>2. QED
    BY <2>1 DEF OfferInv
<1>4. FreshInv
  <2>1. \A c \in Cid : sent[c] = NotSent
    BY DEF Init
  <2>2. PICK p \in Restored, q \in {{}} \cup {{Event("evaluator", "offering", c)} : c \in CorrCid} :
          /\ pm = IF Resumed THEN p \cup q ELSE {}
          /\ minted = IF Resumed THEN {e.cid : e \in q} ELSE {}
    BY DEF Init
  <2>3. \A e \in p : e.cid = NoCid
    BY DEF Restored, Event
  <2>4. \A e \in q : e.cid \in CorrCid
    BY DEF Event
  <2>5. QED
    BY <2>1, <2>2, <2>3, <2>4 DEF FreshInv, WithOrigin, Cid
<1>5. PatienceExact /\ ConvergedQuiescent /\ SavedSurvivesEvict
  BY DEF Init, PatienceExact, ConvergedQuiescent, SavedSurvivesEvict
<1>6. QED
  BY <1>1, <1>2, <1>3, <1>4, <1>5 DEF Inv

\* The actions that leave the pending offers and their history alone.
LEMMA OffersFrame ==
  ASSUME [Next]_vars, ~IngestTephra, ~PublishEvaluatorEvents, ~HasConverged
  PROVE  UNCHANGED <<offers, waiting, sent, outcome>>
<1>1. CASE UNCHANGED vars
  BY <1>1 DEF vars
<1>2. CASE Start \/ PrologPass \/ RelayPrologToClips \/ ClipsPass \/ RelayClipsToProlog \/ EngineError
  BY <1>2 DEF Start, PrologPass, RelayPrologToClips, ClipsPass, RelayClipsToProlog, EngineError,
              consultVars
<1>3. CASE PollIncoming \/ IngestEnd \/ Snapshot \/ InterruptCheck \/ SaveToStore \/ EvictCoireSessions
  BY <1>3 DEF PollIncoming, IngestEnd, Snapshot, InterruptCheck, SaveToStore, EvictCoireSessions,
              consultVars
<1>4. CASE Environment
  BY <1>4 DEF Environment, Deliver, CoirePush, RaiseInterrupt, consultVars
<1>5. QED
  BY <1>1, <1>2, <1>3, <1>4 DEF Next, Controller

\* Every step keeps the relation of status and pc.
LEMMA StatusStep == TypeOK /\ StatusInv /\ [Next]_vars => StatusInv'
<1> SUFFICES ASSUME TypeOK, StatusInv, [Next]_vars PROVE StatusInv'
  OBVIOUS
<1>1. CASE Start \/ InterruptCheck
  BY <1>1 DEF Start, InterruptCheck, StatusInv
<1>2. CASE HasConverged
  BY <1>2 DEF HasConverged, StatusInv
<1>3. CASE EngineError \/ EvictCoireSessions \/ SaveToStore
  BY <1>3 DEF EngineError, EvictCoireSessions, SaveToStore, StatusInv
<1>4. CASE PrologPass \/ RelayPrologToClips \/ ClipsPass \/ RelayClipsToProlog
  BY <1>4 DEF PrologPass, RelayPrologToClips, ClipsPass, RelayClipsToProlog, StatusInv, exitVars
<1>5. CASE PollIncoming \/ IngestTephra \/ IngestEnd \/ PublishEvaluatorEvents \/ Snapshot
  BY <1>5 DEF PollIncoming, IngestTephra, IngestEnd, PublishEvaluatorEvents, Snapshot, StatusInv,
              exitVars
<1>6. CASE Environment
  BY <1>6 DEF Environment, Deliver, CoirePush, RaiseInterrupt, StatusInv, exitVars
<1>7. CASE UNCHANGED vars
  BY <1>7 DEF vars, StatusInv
<1>8. QED
  BY <1>1, <1>2, <1>3, <1>4, <1>5, <1>6, <1>7 DEF Next, Controller

\* An ingested reply settles an Offering that is pending.
LEMMA EvidencePending ==
  ASSUME TypeOK, NEW t \in Envelope, Ingested(t), NEW c \in EvidenceFor(t)
  PROVE  c \in offers /\ t.label \in {"hohi", "tabu"}
  BY DEF EvidenceFor, Ingested, Resolves, IsReply

\* What publish_evaluator_events makes pending was never sent before.
LEMMA PublishedFresh ==
  ASSUME TypeOK, FreshInv, PublishEvaluatorEvents
  PROVE  \E new \in SUBSET Cid :
           /\ \A c \in new : sent[c] = NotSent /\ (c \in CorrCid => c \in minted)
           /\ offers' = offers \cup new
           /\ waiting' = [c \in Cid |-> IF c \in new THEN 0 ELSE waiting[c]]
           /\ sent' = [c \in Cid |-> IF c \in new THEN cycle ELSE sent[c]]
<1> USE CidAssumption
<1>0. CASE UNCHANGED <<offers, waiting, sent>>
  BY <1>0 DEF TypeOK
<1> SUFFICES ASSUME ~UNCHANGED <<offers, waiting, sent>>
             PROVE  \E new \in SUBSET Cid :
                      /\ \A c \in new : sent[c] = NotSent /\ (c \in CorrCid => c \in minted)
                      /\ offers' = offers \cup new
                      /\ waiting' = [c \in Cid |-> IF c \in new THEN 0 ELSE waiting[c]]
                      /\ sent' = [c \in Cid |-> IF c \in new THEN cycle ELSE sent[c]]
  BY <1>0
<1>1. PICK accepted \in SUBSET WithOrigin(pm, "evaluator"),
           fresh \in SUBSET (LegacyCid \ Published) :
        /\ offers' = offers \cup (CidsOf(accepted) \cup fresh)
        /\ waiting' = [c \in Cid |-> IF c \in CidsOf(accepted) \cup fresh
                                       THEN 0 ELSE waiting[c]]
        /\ sent' = [c \in Cid |-> IF c \in CidsOf(accepted) \cup fresh
                                    THEN cycle ELSE sent[c]]
  BY DEF PublishEvaluatorEvents
<1>2. \A c \in CidsOf(accepted) : c \in minted /\ sent[c] = NotSent /\ c \in Cid
  BY DEF CidsOf, FreshInv, TypeOK, Cid
<1>3. \A c \in fresh : sent[c] = NotSent /\ c \in Cid /\ c \notin CorrCid
  BY DEF Published, Cid
<1>4. QED
  BY <1>1, <1>2, <1>3

\* Every step keeps what is known of pending, settled and unsent offers.
LEMMA OfferStep == TypeOK /\ OfferInv /\ FreshInv /\ [Next]_vars => OfferInv'
<1> USE CidAssumption, ControllerAssumption
<1> SUFFICES ASSUME TypeOK, OfferInv, FreshInv, [Next]_vars PROVE OfferInv'
  OBVIOUS
<1>1. CASE IngestTephra
  <2> DEFINE t == Head(inbox)
  <2>1. t \in Envelope
    BY <1>1 DEF IngestTephra, TypeOK
  <2>2. CASE UNCHANGED <<offers, waiting, outcome>>
    BY <1>1, <2>2 DEF IngestTephra, OfferInv
  <2>3. ASSUME Ingested(t), NEW c \in EvidenceFor(t),
               offers' = offers \ {c},
               outcome' = [outcome EXCEPT ![c] = Append(@, t.label)]
        PROVE  OfferInv'
    <3>1. c \in offers /\ c \in Cid /\ sent' = sent
      BY <1>1, <2>1, <2>3, EvidencePending DEF TypeOK, IngestTephra
    <3>2. outcome[c] = <<>> /\ sent[c] # NotSent
      BY <3>1 DEF OfferInv
    <3>3. outcome'[c] = <<t.label>>
      BY <2>3, <3>1, <3>2 DEF TypeOK
    <3>4. \A d \in Cid \ {c} : outcome'[d] = outcome[d]
      BY <2>3 DEF TypeOK
    <3>5. QED
      BY <2>3, <3>1, <3>2, <3>3, <3>4 DEF OfferInv
  <2>4. QED
    BY <1>1, <2>2, <2>3 DEF IngestTephra
<1>2. CASE PublishEvaluatorEvents
  <2>1. PICK new \in SUBSET Cid :
           /\ \A c \in new : sent[c] = NotSent
           /\ offers' = offers \cup new
           /\ sent' = [c \in Cid |-> IF c \in new THEN cycle ELSE sent[c]]
    BY <1>2, PublishedFresh
  <2>2. outcome' = outcome /\ cycle # NotSent
    BY <1>2 DEF PublishEvaluatorEvents, TypeOK, NotSent
  <2>3. QED
    BY <2>1, <2>2 DEF OfferInv
<1>3. CASE HasConverged
  <2>1. /\ offers' = offers \ TimedOut
        /\ TimedOut \subseteq offers
        /\ sent' = sent
        /\ outcome' = [c \in Cid |-> IF c \in TimedOut THEN Append(outcome[c], "tabu-timeout")
                                                      ELSE outcome[c]]
    BY <1>3 DEF HasConverged, TimedOut
  <2>2. \A c \in Cid : c \in TimedOut => outcome'[c] = <<"tabu-timeout">>
    <3>1. \A c \in Cid : c \in TimedOut => outcome[c] = <<>>
      BY <2>1 DEF OfferInv
    <3>2. Append(<<>>, "tabu-timeout") = <<"tabu-timeout">>
      OBVIOUS
    <3>3. QED
      BY <2>1, <3>1, <3>2
  <2>3. \A c \in Cid : c \notin TimedOut => outcome'[c] = outcome[c]
    BY <2>1
  <2>4. QED
    BY <2>1, <2>2, <2>3 DEF OfferInv
<1>4. CASE ~IngestTephra /\ ~PublishEvaluatorEvents /\ ~HasConverged
  BY <1>4, OffersFrame DEF OfferInv
<1>5. QED
  BY <1>1, <1>2, <1>3, <1>4

\* Every step keeps the unsent ids unsent.
LEMMA FreshStep == TypeOK /\ FreshInv /\ [Next]_vars => FreshInv'
<1> USE CidAssumption, ControllerAssumption
<1> SUFFICES ASSUME TypeOK, FreshInv, [Next]_vars PROVE FreshInv'
  OBVIOUS
<1> DEFINE Waits(e) == e.cid = NoCid \/ (e.cid \in minted /\ sent[e.cid] = NotSent)
\* A step that sends nothing may add ordinary events and new consultations.
<1>1. ASSUME sent' = sent,
             NEW q \in Consultations \cup {{}}, minted' = minted \cup CidsOf(q),
             \A e \in pm' : e \in pm \/ e \in q \/ e.origin # "evaluator"
      PROVE  FreshInv'
  <2>1. /\ CidsOf(q) \subseteq CorrCid \ minted
        /\ \A e \in q : e.cid = NoCid \/ e.cid \in CidsOf(q)
    BY <1>1, ConsultationType DEF CidsOf
  <2>2. \A c \in CidsOf(q) : sent[c] = NotSent
    BY <2>1 DEF FreshInv
  <2>3. \A e \in pm : e.origin = "evaluator" => Waits(e)
    BY DEF FreshInv, WithOrigin
  <2>4. \A e \in pm' : e.origin = "evaluator" => Waits(e)'
    BY <1>1, <2>1, <2>2, <2>3
  <2>5. QED
    BY <1>1, <2>1, <2>4 DEF FreshInv, WithOrigin
<1>2. {} \in Consultations \cup {{}} /\ CidsOf({}) = {}
  BY DEF CidsOf
<1>3. CASE PrologPass
  <2>1. PICK f \in Facts("prolog"), q \in Consultations :
          pm' \subseteq pm \cup f \cup q /\ minted' = minted \cup CidsOf(q)
    BY <1>3, PrologPassMail
  <2>2. \A e \in f : e.origin = "prolog"
    BY FactsType DEF Origins
  <2>3. sent' = sent
    BY <1>3 DEF PrologPass, consultVars
  <2>4. QED
    BY <1>1, <2>1, <2>2, <2>3
<1>4. CASE ClipsPass
  <2>1. PICK q \in Consultations : pm' \subseteq pm \cup q /\ minted' = minted \cup CidsOf(q)
    BY <1>4, ClipsPassMail
  <2>2. sent' = sent
    BY <1>4 DEF ClipsPass, consultVars
  <2>3. QED
    BY <1>1, <2>1, <2>2
<1>5. CASE EngineError
  <2>1. PICK f \in Facts(pc), q \in Consultations :
          /\ \A e \in pm' : e \in pm \/ e \in q \/ (pc = "prolog" /\ e \in f)
          /\ minted' = minted \cup CidsOf(q)
    BY <1>5, EngineErrorMail
  <2>2. pc = "prolog" => \A e \in f : e.origin = "prolog"
    BY FactsType DEF Origins
  <2>3. sent' = sent
    BY <1>5 DEF EngineError, consultVars
  <2>4. QED
    BY <1>1, <2>1, <2>2, <2>3
<1>6. CASE HasConverged
  <2>1. PICK f \in Facts("prolog"), q \in Consultations :
          /\ pm' \subseteq pm \cup f \cup q \cup {TimeoutTabu(c) : c \in TimedOut}
          /\ minted' = minted \cup CidsOf(q)
    BY <1>6, HasConvergedMail
  <2>2. /\ \A e \in f : e.origin = "prolog"
        /\ \A c \in TimedOut : TimeoutTabu(c).origin = "ritual"
    BY FactsType DEF Origins, TimeoutTabu, Event
  <2>3. sent' = sent
    BY <1>6 DEF HasConverged
  <2>4. QED
    BY <1>1, <2>1, <2>2, <2>3
<1>7. CASE PublishEvaluatorEvents
  <2>1. PICK new \in SUBSET Cid :
           /\ \A c \in new : c \in CorrCid => c \in minted
           /\ sent' = [c \in Cid |-> IF c \in new THEN cycle ELSE sent[c]]
    BY <1>7, PublishedFresh
  <2>2. minted' = minted
    BY <1>7 DEF PublishEvaluatorEvents, engineVars
  <2>3. CASE WithOrigin(pm', "evaluator") = {}
    BY <2>1, <2>2, <2>3 DEF FreshInv, WithOrigin, Cid
  <2>4. CASE pm' = pm /\ sent' = sent
    BY <2>2, <2>4 DEF FreshInv, WithOrigin
  <2>5. QED
    BY <1>7, <2>3, <2>4 DEF PublishEvaluatorEvents, WithOrigin
<1>8. CASE Start \/ RelayPrologToClips \/ RelayClipsToProlog
  <2>1. \A e \in pm' : e \in pm \/ e.origin # "evaluator"
    <3>1. CASE Start
      <4>1. PICK injected \in {{}, {Event("ritual", "offering", NoCid)}} :
              pm' \in Written(pm, injected)
        BY <3>1 DEF Start
      <4>2. QED
        BY <4>1, MailboxSubset DEF Event
    <3>2. QED
      BY <1>8, <3>1 DEF RelayPrologToClips, RelayClipsToProlog, Event
  <2>2. sent' = sent /\ minted' = minted
    BY <1>8 DEF Start, RelayPrologToClips, RelayClipsToProlog, consultVars, engineVars
  <2>3. QED
    BY <1>1, <1>2, <2>1, <2>2
<1>9. CASE IngestTephra
  <2>1. \A e \in pm' : e \in pm \/ e.origin # "evaluator"
    BY <1>9, MailboxSubset DEF IngestTephra, Event
  <2>2. sent' = sent /\ minted' = minted
    BY <1>9 DEF IngestTephra, engineVars
  <2>3. QED
    BY <1>1, <1>2, <2>1, <2>2
<1>10. CASE EvictCoireSessions \/ CoirePush
  <2>1. \A e \in pm' : e \in pm \/ e.cid = NoCid
    <3>1. CASE EvictCoireSessions
      BY <3>1, MailboxSubset DEF EvictCoireSessions
    <3>2. CASE CoirePush
      <4>1. PICK o \in Origins : pm' = pm \cup {Event(o, "pushed", NoCid)} \/ pm' = pm
        BY <3>2 DEF CoirePush
      <4>2. QED
        BY <4>1 DEF Event
    <3>3. QED
      BY <1>10, <3>1, <3>2
  <2>2. sent' = sent /\ minted' = minted
    BY <1>10 DEF EvictCoireSessions, CoirePush, consultVars, engineVars
  <2>3. QED
    BY <2>1, <2>2 DEF FreshInv, WithOrigin
<1>11. CASE \/ PollIncoming \/ IngestEnd \/ Snapshot \/ InterruptCheck \/ SaveToStore
            \/ Deliver \/ RaiseInterrupt \/ UNCHANGED vars
  <2>1. pm' = pm /\ minted' = minted /\ sent' = sent
    <3>1. CASE PollIncoming \/ IngestEnd \/ Snapshot \/ InterruptCheck
      BY <3>1 DEF PollIncoming, IngestEnd, Snapshot, InterruptCheck, consultVars, engineVars
    <3>2. CASE SaveToStore \/ Deliver \/ RaiseInterrupt \/ UNCHANGED vars
      BY <3>2 DEF SaveToStore, Deliver, RaiseInterrupt, vars, consultVars, engineVars
    <3>3. QED
      BY <1>11, <3>1, <3>2
  <2>2. QED
    BY <2>1 DEF FreshInv, WithOrigin
<1>12. QED
  BY <1>3, <1>4, <1>5, <1>6, <1>7, <1>8, <1>9, <1>10, <1>11 DEF Next, Controller, Environment

\* Every step keeps what the snapshot says of the mailboxes.
LEMMA SnapshotStep == TypeOK /\ SnapshotInv /\ [Next]_vars => SnapshotInv'
<1> SUFFICES ASSUME TypeOK, SnapshotInv, [Next]_vars, pc' = "converge", empty'
             PROVE  \A e \in cm' \cup WithOrigin(pm', "relay") : e.label = "pushed"
  BY DEF SnapshotInv, WithOrigin
<1>1. CASE Snapshot
  BY <1>1 DEF Snapshot, WithOrigin
<1>2. CASE Deliver \/ RaiseInterrupt \/ UNCHANGED vars
  BY <1>2 DEF Deliver, RaiseInterrupt, vars, SnapshotInv
<1>3. CASE CoirePush
  BY <1>3 DEF CoirePush, SnapshotInv, WithOrigin, Event
<1>4. CASE Controller /\ ~Snapshot
  BY <1>4 DEF Controller, Snapshot, Start, PrologPass, RelayPrologToClips, ClipsPass,
              RelayClipsToProlog, EngineError, PollIncoming, IngestTephra, IngestEnd,
              PublishEvaluatorEvents, HasConverged, InterruptCheck, SaveToStore,
              EvictCoireSessions
<1>5. QED
  BY <1>1, <1>2, <1>3, <1>4 DEF Next, Environment

\* Every step keeps what the store holds.
LEMMA SaveStep == TypeOK /\ SaveInv /\ SavedSurvivesEvict /\ [Next]_vars
                    => SaveInv' /\ SavedSurvivesEvict'
<1> SUFFICES ASSUME TypeOK, SaveInv, SavedSurvivesEvict, [Next]_vars
             PROVE  SaveInv' /\ SavedSurvivesEvict'
  OBVIOUS
<1>1. CASE SaveToStore
  BY <1>1 DEF SaveToStore, SaveInv, SavedSurvivesEvict, TypeOK
<1>2. CASE EvictCoireSessions
  BY <1>2, MailboxSubset DEF EvictCoireSessions, SaveInv, SavedSurvivesEvict, TypeOK
<1>3. CASE CoirePush
  BY <1>3 DEF CoirePush, SaveInv, SavedSurvivesEvict, Event, exitVars
<1>4. CASE Deliver \/ RaiseInterrupt \/ UNCHANGED vars
  BY <1>4 DEF Deliver, RaiseInterrupt, vars, SaveInv, SavedSurvivesEvict, exitVars
<1>5. CASE Controller /\ ~SaveToStore /\ ~EvictCoireSessions
  <2>1. saved' = saved /\ lost' = lost /\ pc \notin {"evict", "done"} /\ pc' # "evict"
    <3>1. CASE Start \/ PrologPass \/ RelayPrologToClips \/ ClipsPass \/ RelayClipsToProlog
               \/ EngineError
      BY <3>1 DEF Start, PrologPass, RelayPrologToClips, ClipsPass, RelayClipsToProlog,
                  EngineError, exitVars
    <3>2. CASE PollIncoming \/ IngestTephra \/ IngestEnd \/ PublishEvaluatorEvents \/ Snapshot
      BY <3>2 DEF PollIncoming, IngestTephra, IngestEnd, PublishEvaluatorEvents, Snapshot, exitVars
    <3>3. CASE HasConverged \/ InterruptCheck
      BY <3>3 DEF HasConverged, InterruptCheck
    <3>4. QED
      BY <1>5, <3>1, <3>2, <3>3 DEF Controller
  <2>2. QED
    BY <2>1 DEF SaveInv, SavedSurvivesEvict
<1>6. QED
  BY <1>1, <1>2, <1>3, <1>4, <1>5 DEF Next, Environment

\* Every step keeps the age of the pending offers.
LEMMA PatienceStep == TypeOK /\ StatusInv /\ OfferInv /\ FreshInv /\ PatienceExact /\ [Next]_vars
                        => PatienceExact'
<1> USE ControllerAssumption
<1> SUFFICES ASSUME TypeOK, StatusInv, OfferInv, FreshInv, PatienceExact, [Next]_vars,
                    status' = "running", NEW c \in offers'
             PROVE  LET checks == cycle' - sent'[c] + IF pc' = "interrupt" THEN 1 ELSE 0
                    IN /\ sent'[c] \in 0..cycle'
                       /\ waiting'[c] = checks
                       /\ waiting'[c] < Patience \/ checks = 0
  BY DEF PatienceExact
<1>1. CASE IngestTephra
  <2>1. offers' \subseteq offers /\ waiting'[c] = waiting[c]
    BY <1>1 DEF IngestTephra, TypeOK
  <2>2. QED
    BY <1>1, <2>1 DEF IngestTephra, PatienceExact, exitVars
<1>2. CASE PublishEvaluatorEvents
  <2>1. PICK new \in SUBSET Cid :
           /\ offers' = offers \cup new
           /\ waiting' = [d \in Cid |-> IF d \in new THEN 0 ELSE waiting[d]]
           /\ sent' = [d \in Cid |-> IF d \in new THEN cycle ELSE sent[d]]
    BY <1>2, PublishedFresh
  <2>2. cycle' = cycle /\ status = "running" /\ pc # "interrupt" /\ pc' # "interrupt"
    BY <1>2 DEF PublishEvaluatorEvents, exitVars
  <2>3. c \in Cid /\ cycle \in Nat
    BY <2>1 DEF TypeOK
  <2>4. CASE c \in new
    BY <2>1, <2>2, <2>3, <2>4
  <2>5. CASE c \notin new
    BY <2>1, <2>2, <2>3, <2>5 DEF PatienceExact
  <2>6. QED
    BY <2>4, <2>5
<1>3. CASE HasConverged
  <2>1. /\ offers' = offers \ TimedOut /\ sent' = sent /\ cycle' = cycle
        /\ waiting'[c] = waiting[c] + 1
        /\ status = "running" /\ pc = "converge" /\ pc' = "interrupt"
    BY <1>3 DEF HasConverged, TypeOK, StatusInv
  <2>2. waiting[c] + 1 < Patience
    BY <2>1 DEF TimedOut, TypeOK
  <2>3. QED
    BY <2>1, <2>2 DEF PatienceExact, TypeOK
<1>4. CASE InterruptCheck
  <2>1. /\ cycle' = cycle + 1 /\ pc = "interrupt" /\ pc' = "prolog"
        /\ status = "running"
    BY <1>4 DEF InterruptCheck, StatusInv
  <2>2. UNCHANGED <<offers, waiting, sent>>
    BY <1>4 DEF InterruptCheck, consultVars
  <2>3. QED
    BY <2>1, <2>2 DEF PatienceExact, TypeOK
<1>5. CASE ~IngestTephra /\ ~PublishEvaluatorEvents /\ ~HasConverged /\ ~InterruptCheck
  <2>1. UNCHANGED <<offers, waiting, sent>>
    BY <1>5, OffersFrame
  <2>2. cycle' = cycle /\ status = "running" /\ (pc' = "interrupt" <=> pc = "interrupt")
    <3>1. CASE Start \/ PrologPass \/ RelayPrologToClips \/ ClipsPass \/ RelayClipsToProlog
               \/ EngineError
      BY <3>1 DEF Start, PrologPass, RelayPrologToClips, ClipsPass, RelayClipsToProlog,
                  EngineError, exitVars
    <3>2. CASE PollIncoming \/ IngestEnd \/ Snapshot \/ SaveToStore \/ EvictCoireSessions
      BY <3>2 DEF PollIncoming, IngestEnd, Snapshot, SaveToStore, EvictCoireSessions, exitVars
    <3>3. CASE Environment \/ UNCHANGED vars
      BY <3>3 DEF Environment, Deliver, CoirePush, RaiseInterrupt, vars, exitVars
    <3>4. QED
      BY <1>5, <3>1, <3>2, <3>3 DEF Next, Controller
  <2>3. QED
    BY <2>1, <2>2 DEF PatienceExact
<1>6. QED
  BY <1>1, <1>2, <1>3, <1>4, <1>5

\* A step that converges leaves nothing to see.
LEMMA QuiescentStep == Inv /\ [Next]_vars => ConvergedQuiescent'
<1> SUFFICES ASSUME Inv, [Next]_vars, status' = "Converged", pc' = "save"
             PROVE  ConvergedQuiescent'
  BY DEF ConvergedQuiescent
<1>1. CASE HasConverged
  <2>1. PICK f \in Facts("prolog"), q \in Consultations :
          /\ pm' \subseteq pm \cup f \cup q \cup {TimeoutTabu(c) : c \in TimedOut}
          /\ cm' \subseteq cm \cup {TimeoutTabu(c) : c \in TimedOut}
    BY <1>1, HasConvergedMail
  <2>2. empty /\ TimedOut = {} /\ offers' = {}
    BY <1>1 DEF HasConverged, ConvergedNow, Inv, StatusInv
  <2>3. \A e \in cm \cup WithOrigin(pm, "relay") : e.label = "pushed"
    BY <1>1, <2>2 DEF HasConverged, Inv, SnapshotInv
  <2>4. /\ \A e \in f : e.origin = "prolog"
        /\ \A e \in q : e.origin = "evaluator"
    BY FactsType, ConsultationType DEF Origins
  <2>5. OfferInv'
    BY OfferStep DEF Inv
  <2>6. \A c \in Cid : sent'[c] # NotSent => outcome'[c] # <<>>
    BY <2>2, <2>5 DEF OfferInv
  <2>7. QED
    BY <2>1, <2>2, <2>3, <2>4, <2>6 DEF ConvergedQuiescent, WithOrigin, Published
<1>2. CASE CoirePush
  BY <1>2 DEF CoirePush, Inv, ConvergedQuiescent, WithOrigin, Event, Published, consultVars,
              exitVars
<1>3. CASE Deliver \/ RaiseInterrupt \/ UNCHANGED vars
  BY <1>3 DEF Deliver, RaiseInterrupt, vars, Inv, ConvergedQuiescent, WithOrigin, Published,
              consultVars, exitVars
<1>4. CASE Controller /\ ~HasConverged
  BY <1>4 DEF Controller, Start, PrologPass, RelayPrologToClips, ClipsPass, RelayClipsToProlog,
              EngineError, PollIncoming, IngestTephra, IngestEnd, PublishEvaluatorEvents,
              Snapshot, InterruptCheck, SaveToStore, EvictCoireSessions
<1>5. QED
  BY <1>1, <1>2, <1>3, <1>4 DEF Next, Environment

\* The invariant holds in every reachable state.
LEMMA Invariance == Spec => []Inv
<1>1. Inv /\ [Next]_vars => Inv'
  BY StepType, StatusStep, OfferStep, FreshStep, SnapshotStep, SaveStep, PatienceStep,
     QuiescentStep DEF Inv
<1>2. QED
  BY InitInv, <1>1, PTL DEF Spec

\* However replies are delayed, duplicated or uncorrelated, an Offering gets at
\* most one outcome event, and none while it is in pending_offers.
THEOREM OneOutcomeHolds == Spec => []OneOutcome
<1>1. Inv => OneOutcome
  BY DEF Inv, OfferInv, OneOutcome
<1>2. QED
  BY Invariance, <1>1, PTL

\* An Offering ages by exactly one per cycle and expires in the convergence
\* check that completes its evaluator_patience_cycles-th cycle.
THEOREM PatienceHolds == Spec => []PatienceExact
<1>1. Inv => PatienceExact
  BY DEF Inv
<1>2. QED
  BY Invariance, <1>1, PTL

\* has_converged never says yes while relayed mail is unread or an Offering is
\* without an outcome.
THEOREM QuiescentHolds == Spec => []ConvergedQuiescent
<1>1. Inv => ConvergedQuiescent
  BY DEF Inv
<1>2. QED
  BY Invariance, <1>1, PTL

\* When both saves succeed, evict_coire_sessions loses only racing pushes.
THEOREM SavedHolds == Spec => []SavedSurvivesEvict
<1>1. Inv => SavedSurvivesEvict
  BY DEF Inv
<1>2. QED
  BY Invariance, <1>1, PTL

-----------------------------------------------------------------------------
(* The controller implements ConsultProtocol. *)

\* The refinement mapping, on the offers.
St == [c \in Cid |-> IF c \in offers THEN "open"
                     ELSE IF outcome[c] # <<>> THEN outcome[c][1] ELSE "idle"]

\* Every step is a step of ConsultProtocol or leaves its variables alone.
LEMMA StepSimulation == Inv /\ [Next]_vars => [Consult!PNext]_(Consult!pvars)
<1> USE CidAssumption, ControllerAssumption
<1> SUFFICES ASSUME Inv, [Next]_vars PROVE [Consult!PNext]_(Consult!pvars)
  OBVIOUS
<1>0. TypeOK /\ OfferInv /\ FreshInv /\ OfferInv'
  BY OfferStep DEF Inv
<1>1. CASE IngestTephra
  <2> DEFINE t == Head(inbox)
  <2>1. t \in Envelope /\ status' = status /\ status = "running"
    BY <1>0, <1>1 DEF IngestTephra, TypeOK, Inv, StatusInv, exitVars
  <2>2. CASE UNCHANGED <<offers, waiting, outcome>>
    BY <2>1, <2>2 DEF Consult!pvars
  <2>3. ASSUME Ingested(t), NEW c \in EvidenceFor(t),
               offers' = offers \ {c},
               outcome' = [outcome EXCEPT ![c] = Append(@, t.label)]
        PROVE  Consult!Reply
    <3>1. c \in offers /\ c \in Cid /\ t.label \in {"hohi", "tabu"}
      BY <1>0, <2>1, <2>3, EvidencePending DEF TypeOK
    <3>2. outcome[c] = <<>>
      BY <1>0, <3>1 DEF OfferInv
    <3>3. outcome'[c] = <<t.label>> /\ \A d \in Cid \ {c} : outcome'[d] = outcome[d]
      BY <1>0, <2>3, <3>1, <3>2 DEF TypeOK
    <3>4. St[c] = "open" /\ St'[c] = t.label /\ \A d \in Cid \ {c} : St'[d] = St[d]
      BY <2>3, <3>1, <3>3 DEF St
    <3>5. St' = [St EXCEPT ![c] = t.label]
      BY <3>1, <3>4 DEF St
    <3>6. QED
      BY <2>1, <3>1, <3>4, <3>5 DEF Consult!Reply, St
  <2>4. QED
    BY <1>1, <2>2, <2>3 DEF IngestTephra, Consult!PNext
<1>2. CASE PublishEvaluatorEvents
  <2>1. PICK new \in SUBSET Cid :
           /\ \A c \in new : sent[c] = NotSent
           /\ offers' = offers \cup new
    BY <1>0, <1>2, PublishedFresh
  <2>2. outcome' = outcome /\ status' = status /\ status = "running"
    BY <1>2 DEF PublishEvaluatorEvents, Inv, StatusInv, exitVars
  <2>3. \A c \in new : St[c] = "idle"
    BY <1>0, <2>1 DEF OfferInv, St
  <2>4. St' = [c \in Cid |-> IF c \in new THEN "open" ELSE St[c]]
    BY <2>1, <2>2 DEF St
  <2>5. Consult!Send
    BY <2>1, <2>2, <2>3, <2>4 DEF Consult!Send, St
  <2>6. QED
    BY <2>5 DEF Consult!PNext
<1>3. CASE HasConverged
  <2>1. /\ offers' = offers \ TimedOut /\ TimedOut \subseteq offers
        /\ outcome' = [c \in Cid |-> IF c \in TimedOut THEN Append(outcome[c], "tabu-timeout")
                                                      ELSE outcome[c]]
        /\ status = "running"
    BY <1>3 DEF HasConverged, TimedOut, Inv, StatusInv
  <2>2. CASE status' = status
    <3>1. \A c \in TimedOut : outcome[c] = <<>> /\ St[c] = "open"
      BY <1>0, <2>1 DEF OfferInv, TypeOK, St
    <3>2. \A c \in TimedOut : outcome'[c] = <<"tabu-timeout">>
      <4>1. Append(<<>>, "tabu-timeout") = <<"tabu-timeout">>
        OBVIOUS
      <4>2. QED
        BY <1>0, <2>1, <3>1, <4>1 DEF TypeOK
    <3>3. St' = [c \in Cid |-> IF c \in TimedOut THEN "tabu-timeout" ELSE St[c]]
      <4>1. \A c \in Cid : c \in TimedOut => St'[c] = "tabu-timeout"
        <5>1. <<"tabu-timeout">> # <<>> /\ <<"tabu-timeout">>[1] = "tabu-timeout"
          OBVIOUS
        <5>2. \A c \in TimedOut : outcome'[c] # <<>> /\ outcome'[c][1] = "tabu-timeout"
          BY <3>2, <5>1, Zenon
        <5>3. \A c \in TimedOut : c \notin offers'
          BY <2>1, Zenon
        <5>4. QED
          BY <5>2, <5>3 DEF St
      <4>2. \A c \in Cid \ TimedOut : outcome'[c] = outcome[c] /\ (c \in offers' <=> c \in offers)
        BY <2>1
      <4>3. \A c \in Cid \ TimedOut : St'[c] = St[c]
        BY <4>2 DEF St
      <4>4. St' = [c \in Cid |-> St'[c]]
        BY DEF St
      <4>5. QED
        BY <4>1, <4>3, <4>4
    <3>4. Consult!Expire
      <4>1. TimedOut \in SUBSET {c \in Cid : St[c] = "open"}
        BY <1>0, <2>1, <3>1 DEF TypeOK
      <4>2. QED
        BY <2>1, <2>2, <3>3, <4>1 DEF Consult!Expire, St
    <3>5. QED
      BY <3>4 DEF Consult!PNext
  <2>3. CASE status' = "Converged"
    <3>1. TimedOut = {} /\ offers' = {}
      BY <1>3, <2>1, <2>3 DEF HasConverged, ConvergedNow
    <3>2. offers = {} /\ \A c \in Cid : outcome'[c] = outcome[c]
      BY <2>1, <3>1
    <3>3. St' = St
      BY <3>1, <3>2 DEF St
    <3>4. \A c \in Cid : St[c] # "open"
      <4>1. \A c \in Cid : outcome[c] # <<>> => outcome[c][1] \in {"hohi", "tabu", "tabu-timeout"}
        BY <1>0 DEF TypeOK
      <4>2. QED
        BY <3>2, <4>1 DEF St
    <3>5. Consult!Converge
      BY <2>1, <2>3, <3>3, <3>4 DEF Consult!Converge, St
    <3>6. QED
      BY <3>5 DEF Consult!PNext
  <2>4. QED
    BY <1>3, <2>2, <2>3 DEF HasConverged
<1>4. CASE ~IngestTephra /\ ~PublishEvaluatorEvents /\ ~HasConverged
  <2>1. offers' = offers /\ outcome' = outcome
    BY <1>4, OffersFrame
  <2>2. \/ status' = status
        \/ status = "running" /\ status' \in {"Interrupted", "MaxCycles", "Error"}
    <3>1. CASE Start \/ EngineError \/ InterruptCheck
      BY <3>1 DEF Start, EngineError, InterruptCheck, Inv, StatusInv
    <3>2. CASE \/ PrologPass \/ RelayPrologToClips \/ ClipsPass \/ RelayClipsToProlog
               \/ PollIncoming \/ IngestEnd \/ Snapshot
      BY <3>2 DEF PrologPass, RelayPrologToClips, ClipsPass, RelayClipsToProlog, PollIncoming,
                  IngestEnd, Snapshot, exitVars
    <3>3. CASE SaveToStore \/ EvictCoireSessions \/ Environment \/ UNCHANGED vars
      BY <3>3 DEF SaveToStore, EvictCoireSessions, Environment, Deliver, CoirePush,
                  RaiseInterrupt, vars, exitVars
    <3>4. QED
      BY <1>4, <3>1, <3>2, <3>3 DEF Next, Controller
  <2>3. CASE status' = status
    BY <2>1, <2>3 DEF Consult!pvars
  <2>4. CASE status = "running" /\ status' \in {"Interrupted", "MaxCycles", "Error"}
    BY <2>1, <2>4 DEF Consult!PNext, Consult!Stop
  <2>5. QED
    BY <2>2, <2>3, <2>4
<1>5. QED
  BY <1>1, <1>2, <1>3, <1>4

\* Every run of the controller is a run of ConsultProtocol: an Offering is
\* settled at most once and for good, and the run converges with none open.
THEOREM ConsultImplemented == Spec => ImplementsConsult
<1>1. Init => Consult!PInit
  <2> SUFFICES ASSUME Init PROVE Consult!PInit
    OBVIOUS
  <2>1. offers = {} /\ status = "running" /\ \A c \in Cid : outcome[c] = <<>>
    BY DEF Init
  <2>2. QED
    BY <2>1 DEF Consult!PInit
<1>2. QED
  BY Invariance, StepSimulation, <1>1, PTL DEF Spec, ImplementsConsult, Consult!PSpec
=============================================================================
