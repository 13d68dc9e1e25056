-------------------------- MODULE CycleController --------------------------
(***************************************************************************)
(* CycleController::run (clara-cycle/src/controller.rs): the loop          *)
(*   Prolog pass, relay, CLIPS pass, relay, evaluator pass, convergence,   *)
(*   interrupt check                                                       *)
(* of one deduction, which may have joined a Ritual.  The controller is    *)
(* one thread; the peers that put envelopes on the Ritual topic, the API   *)
(* client that pushes events into a mailbox and the one that raises the    *)
(* interrupt flag run beside it.  The rule engines are external: a pass    *)
(* consumes what the code hands them, emits any set of the events that     *)
(* the_coire.pl and the_coire.clp let rules emit, and may poll a mailbox.  *)
(***************************************************************************)
EXTENDS Coire, Integers, Sequences

CONSTANTS
  MaxCycles,   \* max_cycles
  Patience,    \* evaluator_patience_cycles
  HasGoal,     \* initial_goal is Some
  HasRitual,   \* a RitualHandle is attached
  Resumed,     \* restore_from has run: resume_deduce, not start_deduce
  HasStore,    \* a CoireStore is attached
  HasNodeId,   \* self_node_id is Some
  CoireFails,  \* calls of the Coire may fail where the code only logs it
  Kinds,       \* the kinds of evaluator/ event the rules emit
  Wire,        \* the envelopes the topic may deliver to this node
  MaxTephra,   \* bound: envelopes delivered in one run
  MaxPush      \* bound: API pushes in one run

Envelope == [perf   : {"own", "other"},           \* performance_id is ours
             label  : {"hohi", "tabu", "offering"},
             cid    : Cid \cup {NoCid},
             to     : {"me", "other", "none"},    \* target_node_id
             sealed : BOOLEAN]                    \* an Encrypted payload

ASSUME ControllerAssumption ==
  /\ MaxCycles \in Nat
  /\ Patience \in Nat
  /\ HasGoal \in BOOLEAN /\ HasStore \in BOOLEAN /\ HasNodeId \in BOOLEAN
  /\ HasRitual \in BOOLEAN /\ Resumed \in BOOLEAN /\ CoireFails \in BOOLEAN
  /\ Resumed => ~HasGoal /\ ~HasRitual     \* as resume_deduce builds it
  /\ Kinds \subseteq {"offering", "legacy", "squawk"}
  /\ Wire \subseteq Envelope
  /\ MaxTephra \in Nat /\ MaxPush \in Nat

VARIABLES
  pc,          \* the next step of run()
  cycle,       \* the loop counter
  pm, cm,      \* pending events of the Prolog and of the CLIPS mailbox
  wire,        \* envelopes on the topic beyond the handle's offset
  inbox,       \* envelopes polled and not yet ingested
  offers,      \* keys of pending_offers
  waiting,     \* cycles_waiting of each pending offer, else 0
  minted,      \* correlation ids the engines have used
  agendaEmpty, \* the CLIPS agenda is empty
  empty,       \* curr_snapshot: no relay event for Prolog, none for CLIPS
  progressed,  \* a tableau entry is newer than last_cycle_ts
  answer,      \* what the result reports for the root goal
  interrupt,   \* the shared interrupt flag
  status,      \* how run() ends
  saved,       \* the mailboxes save_to_store has saved: "p", "c" or both
  stored,      \* their pending events as the CoireStore has them
  tephras, pushes,      \* how much of the two bounds is used
  sent,        \* history: the cycle in which each offer was published
  outcome,     \* history: outcome events written for each offer
  lost         \* history: events evicted without having been saved

vars == <<pc, cycle, pm, cm, wire, inbox, offers, waiting, minted, agendaEmpty,
          empty, progressed, answer, interrupt, status, saved, stored, tephras,
          pushes, sent, outcome, lost>>

engineVars  == <<minted, agendaEmpty, progressed, answer>>
consultVars == <<inbox, offers, waiting, sent, outcome>>
envVars     == <<wire, interrupt, tephras, pushes>>
exitVars    == <<status, saved, stored, lost>>

Steps == {"start", "prolog", "relayPC", "clips", "relayCP", "poll", "ingest",
          "publish", "snapshot", "converge", "interrupt", "save", "evict", "done"}

NotSent == -1

Published == {c \in Cid : sent[c] # NotSent}

TypeOK ==
  /\ pc \in Steps
  /\ cycle \in 0..MaxCycles
  /\ pm \subseteq ClaraEvent /\ cm \subseteq ClaraEvent
  /\ wire \in Seq(Envelope) /\ inbox \in Seq(Envelope)
  /\ offers \subseteq Cid
  /\ waiting \in [Cid -> Nat]
  /\ minted \subseteq CorrCid
  /\ agendaEmpty \in BOOLEAN /\ empty \in BOOLEAN /\ progressed \in BOOLEAN
  /\ answer \in {"none", "false", "true"}
  /\ interrupt \in BOOLEAN
  /\ status \in {"running", "Converged", "Interrupted", "MaxCycles", "Error"}
  /\ saved \subseteq {"p", "c"}
  /\ stored \in [{"p", "c"} -> SUBSET ClaraEvent]
  /\ tephras \in 0..MaxTephra /\ pushes \in 0..MaxPush
  /\ sent \in [Cid -> 0..MaxCycles \cup {NotSent}]
  /\ outcome \in [Cid -> Seq({"hohi", "tabu", "tabu-timeout"})]
  /\ lost \subseteq ClaraEvent

\* A start finds both mailboxes empty; a resume finds the pending events
\* restore_from has copied in, perhaps an Offering that was never sent.
Restored == SUBSET {Event("relay", "data", NoCid), Event("ritual", "offering", NoCid)}

Init ==
  /\ pc = "start" /\ cycle = 0
  /\ \E p \in Restored, q \in {{}} \cup {{Event("evaluator", "offering", c)} : c \in CorrCid} :
       /\ pm = IF Resumed THEN p \cup q ELSE {}
       /\ minted = IF Resumed THEN {e.cid : e \in q} ELSE {}
  /\ cm \in IF Resumed THEN Restored ELSE {{}}
  /\ wire = <<>> /\ inbox = <<>>
  /\ offers = {} /\ waiting = [c \in Cid |-> 0]
  /\ agendaEmpty = TRUE /\ empty = FALSE /\ progressed = FALSE
  /\ answer = "none"
  /\ interrupt = FALSE /\ status = "running"
  /\ saved = {} /\ stored = [m \in {"p", "c"} |-> {}]
  /\ tephras = 0 /\ pushes = 0
  /\ sent = [c \in Cid |-> NotSent]
  /\ outcome = [c \in Cid |-> <<>>]
  /\ lost = {}

-----------------------------------------------------------------------------
(* What an engine may emit while it runs. *)

\* Outbound consultations: caws Offerings with fresh correlation ids, plain
\* evaluator/ events, and fire-and-forget squawks or emits.
Consultations ==
  SUBSET {e \in ClaraEvent :
            /\ e.origin = "evaluator" /\ e.label \in Kinds
            /\ IF e.label = "offering" THEN e.cid \in CorrCid \ minted ELSE e.cid = NoCid
            /\ e.label = "legacy" => LegacyCid \ Published # {}}

\* Facts and goals published for the other engine through coire_publish.
Facts(engine) == {{}, {Event(engine, "data", NoCid)}}

CidsOf(events) == {e.cid : e \in events} \ {NoCid}

\* A mailbox once rules have emitted new to it.  A rule that polls it
\* (coire_poll/2, coire-poll) marks everything pending processed, unsent
\* Offerings included; what is emitted afterwards stays.
Polled(box, new) == {box \cup new} \cup SUBSET new

\* In Prolog, caws_await and friends drain the ritual/ events and no others.
Drained(box, new) == Polled(box, new) \cup {ExcludingOrigin(box, "ritual") \cup new}

\* A mailbox once the controller has written new to it, one event at a time:
\* a write that fails is only logged.
Written(box, new) == {box \cup w : w \in IF CoireFails THEN SUBSET new ELSE {new}}

\* A mailbox after clear_session: a failure is only logged and leaves it.
Cleared(box) == IF CoireFails THEN {{}, box} ELSE {{}}

\* A tableau write sets updated_at_ms; tableau_changed_since compares it
\* strictly with the millisecond the cycle began in, so it may go unseen.
Touch(touched) == IF touched THEN {progressed, TRUE} ELSE {progressed}

-----------------------------------------------------------------------------
(* run(): before the loop. *)

\* inject_initial_offering writes the Offering that came with the request
\* (a resume takes none) to both mailboxes.
Start ==
  /\ pc = "start"
  /\ \E injected \in {{}, {Event("ritual", "offering", NoCid)}} :
       /\ Resumed => injected = {}
       /\ pm' \in Written(pm, injected)
       /\ cm' \in Written(cm, injected)
  /\ IF MaxCycles = 0
       THEN pc' = "save" /\ status' = "MaxCycles"
       ELSE pc' = "prolog" /\ UNCHANGED status
  /\ UNCHANGED <<cycle, empty, saved, stored, lost, engineVars, consultVars, envVars>>

-----------------------------------------------------------------------------
(* The four engine and relay steps of a cycle. *)

\* prolog_pass: coire_consume takes the relay- events and dispatches them;
\* cycle 0 also runs the root goal and seeds its tableau entry.  Later
\* cycles only tick, so nothing runs unless something was consumed.
PrologPass ==
  /\ pc = "prolog"
  /\ LET inbound == WithOrigin(pm, "relay")
         goal    == cycle = 0 /\ HasGoal
         runs    == goal \/ inbound # {}
     IN \E f \in Facts("prolog"), q \in Consultations :
          /\ ~runs => f = {} /\ q = {}
          /\ pm' \in IF runs THEN Drained(pm \ inbound, f \cup q) ELSE {pm}
          /\ minted' = minted \cup CidsOf(q)
          /\ answer' \in IF goal THEN {"false", "true"} ELSE {answer}
          /\ progressed' \in IF goal THEN BOOLEAN ELSE {FALSE}
  /\ pc' = "relayPC"
  /\ UNCHANGED <<cycle, cm, empty, agendaEmpty, consultVars, envVars, exitVars>>

\* relay_prolog_to_clips: the events Prolog itself emitted move to the CLIPS
\* mailbox, and the tableau records the facts among them.
RelayPrologToClips ==
  /\ pc = "relayPC"
  /\ LET moved == WithOrigin(pm, "prolog")
     IN /\ pm' = pm \ moved
        /\ cm' = cm \cup {Event("relay", "data", NoCid) : e \in moved}
        /\ progressed' \in Touch(moved # {})
  /\ pc' = "clips"
  /\ UNCHANGED <<cycle, empty, minted, agendaEmpty, answer, consultVars, envVars,
                 exitVars>>

\* clips_pass: consume_coire_events takes everything CLIPS did not emit
\* itself, then (run).  Rules emit to their own mailbox or, for evaluator/
\* events, to the Prolog mailbox; a rule that halts leaves the agenda full.
ClipsPass ==
  /\ pc = "clips"
  /\ LET inbound == ExcludingOrigin(cm, "clips")
         runs    == cycle = 0 \/ inbound # {} \/ ~agendaEmpty
     IN \E f \in Facts("clips"), q \in Consultations :
          /\ ~runs => f = {} /\ q = {}
          /\ cm' \in IF runs THEN Polled(cm \ inbound, f) ELSE {cm \ inbound}
          /\ pm' \in IF runs THEN Polled(pm, q) ELSE {pm}
          /\ minted' = minted \cup CidsOf(q)
          /\ agendaEmpty' \in IF runs THEN BOOLEAN ELSE {TRUE}
  /\ pc' = "relayCP"
  /\ UNCHANGED <<cycle, empty, progressed, answer, consultVars, envVars, exitVars>>

\* relay_clips_to_prolog: the events CLIPS itself emitted move to the Prolog
\* mailbox; everything else stays for consume_coire_events.
RelayClipsToProlog ==
  /\ pc = "relayCP"
  /\ LET moved == WithOrigin(cm, "clips")
     IN /\ cm' = cm \ moved
        /\ pm' = pm \cup {Event("relay", "data", NoCid) : e \in moved}
        /\ progressed' \in Touch(moved # {})
  /\ pc' = "poll"
  /\ UNCHANGED <<cycle, empty, minted, agendaEmpty, answer, consultVars, envVars,
                 exitVars>>

\* Any of the four returns an error through `?`: run() ends at once.  The
\* events it had polled may be gone, what its engine emitted is there, and
\* both mailboxes stay in the Coire, neither saved nor evicted.
EngineError ==
  /\ pc \in {"prolog", "relayPC", "clips", "relayCP"}
  /\ \E f \in Facts(pc), q \in Consultations :
       /\ pc \notin {"prolog", "clips"} => f = {} /\ q = {}
       /\ \E p \in CASE pc = "prolog"  -> {pm, ExcludingOrigin(pm, "relay")}
                     [] pc = "relayPC" -> {pm, ExcludingOrigin(pm, "prolog")}
                     [] OTHER          -> {pm} :
            pm' \in CASE pc = "prolog" -> Drained(p, f \cup q)
                      [] pc = "clips"  -> Polled(p, q)
                      [] OTHER         -> {p}
       /\ \E c \in CASE pc = "clips"   -> {cm, WithOrigin(cm, "clips")}
                     [] pc = "relayCP" -> {cm, ExcludingOrigin(cm, "clips")}
                     [] OTHER          -> {cm} :
            cm' \in IF pc = "clips" THEN Polled(c, f) ELSE {c}
       /\ minted' = minted \cup CidsOf(q)
  /\ pc' = "done" /\ status' = "Error"
  /\ UNCHANGED <<cycle, empty, saved, stored, lost, agendaEmpty, progressed, answer,
                 consultVars, envVars>>

-----------------------------------------------------------------------------
(* The evaluator pass. *)

\* Without a handle the whole pass is skipped.  Otherwise poll_incoming takes
\* every envelope beyond the offset, or fails and leaves the offset alone.
PollIncoming ==
  /\ pc = "poll"
  /\ \/ ~HasRitual /\ pc' = "snapshot" /\ UNCHANGED <<inbox, wire>>
     \/ HasRitual /\ pc' = "ingest" /\ inbox' = wire /\ wire' = <<>>
     \/ HasRitual /\ pc' = "ingest" /\ UNCHANGED <<inbox, wire>>
  /\ UNCHANGED <<cycle, pm, cm, empty, engineVars, offers, waiting, sent, outcome,
                 interrupt, tephras, pushes, exitVars>>

IsReply(t) == t.label \in {"hohi", "tabu"}

\* resolve_pending_offer: the offers a reply may settle.  A reply that echoes
\* a correlation id settles that offer; one that does not settles the legacy
\* offer that has waited longest (ties in the map's iteration order).
Resolves(t) ==
  IF t.perf # "own" THEN {}
  ELSE IF t.cid # NoCid THEN {t.cid} \cap offers
  ELSE LET legacy == offers \cap LegacyCid
       IN {c \in legacy : \A d \in legacy : waiting[d] <= waiting[c]}

AddressedToMe(t) == HasNodeId /\ t.to = "me"

\* Mutant: the drop forgets to look at the performance.
IngestedAnyPerformance(t) ==
  IF IsReply(t) THEN Resolves(t) # {} \/ t.perf = "own" \/ AddressedToMe(t)
                ELSE t.perf = "other" /\ ~(HasNodeId /\ t.to = "other")

\* An unsettling reply is kept only as a message another performance
\* addressed to this node; other envelopes are kept unless they are our own
\* echo or name another node.
Ingested(t) ==
  IF IsReply(t)
    THEN Resolves(t) # {} \/ (t.perf = "other" /\ AddressedToMe(t))
    ELSE t.perf = "other" /\ ~(HasNodeId /\ t.to = "other")

\* The offer whose outcome rules take an ingested reply to be: the one it
\* names, or the legacy offer it settles.
EvidenceFor(t) ==
  IF ~IsReply(t) \/ t.perf # "own" THEN {}
  ELSE IF t.cid # NoCid THEN {t.cid} ELSE Resolves(t)

\* ingest_tephra on the next envelope: drop it, or write one ritual/{label}
\* event to each mailbox and settle the offer it answers.
IngestTephra ==
  /\ pc = "ingest" /\ inbox # <<>>
  /\ LET t == Head(inbox)
         e == Event("ritual", t.label, t.cid)
     IN \/ /\ t.sealed \/ ~Ingested(t)
           /\ UNCHANGED <<pm, cm, offers, waiting, outcome>>
        \/ /\ ~t.sealed /\ Ingested(t)
           /\ pm' \in Written(pm, {e})
           /\ cm' \in Written(cm, {e})
           /\ \/ EvidenceFor(t) = {} /\ UNCHANGED <<offers, waiting, outcome>>
              \/ \E c \in EvidenceFor(t) :
                   /\ offers' = offers \ {c}
                   /\ waiting' = [waiting EXCEPT ![c] = 0]
                   /\ outcome' = [outcome EXCEPT ![c] = Append(@, t.label)]
  /\ inbox' = Tail(inbox)
  /\ UNCHANGED <<pc, cycle, empty, engineVars, sent, envVars, exitVars>>

IngestEnd ==
  /\ pc = "ingest" /\ inbox = <<>>
  /\ pc' = "publish"
  /\ UNCHANGED <<cycle, pm, cm, empty, engineVars, consultVars, envVars, exitVars>>

\* publish_evaluator_events: every evaluator/ event leaves the Prolog
\* mailbox, unless the poll fails and the pass ends here; those the broker
\* accepts and that expect a reply become pending offers, keyed by their
\* correlation id or, for events without a _caws block (a mailbox may hold
\* several equal ones), a fresh one each.
PublishEvaluatorEvents ==
  /\ pc = "publish"
  /\ LET out == WithOrigin(pm, "evaluator")
     IN \/ /\ pm' = pm \ out
           /\ \E accepted \in SUBSET out, fresh \in SUBSET (LegacyCid \ Published) :
                LET new == CidsOf(accepted) \cup fresh
                IN /\ (fresh = {}) <=> ~\E e \in accepted : e.label \in {"legacy", "pushed"}
                   /\ offers' = offers \cup new
                   /\ waiting' = [c \in Cid |-> IF c \in new THEN 0 ELSE waiting[c]]
                   /\ sent' = [c \in Cid |-> IF c \in new THEN cycle ELSE sent[c]]
        \/ CoireFails /\ UNCHANGED <<pm, offers, waiting, sent>>
  /\ pc' = "snapshot"
  /\ UNCHANGED <<cycle, cm, empty, engineVars, inbox, outcome, envVars, exitVars>>

-----------------------------------------------------------------------------
(* Convergence, interrupt, exits. *)

\* Mutant: the Prolog mailbox is not counted at all.
SnapshotClipsOnly ==
  /\ pc = "snapshot"
  /\ empty' = (cm = {})
  /\ pc' = "converge"
  /\ UNCHANGED <<cycle, pm, cm, engineVars, consultVars, envVars, exitVars>>

\* snapshot(): the Prolog mailbox counts its relay- events only; a count that
\* fails is taken for one.
Snapshot ==
  /\ pc = "snapshot"
  /\ \/ empty' = (WithOrigin(pm, "relay") = {} /\ cm = {})
     \/ CoireFails /\ empty' = FALSE
  /\ pc' = "converge"
  /\ UNCHANGED <<cycle, pm, cm, engineVars, consultVars, envVars, exitVars>>

\* Mutant: patience compared with > instead of >=.
TimedOutLate == {c \in offers : waiting[c] + 1 > Patience}

\* The pending offers whose patience this check exhausts.
TimedOut == {c \in offers : waiting[c] + 1 >= Patience}

\* The event assert_evaluator_timeout_tabu writes for an offer; legacy offers
\* carry no correlation id.
TimeoutTabu(c) == Event("ritual", "tabu-timeout", IF c \in CorrCid THEN c ELSE NoCid)

\* What has_converged reads of the CLIPS agenda: get-agenda is no function of
\* the CLIPS it embeds, so the expression never parses, eval returns an error
\* and unwrap_or(true) takes the agenda for empty, whatever (run) left on it.
clips_agenda_empty == TRUE

\* Mutant: a check that has just expired an offer may still converge.
ConvergedOnTimeout(timedOut, left, changed, ans) ==
  empty /\ clips_agenda_empty /\ left = {} /\ (~changed \/ ans # "none")

\* Mutant: pending offers do not block convergence.
ConvergedWhilePending(timedOut, left, changed, ans) ==
  empty /\ clips_agenda_empty /\ timedOut = {} /\ (~changed \/ ans # "none")

\* has_converged's verdict, from the snapshot taken before the root goal ran
\* again, the offers left after ageing, and the tableau.
ConvergedNow(timedOut, left, changed, ans) ==
  /\ empty /\ clips_agenda_empty
  /\ left = {} /\ timedOut = {}
  /\ ~changed \/ ans # "none"

\* has_converged: run the root goal again when everything is drained (it may
\* emit events and poll the mailbox; a success replaces the answer, a
\* failure keeps it), age the offers and expire those out of patience.
HasConverged ==
  /\ pc = "converge"
  /\ LET reeval == empty /\ clips_agenda_empty /\ HasGoal
         tabus  == {TimeoutTabu(c) : c \in TimedOut}
     IN \E f \in Facts("prolog"), q \in Consultations :
          /\ ~reeval => f = {} /\ q = {}
          /\ \E p \in IF reeval THEN Drained(pm, f \cup q) ELSE {pm} : pm' \in Written(p, tabus)
          /\ cm' \in Written(cm, tabus)
          /\ minted' = minted \cup CidsOf(q)
          /\ answer' \in IF reeval THEN {answer, "true"} ELSE {answer}
          /\ offers' = offers \ TimedOut
          /\ waiting' = [c \in Cid |-> IF c \in offers' THEN waiting[c] + 1 ELSE 0]
          /\ outcome' = [c \in Cid |-> IF c \in TimedOut
                                         THEN Append(outcome[c], "tabu-timeout")
                                         ELSE outcome[c]]
          /\ \E changed \in Touch(reeval) :
               IF ConvergedNow(TimedOut, offers', changed, answer')
                 THEN pc' = "save" /\ status' = "Converged"
                 ELSE pc' = "interrupt" /\ UNCHANGED status
  /\ empty' = FALSE /\ progressed' = FALSE     \* both are dead from here on
  /\ UNCHANGED <<cycle, agendaEmpty, inbox, sent, envVars, saved, stored, lost>>

\* Mutant: the loop has no budget.
InterruptCheckNoBudget ==
  /\ pc = "interrupt"
  /\ \/ interrupt /\ pc' = "save" /\ status' = "Interrupted" /\ UNCHANGED cycle
     \/ ~interrupt /\ pc' = "prolog" /\ cycle' = cycle + 1 /\ UNCHANGED status
  /\ UNCHANGED <<pm, cm, empty, saved, stored, lost, engineVars, consultVars, envVars>>

\* Mutant: the loop forgets to count.
InterruptCheckNoCount ==
  /\ pc = "interrupt"
  /\ \/ interrupt /\ pc' = "save" /\ status' = "Interrupted"
     \/ ~interrupt /\ pc' = "prolog" /\ UNCHANGED status
  /\ UNCHANGED <<cycle, pm, cm, empty, saved, stored, lost, engineVars, consultVars, envVars>>

\* The interrupt check ends the cycle; the loop ends when its budget is used.
InterruptCheck ==
  /\ pc = "interrupt"
  /\ \/ /\ interrupt
        /\ pc' = "save" /\ status' = "Interrupted"
        /\ UNCHANGED cycle
     \/ /\ ~interrupt /\ cycle + 1 < MaxCycles
        /\ pc' = "prolog" /\ cycle' = cycle + 1
        /\ UNCHANGED status
     \/ /\ ~interrupt /\ cycle + 1 >= MaxCycles
        /\ pc' = "save" /\ status' = "MaxCycles" /\ cycle' = MaxCycles
  /\ UNCHANGED <<pm, cm, empty, saved, stored, lost, engineVars, consultVars, envVars>>

\* Mutant: the CLIPS mailbox is saved in the place of both.
SaveToStoreOneSide ==
  /\ pc = "save"
  /\ \E ok \in SUBSET {"p", "c"} :
       /\ HasStore \/ ok = {}
       /\ saved' = ok
       /\ stored' = [m \in {"p", "c"} |-> IF m \in ok THEN cm ELSE {}]
  /\ pc' = "evict"
  /\ UNCHANGED <<cycle, pm, cm, empty, status, lost, engineVars, consultVars, envVars>>

\* save_to_store: each mailbox is saved or its failure is only logged.
SaveToStore ==
  /\ pc = "save"
  /\ \E ok \in SUBSET {"p", "c"} :
       /\ HasStore \/ ok = {}
       /\ saved' = ok
       /\ stored' = [m \in {"p", "c"} |-> IF m \notin ok THEN {}
                                         ELSE IF m = "p" THEN pm ELSE cm]
  /\ pc' = "evict"
  /\ UNCHANGED <<cycle, pm, cm, empty, status, lost, engineVars, consultVars, envVars>>

\* evict_coire_sessions clears both mailboxes whatever was saved; a failure
\* is only logged, and leaves that mailbox in the Coire.
EvictCoireSessions ==
  /\ pc = "evict"
  /\ pm' \in Cleared(pm) /\ cm' \in Cleared(cm)
  /\ lost' = ((pm \ pm') \ stored["p"]) \cup ((cm \ cm') \ stored["c"])
  /\ pc' = "done"
  /\ UNCHANGED <<cycle, empty, status, saved, stored, engineVars, consultVars, envVars>>

-----------------------------------------------------------------------------
(* The threads beside the controller. *)

\* A peer's envelope, or the echo of one of ours, reaches the topic.  A reply
\* of our performance answers an Offering that was published, and may come
\* late or twice.  Other performances relay and tee messages under the id they
\* received them with, so theirs may name an Offering of ours, or none.
Deliver ==
  /\ HasRitual /\ pc # "done" /\ tephras < MaxTephra
  /\ \E t \in Wire :
       /\ \/ t.cid \in Published
          \/ t.cid = NoCid /\ (t.perf = "other" \/ Published \cap LegacyCid # {})
       /\ wire' = Append(wire, t)
  /\ tephras' = tephras + 1
  /\ UNCHANGED <<pc, cycle, pm, cm, empty, engineVars, consultVars, interrupt, pushes,
                 exitVars>>

\* POST /cycle/coire/push writes an event into either mailbox, under any
\* origin the client gives, the engines' own and the reserved ones included.
\* (Its payload carries no _caws or _routing block.)
CoirePush ==
  /\ pc # "done" /\ pushes < MaxPush
  /\ \E o \in Origins :
       LET e == Event(o, "pushed", NoCid)
       IN /\ o = "evaluator" => LegacyCid \ Published # {}
          /\ \/ pm' = pm \cup {e} /\ UNCHANGED cm
             \/ cm' = cm \cup {e} /\ UNCHANGED pm
  /\ pushes' = pushes + 1
  /\ UNCHANGED <<pc, cycle, empty, engineVars, consultVars, wire, interrupt, tephras,
                 exitVars>>

\* interrupt_deduce raises the flag; nobody lowers it.
RaiseInterrupt ==
  /\ pc # "done" /\ ~interrupt
  /\ interrupt' = TRUE
  /\ UNCHANGED <<pc, cycle, pm, cm, empty, engineVars, consultVars, wire, tephras,
                 pushes, exitVars>>

Controller ==
  \/ Start \/ PrologPass \/ RelayPrologToClips \/ ClipsPass \/ RelayClipsToProlog
  \/ EngineError \/ PollIncoming \/ IngestTephra \/ IngestEnd
  \/ PublishEvaluatorEvents \/ Snapshot \/ HasConverged \/ InterruptCheck
  \/ SaveToStore \/ EvictCoireSessions

Environment == Deliver \/ CoirePush \/ RaiseInterrupt

Next == Controller \/ Environment

\* The controller runs on its own blocking thread and every engine call it
\* makes returns, so its next step is eventually taken.  Nothing obliges the
\* peers or the API clients to act.
Spec == Init /\ [][Next]_vars /\ WF_vars(Controller)

-----------------------------------------------------------------------------
(* Properties. *)

\* An Offering gets at most one outcome, and none while it is pending: a
\* duplicate reply of our performance, or one that arrives after the patience
\* timeout, never re-enters the mailboxes (the drop in ingest_tephra).
OneOutcome ==
  \A c \in Cid : /\ Len(outcome[c]) <= 1
                 /\ c \in offers => outcome[c] = <<>>

\* Patience is exact: a pending Offering has aged once per convergence check
\* since it was published, so it expires in the check that completes its
\* evaluator_patience_cycles-th cycle, neither earlier nor later.
PatienceExact ==
  status = "running" =>
    \A c \in offers :
      LET checks == cycle - sent[c] + IF pc = "interrupt" THEN 1 ELSE 0
      IN /\ sent[c] \in 0..cycle
         /\ waiting[c] = checks
         /\ waiting[c] < Patience \/ checks = 0

\* When has_converged says yes, no engine is left with work to see: what is
\* pending for CLIPS, or relayed to Prolog, is at most what a client pushed
\* after the snapshot, and every Offering sent has its outcome, timeouts
\* included, already consumed by CLIPS.
ConvergedQuiescent ==
  status = "Converged" /\ pc = "save" =>
    /\ \A e \in cm \cup WithOrigin(pm, "relay") : e.label = "pushed"
    /\ \A c \in Published : outcome[c] # <<>>

\* Events that save_to_store has saved survive the eviction: when both saves
\* succeed only a push that raced with the exit is lost.
SavedSurvivesEvict ==
  saved = {"p", "c"} => \A e \in lost : e.label = "pushed"

\* run() always returns, within its cycle budget, however the engines and the
\* clients behave: stopping never depends on convergence.
RunReturns == <>(pc = "done")

\* What a run promises its rules about consultations: ConsultProtocol, with
\* an offer's state read off pending_offers and its outcome events.
Consult == INSTANCE ConsultProtocol WITH
  Offer <- Cid,
  st  <- [c \in Cid |-> IF c \in offers THEN "open"
                        ELSE IF outcome[c] # <<>> THEN outcome[c][1] ELSE "idle"],
  run <- CASE status = "running"   -> "running"
           [] status = "Converged" -> "converged"
           [] OTHER                -> "stopped"

\* Every run of the controller is a run of ConsultProtocol.
ImplementsConsult == Consult!PSpec

-----------------------------------------------------------------------------
(* What the comments claim and the code does not do. *)

\* "The CLIPS agenda is empty" (the second condition of has_converged): a run
\* that converges leaves no activated rule behind.
ConvergedAgendaEmpty ==
  status = "Converged" /\ pc = "save" => agendaEmpty
=============================================================================
