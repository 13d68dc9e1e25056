---------------------------- MODULE RitualService ----------------------------
(***************************************************************************)
(* Rituals: RitualRegistry, RitualHandle and the two brokers (clara-ritual)*)
(* under the ritual handlers (clara-api), with the rituals table of the    *)
(* CoireStore and server restarts.                                         *)
(*                                                                         *)
(* A Ritual is a topic.  Peers join it by key and talk to the broker       *)
(* themselves; a deduction joins it without a key and polls through a      *)
(* handle.  The registry writes what it changes through to the store, and  *)
(* a server that starts reads it back.                                     *)
(***************************************************************************)
EXTENDS Integers, Sequences

CONSTANTS
  Ritual,         \* ritual ids
  Key,            \* participant keys
  Performance,    \* performance ids
  Deduction,      \* deductions that may join
  None,
  Durable,        \* the broker is Kafka and not the in-memory one
  StoreFails,     \* statements of the CoireStore may fail
  BrokerFails,    \* calls of the broker may fail
  MaxLog,         \* bound on the length of a topic
  MaxRestarts     \* bound on server restarts

ASSUME RitualAssumption ==
  /\ None \notin Ritual \cup Key \cup Performance
  /\ Durable \in BOOLEAN /\ StoreFails \in BOOLEAN /\ BrokerFails \in BOOLEAN
  /\ MaxLog \in Nat /\ MaxRestarts \in Nat

VARIABLES
  rituals,        \* RitualRegistry.rituals
  rows,           \* the rituals table
  creating,       \* Rituals in the map whose create has not reached the store
  log,            \* the topic of each Ritual
  handle,         \* the RitualHandle of each deduction
  used,           \* ids drawn so far, of Rituals and of performances
  restarts,
  \* History.
  issued,         \* <<ritual, key, performance>> for each join that succeeded
  ended,          \* Rituals whose termination was confirmed to a client
  unsaved         \* Rituals of which some write did not reach the store

vars == <<rituals, rows, creating, log, handle, used, restarts, issued, ended, unsaved>>

History == <<issued, ended, unsaved>>

\* Ritual and RitualRow: the state and the participants map.
RitualRec == [state : {"absent", "active", "terminated"},
              participants : [Key -> Performance \cup {None}]]

NoKeys   == [k \in Key |-> None]
Absent   == [state |-> "absent", participants |-> NoKeys]
NewRitual == [state |-> "active", participants |-> NoKeys]

\* A record of a topic: an envelope that is alive, one past its ttl, or
\* something a peer wrote that is not an envelope.
Record == {"live", "expired", "garbage"}

\* RitualHandle: its Ritual, performance id and consumer_offset.  The rest is
\* history: the length of the topic when it joined, whether its offset is that
\* length or latest_offset failed, the positions it returned, and those it
\* returned out of order.
Handle == [ritual : Ritual, performance : Performance, offset : Nat,
           joined : Nat, seed : {"latest", "failed"}, got : SUBSET Nat, again : SUBSET Nat]

NoHandle == [ritual |-> None, performance |-> None, offset |-> 0,
             joined |-> 0, seed |-> "latest", got |-> {}, again |-> {}]

TypeOK ==
  /\ rituals \in [Ritual -> RitualRec]
  /\ rows \in [Ritual -> RitualRec]
  /\ creating \subseteq Ritual
  /\ log \in [Ritual -> Seq(Record)]
  /\ handle \in [Deduction -> Handle \cup {NoHandle}]
  /\ used \subseteq Ritual \cup Performance
  /\ restarts \in Nat
  /\ issued \subseteq Ritual \X (Key \cup {None}) \X Performance
  /\ ended \subseteq Ritual
  /\ unsaved \subseteq Ritual

Init ==
  /\ rituals = [r \in Ritual |-> Absent]
  /\ rows = [r \in Ritual |-> Absent]
  /\ creating = {}
  /\ log = [r \in Ritual |-> <<>>]
  /\ handle = [d \in Deduction |-> NoHandle]
  /\ used = {}
  /\ restarts = 0
  /\ issued = {} /\ ended = {} /\ unsaved = {}

Joined(d) == handle[d] # NoHandle

-----------------------------------------------------------------------------
(* The registry. *)

\* create, first half: the topic exists and the Ritual enters the map, where
\* list_active shows it.  A broker that refuses the topic leaves no trace.
Create(r) ==
  /\ r \notin used
  /\ used' = used \cup {r}
  /\ rituals' = [rituals EXCEPT ![r] = NewRitual]
  /\ creating' = creating \cup {r}
  /\ UNCHANGED <<rows, log, handle, restarts, History>>

\* create, second half: the lock is released and the row is written as it was
\* when create began.
Upsert(r) ==
  /\ r \in creating
  /\ creating' = creating \ {r}
  /\ \/ /\ rows' = [rows EXCEPT ![r] = NewRitual]
        /\ UNCHANGED unsaved
     \/ /\ StoreFails
        /\ unsaved' = unsaved \cup {r}
        /\ UNCHANGED rows
  /\ UNCHANGED <<rituals, log, handle, used, restarts, issued, ended>>

\* An UPDATE of r's row: it may fail, and without a row it succeeds and does
\* nothing.
UpdateRow(r, row) ==
  \/ /\ rows[r] # Absent
     /\ rows' = [rows EXCEPT ![r] = row]
     /\ UNCHANGED unsaved
  \/ /\ rows[r] = Absent \/ StoreFails
     /\ unsaved' = unsaved \cup {r}
     /\ UNCHANGED rows

\* The ids a join with key k may answer with: the one it has, or a new one.
PerformanceFor(r, k) ==
  IF rituals[r].participants[k] # None THEN {rituals[r].participants[k]}
                                       ELSE {p \in Performance : p \notin used}

\* Mutant: the row keeps the map from before the join.
JoinKeyedStaleRow(r, k) ==
  /\ rituals[r].state = "active"
  /\ \E p \in PerformanceFor(r, k) :
       /\ rituals' = [rituals EXCEPT ![r].participants[k] = p]
       /\ used' = used \cup {p}
       /\ issued' = issued \cup {<<r, k, p>>}
       /\ IF p = rituals[r].participants[k]
            THEN UNCHANGED <<rows, unsaved>>
            ELSE UpdateRow(r, [rows[r] EXCEPT !.participants = rituals[r].participants])
  /\ UNCHANGED <<creating, log, handle, restarts, ended>>

\* join with a participant key, for a peer: the handler answers with the
\* performance id and drops the handle.  A first join stores the grown map.
JoinKeyed(r, k) ==
  /\ rituals[r].state = "active"
  /\ \E p \in PerformanceFor(r, k) :
       /\ rituals' = [rituals EXCEPT ![r].participants[k] = p]
       /\ used' = used \cup {p}
       /\ issued' = issued \cup {<<r, k, p>>}
       /\ IF p = rituals[r].participants[k]
            THEN UNCHANGED <<rows, unsaved>>
            ELSE UpdateRow(r, [rows[r] EXCEPT !.participants = rituals'[r].participants])
  /\ UNCHANGED <<creating, log, handle, restarts, ended>>

\* Mutant: an unknown offset is -1, as Kafka clients often have it.
StartUnknown(r, seed) == IF seed = "latest" THEN Len(log[r]) ELSE -1

\* Where a new handle starts: latest_offset, or 0 when the broker cannot say.
StartOffset(r, seed) == IF seed = "latest" THEN Len(log[r]) ELSE 0

\* join without a key, for a deduction: it keeps the handle.
JoinDeduction(r, d) ==
  /\ rituals[r].state = "active"
  /\ ~Joined(d)
  /\ \E p \in {q \in Performance : q \notin used}, seed \in {"latest", "failed"} :
       /\ seed = "failed" => BrokerFails
       /\ used' = used \cup {p}
       /\ issued' = issued \cup {<<r, None, p>>}
       /\ handle' = [handle EXCEPT ![d] =
            [ritual |-> r, performance |-> p, offset |-> StartOffset(r, seed),
             joined |-> Len(log[r]), seed |-> seed, got |-> {}, again |-> {}]]
  /\ UNCHANGED <<rituals, rows, creating, log, restarts, ended, unsaved>>

\* Mutant: the store is not told.
TerminateInMemory(r) ==
  /\ rituals[r].state # "absent"
  /\ rituals' = [rituals EXCEPT ![r].state = "terminated"]
  /\ ended' = ended \cup {r}
  /\ UNCHANGED <<rows, unsaved, creating, log, handle, used, restarts, issued>>

\* terminate: idempotent; handles go on working.
Terminate(r) ==
  /\ rituals[r].state # "absent"
  /\ rituals' = [rituals EXCEPT ![r].state = "terminated"]
  /\ UpdateRow(r, [rows[r] EXCEPT !.state = "terminated"])
  /\ ended' = ended \cup {r}
  /\ UNCHANGED <<creating, log, handle, used, restarts, issued>>

-----------------------------------------------------------------------------
(* The topic. *)

AppendTo(r, rec) ==
  /\ Len(log[r]) < MaxLog
  /\ log' = [log EXCEPT ![r] = Append(@, rec)]
  /\ UNCHANGED <<rituals, rows, creating, handle, used, restarts, History>>

\* RitualHandle::publish_body_routed; a failed publish leaves no trace.
Publish(d) == Joined(d) /\ AppendTo(handle[d].ritual, "live")

\* A peer writes to the topic of a Kafka broker, whatever it writes.
PeerPublish(r) ==
  /\ Durable
  /\ r \in used
  /\ \E rec \in {"live", "garbage"} : AppendTo(r, rec)

\* An envelope's ttl_ms passes.
Expire(r) ==
  /\ \E i \in 1..Len(log[r]) :
       /\ log[r][i] = "live"
       /\ log' = [log EXCEPT ![r][i] = "expired"]
  /\ UNCHANGED <<rituals, rows, creating, handle, used, restarts, History>>

\* KafkaBridge::poll: where a fetch from o may end.  The in-memory broker
\* returns all there is, Kafka at most a megabyte.
FetchEnd(r, o) == IF Durable THEN o..Len(log[r]) ELSE {Len(log[r])}

\* The envelopes of a fetch that are decodable and alive.
Fetched(r, from, to) == {i \in (from + 1)..to : log[r][i] = "live"}

\* Mutant: the offset stays where it was.
PollSameOffset(d) ==
  /\ Joined(d)
  /\ \E end \in FetchEnd(handle[d].ritual, handle[d].offset) :
       LET new == Fetched(handle[d].ritual, handle[d].offset, end)
       IN  handle' = [handle EXCEPT ![d].got = @ \cup new,
                                    ![d].again = @ \cup {i \in new : \E j \in handle[d].got : j >= i}]
  /\ UNCHANGED <<rituals, rows, creating, log, used, restarts, History>>

\* RitualHandle::poll_incoming, on a clone that shares the offset; a failed
\* poll leaves the offset alone.
PollIncoming(d) ==
  /\ Joined(d)
  /\ \E end \in FetchEnd(handle[d].ritual, handle[d].offset) :
       LET new == Fetched(handle[d].ritual, handle[d].offset, end)
       IN  handle' = [handle EXCEPT ![d].offset = end,
                                    ![d].got = @ \cup new,
                                    ![d].again = @ \cup {i \in new : \E j \in handle[d].got : j >= i}]
  /\ UNCHANGED <<rituals, rows, creating, log, used, restarts, History>>

-----------------------------------------------------------------------------
(* Restarts. *)

\* restore_from_store: every row, active or terminated, as it was stored.
Restored == rows

\* The server stops, in the middle of a create or not, and starts again.  The
\* map, the handles and an in-memory broker are lost; when the table cannot be
\* read the map starts empty.
Restart ==
  /\ restarts < MaxRestarts
  /\ restarts' = restarts + 1
  /\ \/ rituals' = Restored
     \/ StoreFails /\ rituals' = [r \in Ritual |-> Absent]
  /\ creating' = {}
  /\ handle' = [d \in Deduction |-> NoHandle]
  /\ log' = IF Durable THEN log ELSE [r \in Ritual |-> <<>>]
  /\ UNCHANGED <<rows, used, History>>

Next ==
  \/ \E r \in Ritual :
       \/ Create(r) \/ Upsert(r) \/ Terminate(r) \/ PeerPublish(r) \/ Expire(r)
       \/ \E k \in Key : JoinKeyed(r, k)
       \/ \E d \in Deduction : JoinDeduction(r, d)
  \/ \E d \in Deduction : Publish(d) \/ PollIncoming(d)
  \/ Restart

Spec == Init /\ [][Next]_vars

-----------------------------------------------------------------------------
(* Properties. *)

\* The same key always receives the same performance id (join's comment),
\* however many joins and restarts lie between, as long as the writes of its
\* Ritual reached the store.
KeyedIdentity ==
  \A r \in Ritual \ unsaved, k \in Key, p, q \in Performance :
    <<r, k, p>> \in issued /\ <<r, k, q>> \in issued => p = q

\* Once a termination is confirmed nobody new enters the Ritual, before or
\* after a restart (terminate_ritual's comment), as long as its writes reached
\* the store.
TerminatedClosed ==
  [][\A r \in ended \ unsaved, k \in Key \cup {None}, p \in Performance :
       <<r, k, p>> \in issued' => <<r, k, p>> \in issued]_vars

\* A handle returns what was published since it joined in order and once: up
\* to its offset only garbage and expired envelopes are missing (poll_incoming),
\* and nothing published before it joined is there (the comment on the offset
\* join seeds), unless latest_offset failed at the join: then it replays.
Delivery ==
  \A d \in Deduction : Joined(d) =>
    LET h == handle[d] IN
    /\ h.again = {}
    /\ \A i \in h.got : i <= h.offset /\ (h.seed = "latest" => i > h.joined)
    /\ \A i \in (h.joined + 1)..h.offset : log[h.ritual][i] = "live" => i \in h.got

\* A terminated Ritual never becomes active again: the registry writes every
\* mutation through, so that Rituals survive restarts (its comment).
TerminationSurvives ==
  \A r \in ended : rituals[r].state # "active"
=============================================================================
