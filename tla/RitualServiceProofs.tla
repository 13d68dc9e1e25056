------------------------- MODULE RitualServiceProofs -------------------------
(***************************************************************************)
(* Theorems about RitualService for every set of Rituals, keys and         *)
(* deductions, either broker, and any failures and restarts.               *)
(***************************************************************************)
EXTENDS RitualService, SequenceTheorems, TLAPS

-----------------------------------------------------------------------------
(* Types. *)

\* The values the rest of the proof treats as constants.
LEMMA Values ==
  /\ Absent \in RitualRec /\ NewRitual \in RitualRec
  /\ Absent.state = "absent" /\ NewRitual.state = "active"
  /\ \A k \in Key : Absent.participants[k] = None /\ NewRitual.participants[k] = None
BY DEF Absent, NewRitual, RitualRec, NoKeys

\* An update of a row keeps the table well typed.
LEMMA UpdateRowType ==
  ASSUME TypeOK, NEW r \in Ritual, NEW row \in RitualRec, UpdateRow(r, row)
  PROVE  rows' \in [Ritual -> RitualRec] /\ unsaved' \subseteq Ritual
BY DEF TypeOK, UpdateRow

\* An append keeps the topics well typed.
LEMMA AppendToType ==
  ASSUME TypeOK, NEW r \in Ritual, NEW rec \in Record, AppendTo(r, rec)
  PROVE  TypeOK'
<1>1. Append(log[r], rec) \in Seq(Record)
  BY AppendProperties DEF TypeOK
<1>2. log' \in [Ritual -> Seq(Record)]
  BY <1>1 DEF TypeOK, AppendTo
<1>3. QED
  BY <1>2 DEF TypeOK, AppendTo, History

\* Every step keeps the types.
LEMMA NextType == TypeOK /\ [Next]_vars => TypeOK'
<1> SUFFICES ASSUME TypeOK, [Next]_vars PROVE TypeOK'
  OBVIOUS
<1> USE RitualAssumption
<1>1. ASSUME NEW r \in Ritual, Create(r) PROVE TypeOK'
  BY <1>1, Values DEF TypeOK, Create, History
<1>2. ASSUME NEW r \in Ritual, Upsert(r) PROVE TypeOK'
  <2>1. \/ rows' = [rows EXCEPT ![r] = NewRitual] /\ unsaved' = unsaved
        \/ rows' = rows /\ unsaved' = unsaved \cup {r}
    BY <1>2 DEF Upsert
  <2>2. rows' \in [Ritual -> RitualRec] /\ unsaved' \subseteq Ritual
    BY <2>1, Values DEF TypeOK
  <2>3. creating' \subseteq Ritual
        /\ UNCHANGED <<rituals, log, handle, used, restarts, issued, ended>>
    BY <1>2 DEF TypeOK, Upsert
  <2>4. QED
    BY <2>2, <2>3 DEF TypeOK
<1>3. ASSUME NEW r \in Ritual, Terminate(r) PROVE TypeOK'
  <2>1. [rows[r] EXCEPT !.state = "terminated"] \in RitualRec
        /\ [rituals[r] EXCEPT !.state = "terminated"] \in RitualRec
    BY DEF TypeOK, RitualRec
  <2>2. rows' \in [Ritual -> RitualRec] /\ unsaved' \subseteq Ritual
    BY <1>3, <2>1, UpdateRowType DEF Terminate
  <2>3. rituals' \in [Ritual -> RitualRec]
    BY <1>3, <2>1 DEF TypeOK, Terminate
  <2>4. QED
    BY <1>3, <2>2, <2>3 DEF TypeOK, Terminate
<1>4. ASSUME NEW r \in Ritual, PeerPublish(r) PROVE TypeOK'
  <2>1. PICK rec \in {"live", "garbage"} : AppendTo(r, rec)
    BY <1>4 DEF PeerPublish
  <2>2. QED
    BY <2>1, AppendToType DEF Record
<1>5. ASSUME NEW r \in Ritual, Expire(r) PROVE TypeOK'
  <2>1. PICK i \in 1..Len(log[r]) : log' = [log EXCEPT ![r][i] = "expired"]
    BY <1>5 DEF Expire
  <2>2. [log[r] EXCEPT ![i] = "expired"] \in Seq(Record)
    BY ExceptSeq DEF TypeOK, Record
  <2>3. log' \in [Ritual -> Seq(Record)]
    BY <2>1, <2>2 DEF TypeOK
  <2>4. QED
    BY <1>5, <2>3 DEF TypeOK, Expire, History
<1>6. ASSUME NEW r \in Ritual, NEW k \in Key, JoinKeyed(r, k) PROVE TypeOK'
  <2>1. PICK p \in PerformanceFor(r, k) :
          /\ rituals' = [rituals EXCEPT ![r].participants[k] = p]
          /\ used' = used \cup {p}
          /\ issued' = issued \cup {<<r, k, p>>}
          /\ IF p = rituals[r].participants[k]
               THEN UNCHANGED <<rows, unsaved>>
               ELSE UpdateRow(r, [rows[r] EXCEPT !.participants = rituals'[r].participants])
    BY <1>6 DEF JoinKeyed
  <2>2. p \in Performance
    BY <2>1 DEF PerformanceFor, TypeOK, RitualRec
  <2>3. [rituals[r] EXCEPT !.participants[k] = p] \in RitualRec
    BY <2>2 DEF TypeOK, RitualRec
  <2>4. rituals' \in [Ritual -> RitualRec]
    BY <2>1, <2>3 DEF TypeOK
  <2>5. [rows[r] EXCEPT !.participants = rituals'[r].participants] \in RitualRec
    BY <2>4 DEF TypeOK, RitualRec
  <2>6. rows' \in [Ritual -> RitualRec] /\ unsaved' \subseteq Ritual
    BY <2>1, <2>5, UpdateRowType DEF TypeOK
  <2>7. QED
    BY <1>6, <2>1, <2>2, <2>4, <2>6 DEF TypeOK, JoinKeyed
<1>7. ASSUME NEW r \in Ritual, NEW d \in Deduction, JoinDeduction(r, d) PROVE TypeOK'
  <2>1. PICK p \in {q \in Performance : q \notin used}, seed \in {"latest", "failed"} :
          /\ used' = used \cup {p}
          /\ issued' = issued \cup {<<r, None, p>>}
          /\ handle' = [handle EXCEPT ![d] =
               [ritual |-> r, performance |-> p, offset |-> StartOffset(r, seed),
                joined |-> Len(log[r]), seed |-> seed, got |-> {}, again |-> {}]]
    BY <1>7 DEF JoinDeduction
  <2>2. Len(log[r]) \in Nat /\ StartOffset(r, seed) \in Nat
    BY <2>1, LenProperties DEF StartOffset, TypeOK
  <2>3. handle' \in [Deduction -> Handle \cup {NoHandle}]
    BY <2>1, <2>2 DEF TypeOK, Handle
  <2>4. QED
    BY <1>7, <2>1, <2>3 DEF TypeOK, JoinDeduction
<1>8. ASSUME NEW d \in Deduction, Publish(d) PROVE TypeOK'
  <2>1. handle[d].ritual \in Ritual
    BY <1>8 DEF Publish, Joined, TypeOK, Handle
  <2>2. QED
    BY <1>8, <2>1, AppendToType DEF Publish, Record
<1>9. ASSUME NEW d \in Deduction, PollIncoming(d) PROVE TypeOK'
  <2>1. handle[d] \in Handle /\ Len(log[handle[d].ritual]) \in Nat
    BY <1>9, LenProperties DEF PollIncoming, Joined, TypeOK, Handle
  <2>2. PICK end \in FetchEnd(handle[d].ritual, handle[d].offset) :
          handle' = [handle EXCEPT
            ![d].offset = end,
            ![d].got = @ \cup Fetched(handle[d].ritual, handle[d].offset, end),
            ![d].again = @ \cup {i \in Fetched(handle[d].ritual, handle[d].offset, end) :
                                   \E j \in handle[d].got : j >= i}]
    BY <1>9 DEF PollIncoming
  <2>3. end \in Nat
    BY <2>1, <2>2 DEF FetchEnd, Handle
  <2>4. Fetched(handle[d].ritual, handle[d].offset, end) \subseteq Nat
    BY <2>1, <2>3 DEF Fetched, Handle
  <2>5. handle'[d] \in Handle
    BY <2>1, <2>2, <2>3, <2>4 DEF Handle, TypeOK
  <2>6. \A c \in Deduction : c # d => handle'[c] = handle[c]
    BY <2>2 DEF TypeOK
  <2>7. handle' \in [Deduction -> Handle \cup {NoHandle}]
    BY <2>2, <2>5, <2>6 DEF TypeOK
  <2>8. QED
    BY <1>9, <2>7 DEF TypeOK, PollIncoming, History
<1>10. ASSUME Restart PROVE TypeOK'
  <2>1. rituals' \in [Ritual -> RitualRec] /\ log' \in [Ritual -> Seq(Record)]
    BY <1>10, Values, EmptySeq DEF Restart, Restored, TypeOK
  <2>2. QED
    BY <1>10, <2>1 DEF Restart, TypeOK, History
<1>11. ASSUME UNCHANGED vars PROVE TypeOK'
  BY <1>11 DEF TypeOK, vars
<1>12. QED
  BY <1>1, <1>2, <1>3, <1>4, <1>5, <1>6, <1>7, <1>8, <1>9, <1>10, <1>11 DEF Next

\* The initial state is well typed.
LEMMA InitType == Init => TypeOK
BY Values, EmptySeq DEF Init, TypeOK

\* The registry, the table, the topics and the handles keep their types,
\* whatever fails and however often the server restarts.
THEOREM TypeCorrect == Spec => []TypeOK
<1>1. QED
  BY InitType, NextType, PTL DEF Spec

-----------------------------------------------------------------------------
(* The registry and the store. *)

\* An id that was never drawn names no Ritual.
FreshInv ==
  \A r \in Ritual \ used :
    rituals[r] = Absent /\ rows[r] = Absent /\ r \notin creating

\* What the table holds of a Ritual all of whose writes reached it: nothing
\* while it is being created, and then what the registry holds, unless the
\* registry could not read it.  Confirmed terminations and issued ids are in
\* the table.
WriteThrough(r) ==
  /\ r \in creating => rituals[r] = NewRitual /\ rows[r] = Absent
  /\ r \notin creating => rituals[r] = Absent \/ rituals[r] = rows[r]
  /\ r \in ended => rows[r].state = "terminated"
  /\ \A k \in Key, p \in Performance : <<r, k, p>> \in issued => rows[r].participants[k] = p

StoreInv == FreshInv /\ \A r \in Ritual \ unsaved : WriteThrough(r)

\* A step that leaves r's map entry, row, window, terminations and ids alone.
Untouched(r) ==
  /\ rituals'[r] = rituals[r] /\ rows'[r] = rows[r]
  /\ r \in creating' <=> r \in creating
  /\ r \in ended' <=> r \in ended
  /\ \A k \in Key, p \in Performance : <<r, k, p>> \in issued' <=> <<r, k, p>> \in issued

\* Such a step keeps what WriteThrough says of r.
LEMMA UntouchedKeeps ==
  ASSUME NEW r \in Ritual, WriteThrough(r), Untouched(r)
  PROVE  WriteThrough(r)'
BY DEF WriteThrough, Untouched

\* A Ritual in the map whose writes reached the table is what the table says,
\* or its row is still to be written.
LEMMA InStep ==
  ASSUME TypeOK, NEW r \in Ritual, WriteThrough(r), rituals[r].state # "absent"
  PROVE  \/ r \in creating /\ rituals[r] = NewRitual /\ rows[r] = Absent
         \/ r \notin creating /\ rituals[r] = rows[r] /\ rows[r] # Absent
BY Values DEF WriteThrough

\* create draws a new id.
LEMMA CreateKeeps ==
  ASSUME TypeOK, StoreInv, NEW r \in Ritual, Create(r)
  PROVE  StoreInv'
<1> USE Values
<1>1. FreshInv'
  BY DEF StoreInv, FreshInv, Create, TypeOK
<1>2. ASSUME NEW s \in Ritual \ unsaved', s # r PROVE WriteThrough(s)'
  <2>1. Untouched(s) /\ WriteThrough(s)
    BY <1>2 DEF Untouched, Create, TypeOK, StoreInv, History
  <2>2. QED
    BY <1>2, <2>1, UntouchedKeeps
<1>3. ASSUME r \notin unsaved' PROVE WriteThrough(r)'
  <2>1. rituals'[r] = NewRitual /\ r \in creating' /\ UNCHANGED <<rows, ended, issued>>
    BY DEF Create, TypeOK, History
  <2>2. rows[r] = Absent
    BY DEF StoreInv, FreshInv, Create
  <2>3. WriteThrough(r)
    BY <1>3 DEF StoreInv, Create, History
  <2>4. QED
    BY <2>1, <2>2, <2>3 DEF WriteThrough
<1>4. QED
  BY <1>1, <1>2, <1>3 DEF StoreInv

\* The late row of create: harmless as long as nothing came between.
LEMMA UpsertKeeps ==
  ASSUME TypeOK, StoreInv, NEW r \in Ritual, Upsert(r)
  PROVE  StoreInv'
<1> USE Values, RitualAssumption
<1>1. /\ r \in creating /\ creating' = creating \ {r}
      /\ UNCHANGED <<rituals, used, issued, ended>>
      /\ \/ rows' = [rows EXCEPT ![r] = NewRitual] /\ unsaved' = unsaved
         \/ rows' = rows /\ unsaved' = unsaved \cup {r}
  BY DEF Upsert
<1>2. FreshInv'
  <2>1. r \in used
    BY <1>1 DEF StoreInv, FreshInv
  <2>2. QED
    BY <1>1, <2>1 DEF StoreInv, FreshInv, TypeOK
<1>3. ASSUME NEW s \in Ritual \ unsaved', s # r PROVE WriteThrough(s)'
  <2>1. Untouched(s) /\ WriteThrough(s)
    BY <1>1, <1>3 DEF Untouched, TypeOK, StoreInv
  <2>2. QED
    BY <1>3, <2>1, UntouchedKeeps
<1>4. ASSUME r \notin unsaved' PROVE WriteThrough(r)'
  <2>1. rows'[r] = NewRitual /\ r \notin unsaved
    BY <1>1, <1>4 DEF TypeOK
  <2>2. WriteThrough(r)
    BY <2>1 DEF StoreInv
  <2>3. /\ r \notin ended
        /\ \A k \in Key, p \in Performance : <<r, k, p>> \notin issued
    BY <1>1, <2>2 DEF WriteThrough
  <2>4. QED
    BY <1>1, <2>1, <2>2, <2>3 DEF WriteThrough
<1>5. QED
  BY <1>2, <1>3, <1>4 DEF StoreInv

\* terminate, alone or in the middle of a create.
LEMMA TerminateKeeps ==
  ASSUME TypeOK, StoreInv, NEW r \in Ritual, Terminate(r)
  PROVE  StoreInv'
<1> USE Values
<1>1. /\ rituals[r].state # "absent"
      /\ rituals' = [rituals EXCEPT ![r].state = "terminated"]
      /\ ended' = ended \cup {r}
      /\ UNCHANGED <<creating, used, issued>>
      /\ \/ /\ rows[r] # Absent /\ unsaved' = unsaved
            /\ rows' = [rows EXCEPT ![r] = [rows[r] EXCEPT !.state = "terminated"]]
         \/ rows' = rows /\ unsaved' = unsaved \cup {r}
  BY DEF Terminate, UpdateRow
<1>2. FreshInv'
  <2>1. r \in used
    BY <1>1 DEF StoreInv, FreshInv
  <2>2. QED
    BY <1>1, <2>1 DEF StoreInv, FreshInv, TypeOK
<1>3. ASSUME NEW s \in Ritual \ unsaved', s # r PROVE WriteThrough(s)'
  <2>1. Untouched(s) /\ WriteThrough(s)
    BY <1>1, <1>3 DEF Untouched, TypeOK, StoreInv
  <2>2. QED
    BY <1>3, <2>1, UntouchedKeeps
<1>4. ASSUME r \notin unsaved' PROVE WriteThrough(r)'
  <2>1. r \notin unsaved /\ rows[r] # Absent
        /\ rows' = [rows EXCEPT ![r] = [rows[r] EXCEPT !.state = "terminated"]]
    BY <1>1, <1>4
  <2>2. WriteThrough(r)
    BY <2>1 DEF StoreInv
  <2>3. r \notin creating /\ rituals[r] = rows[r]
    BY <1>1, <2>1, <2>2, InStep
  <2>4. rows'[r] = rituals'[r] /\ rows'[r].state = "terminated"
        /\ rows'[r].participants = rows[r].participants
    BY <1>1, <2>1, <2>3 DEF TypeOK, RitualRec
  <2>5. QED
    BY <1>1, <2>2, <2>3, <2>4 DEF WriteThrough
<1>5. QED
  BY <1>2, <1>3, <1>4 DEF StoreInv

\* A keyed join: the id it answers with is in the table, or was the one there.
LEMMA JoinKeyedKeeps ==
  ASSUME TypeOK, StoreInv, NEW r \in Ritual, NEW k \in Key, JoinKeyed(r, k)
  PROVE  StoreInv'
<1> USE Values, RitualAssumption
<1>1. PICK p \in PerformanceFor(r, k) :
        /\ rituals' = [rituals EXCEPT ![r].participants[k] = p]
        /\ used' = used \cup {p}
        /\ issued' = issued \cup {<<r, k, p>>}
        /\ IF p = rituals[r].participants[k]
             THEN UNCHANGED <<rows, unsaved>>
             ELSE UpdateRow(r, [rows[r] EXCEPT !.participants = rituals'[r].participants])
  BY DEF JoinKeyed
<1>2. rituals[r].state = "active" /\ UNCHANGED <<creating, ended>>
  BY DEF JoinKeyed
<1>3. p \in Performance /\ p # None
  BY <1>1 DEF PerformanceFor, TypeOK, RitualRec
<1>4. \A s \in Ritual : s # r => rituals'[s] = rituals[s] /\ rows'[s] = rows[s]
  BY <1>1 DEF TypeOK, UpdateRow
<1>5. unsaved \subseteq unsaved'
  BY <1>1 DEF UpdateRow
<1>6. FreshInv'
  <2>1. r \in used
    BY <1>2 DEF StoreInv, FreshInv
  <2>2. QED
    BY <1>1, <1>2, <1>4, <2>1 DEF StoreInv, FreshInv
<1>7. ASSUME NEW s \in Ritual \ unsaved', s # r PROVE WriteThrough(s)'
  <2>1. Untouched(s) /\ WriteThrough(s)
    BY <1>1, <1>2, <1>4, <1>5, <1>7 DEF Untouched, StoreInv
  <2>2. QED
    BY <1>7, <2>1, UntouchedKeeps
<1>8. ASSUME r \notin unsaved' PROVE WriteThrough(r)'
  <2>1. r \notin unsaved /\ WriteThrough(r)
    BY <1>5, <1>8 DEF StoreInv
  <2>2. CASE p = rituals[r].participants[k]
    <3>1. r \notin creating /\ rituals[r] = rows[r]
      BY <1>2, <1>3, <2>1, <2>2, InStep
    <3>2. rituals'[r] = rituals[r] /\ rows' = rows
      BY <1>1, <2>2 DEF TypeOK, RitualRec
    <3>3. QED
      BY <1>1, <1>2, <2>1, <2>2, <3>1, <3>2 DEF WriteThrough
  <2>3. CASE p # rituals[r].participants[k]
    <3>1. rituals[r].participants[k] = None
      BY <1>1, <2>3 DEF PerformanceFor
    <3>2. /\ rows[r] # Absent
          /\ rows' = [rows EXCEPT ![r] = [rows[r] EXCEPT !.participants = rituals'[r].participants]]
      <4>1. UpdateRow(r, [rows[r] EXCEPT !.participants = rituals'[r].participants])
        BY <1>1, <2>3
      <4>2. unsaved' # unsaved \cup {r}
        BY <1>8
      <4>3. QED
        BY <4>1, <4>2 DEF UpdateRow
    <3>3. r \notin creating /\ rituals[r] = rows[r]
      BY <1>2, <2>1, <3>2, InStep
    <3>4. rituals'[r] = [state |-> rituals[r].state,
                         participants |-> [rituals[r].participants EXCEPT ![k] = p]]
      BY <1>1 DEF TypeOK, RitualRec
    <3>5. rows'[r] = rituals'[r]
      <4>1. rows'[r] = [rows[r] EXCEPT !.participants = rituals'[r].participants]
        BY <3>2 DEF TypeOK
      <4>2. rows'[r] = [state |-> rows[r].state, participants |-> rituals'[r].participants]
        BY <4>1 DEF TypeOK, RitualRec
      <4>3. QED
        BY <3>3, <3>4, <4>2
    <3>6. ASSUME NEW j \in Key, NEW q \in Performance, <<r, j, q>> \in issued'
          PROVE  rows'[r].participants[j] = q
      <4>1. CASE j = k
        <5>1. <<r, k, q>> \notin issued \/ q = None
          BY <2>1, <3>1, <3>3 DEF WriteThrough
        <5>2. q = p
          BY <1>1, <3>6, <4>1, <5>1
        <5>3. QED
          BY <3>4, <3>5, <4>1, <5>2 DEF TypeOK, RitualRec
      <4>2. CASE j # k
        <5>1. rows[r].participants[j] = q
          BY <1>1, <2>1, <3>6, <4>2 DEF WriteThrough
        <5>2. QED
          BY <3>3, <3>4, <3>5, <4>2, <5>1 DEF TypeOK, RitualRec
      <4>3. QED
        BY <4>1, <4>2
    <3>7. rows'[r].state = rows[r].state
      BY <3>3, <3>4, <3>5
    <3>8. QED
      BY <1>2, <2>1, <3>3, <3>5, <3>6, <3>7 DEF WriteThrough
  <2>4. QED
    BY <2>2, <2>3
<1>9. QED
  BY <1>6, <1>7, <1>8 DEF StoreInv

\* A restart reads the table, or nothing.
LEMMA RestartKeeps ==
  ASSUME TypeOK, StoreInv, Restart
  PROVE  StoreInv'
<1> USE Values
<1>1. /\ rituals' = rows \/ rituals' = [r \in Ritual |-> Absent]
      /\ creating' = {} /\ UNCHANGED <<rows, used, issued, ended, unsaved>>
  BY DEF Restart, Restored, History
<1>2. FreshInv'
  BY <1>1 DEF StoreInv, FreshInv
<1>3. ASSUME NEW r \in Ritual \ unsaved' PROVE WriteThrough(r)'
  BY <1>1, <1>3 DEF StoreInv, WriteThrough
<1>4. QED
  BY <1>2, <1>3 DEF StoreInv

\* Every step keeps the registry and the store in agreement.
LEMMA NextStore == TypeOK /\ StoreInv /\ [Next]_vars => StoreInv'
<1> SUFFICES ASSUME TypeOK, StoreInv, [Next]_vars PROVE StoreInv'
  OBVIOUS
<1>1. ASSUME UNCHANGED <<rituals, rows, creating, used, issued, ended, unsaved>> PROVE StoreInv'
  BY <1>1 DEF StoreInv, FreshInv, WriteThrough
<1>2. ASSUME NEW r \in Ritual, NEW rec, AppendTo(r, rec) PROVE StoreInv'
  BY <1>1, <1>2 DEF AppendTo, History
<1>3. ASSUME NEW r \in Ritual, NEW d \in Deduction, JoinDeduction(r, d) PROVE StoreInv'
  <2>1. PICK p \in Performance : used' = used \cup {p} /\ issued' = issued \cup {<<r, None, p>>}
    BY <1>3 DEF JoinDeduction
  <2>2. UNCHANGED <<rituals, rows, creating, ended, unsaved>>
    BY <1>3 DEF JoinDeduction
  <2>3. \A s \in Ritual, k \in Key, q \in Performance :
          <<s, k, q>> \in issued' <=> <<s, k, q>> \in issued
    BY <2>1, RitualAssumption
  <2>4. FreshInv'
    BY <2>1, <2>2 DEF StoreInv, FreshInv
  <2>5. ASSUME NEW s \in Ritual \ unsaved' PROVE WriteThrough(s)'
    BY <2>2, <2>3, <2>5, UntouchedKeeps DEF Untouched, StoreInv
  <2>6. QED
    BY <2>4, <2>5 DEF StoreInv
<1>4. ASSUME NEW r \in Ritual, PeerPublish(r) PROVE StoreInv'
  BY <1>2, <1>4 DEF PeerPublish
<1>5. ASSUME NEW r \in Ritual, Expire(r) PROVE StoreInv'
  BY <1>1, <1>5 DEF Expire, History
<1>6. ASSUME NEW d \in Deduction, Publish(d) PROVE StoreInv'
  <2>1. UNCHANGED <<rituals, rows, creating, used, issued, ended, unsaved>>
    BY <1>6 DEF Publish, AppendTo, History
  <2>2. QED
    BY <1>1, <2>1
<1>7. ASSUME NEW d \in Deduction, PollIncoming(d) PROVE StoreInv'
  BY <1>1, <1>7 DEF PollIncoming, History
<1>8. ASSUME UNCHANGED vars PROVE StoreInv'
  BY <1>1, <1>8 DEF vars
<1>9. QED
  BY <1>3, <1>4, <1>5, <1>6, <1>7, <1>8, CreateKeeps, UpsertKeeps, TerminateKeeps,
     JoinKeyedKeeps, RestartKeeps DEF Next

\* Nothing is known and nothing is stored at first.
LEMMA InitStore == Init => StoreInv
BY Values DEF Init, StoreInv, FreshInv, WriteThrough

\* The invariant at work: two answers to one key are both what the table says.
LEMMA StoreIdentity == StoreInv => KeyedIdentity
BY DEF StoreInv, WriteThrough, KeyedIdentity

\* The invariant at work: a confirmed termination keeps every join out.
LEMMA StepClosed ==
  ASSUME TypeOK, StoreInv, [Next]_vars,
         NEW r \in ended \ unsaved, NEW k \in Key \cup {None}, NEW p \in Performance,
         <<r, k, p>> \in issued'
  PROVE  <<r, k, p>> \in issued
<1>1. r \in Ritual /\ WriteThrough(r)
  BY DEF TypeOK, StoreInv
<1>2. rituals[r].state # "active"
  BY <1>1, Values DEF WriteThrough
<1>3. ASSUME NEW s \in Ritual, NEW j \in Key, JoinKeyed(s, j) PROVE <<r, k, p>> \in issued
  BY <1>2, <1>3 DEF JoinKeyed
<1>4. ASSUME NEW s \in Ritual, NEW d \in Deduction, JoinDeduction(s, d) PROVE <<r, k, p>> \in issued
  BY <1>2, <1>4 DEF JoinDeduction
<1>5. CASE UNCHANGED issued
  BY <1>5
<1>6. QED
  <2>1. CASE Restart
    BY <1>5, <2>1 DEF Restart, History
  <2>2. ASSUME NEW d \in Deduction, Publish(d) \/ PollIncoming(d) PROVE <<r, k, p>> \in issued
    BY <1>5, <2>2 DEF Publish, AppendTo, PollIncoming, History
  <2>3. ASSUME NEW s \in Ritual,
               Create(s) \/ Upsert(s) \/ Terminate(s) \/ PeerPublish(s) \/ Expire(s)
        PROVE <<r, k, p>> \in issued
    BY <1>5, <2>3 DEF Create, Upsert, Terminate, PeerPublish, AppendTo, Expire, History
  <2>4. CASE UNCHANGED vars
    BY <1>5, <2>4 DEF vars
  <2>5. QED
    BY <1>3, <1>4, <2>1, <2>2, <2>3, <2>4 DEF Next

\* A participant key keeps its performance id over any joins, restarts and
\* failed reads of the table, as long as the writes of its Ritual succeeded.
THEOREM KeyedIdentityHolds == Spec => []KeyedIdentity
<1>1. Init => TypeOK /\ StoreInv
  BY InitType, InitStore
<1>2. TypeOK /\ StoreInv /\ [Next]_vars => (TypeOK /\ StoreInv)'
  BY NextType, NextStore
<1>3. QED
  BY <1>1, <1>2, StoreIdentity, PTL DEF Spec

\* After a confirmed termination no join succeeds again, before or after a
\* restart, as long as the writes of the Ritual succeeded.
THEOREM TerminatedClosedHolds == Spec => TerminatedClosed
<1>1. Init => TypeOK /\ StoreInv
  BY InitType, InitStore
<1>2. TypeOK /\ StoreInv /\ [Next]_vars => (TypeOK /\ StoreInv)'
  BY NextType, NextStore
<1>3. TypeOK /\ StoreInv /\ [Next]_vars =>
        [\A r \in ended \ unsaved, k \in Key \cup {None}, p \in Performance :
           <<r, k, p>> \in issued' => <<r, k, p>> \in issued]_vars
  BY StepClosed
<1>4. QED
  BY <1>1, <1>2, <1>3, PTL DEF Spec, TerminatedClosed

-----------------------------------------------------------------------------
(* Handles. *)

\* A handle lies within its topic and has returned what it should: every
\* envelope alive between its join and its offset, each once, and none older
\* than its join if it was seeded with the latest offset.
HandleInv(d) ==
  /\ handle[d].offset <= Len(log[handle[d].ritual])
  /\ handle[d].again = {}
  /\ handle[d].got \subseteq 1..handle[d].offset
  /\ handle[d].seed = "latest" =>
       /\ handle[d].joined <= handle[d].offset
       /\ \A i \in handle[d].got : i > handle[d].joined
  /\ \A i \in (handle[d].joined + 1)..handle[d].offset :
       log[handle[d].ritual][i] = "live" => i \in handle[d].got

HandlesInv == \A d \in Deduction : Joined(d) => HandleInv(d)

\* A handle that is held is a handle.
LEMMA HeldHandle ==
  ASSUME TypeOK, NEW d \in Deduction, Joined(d)
  PROVE  /\ handle[d] \in Handle /\ handle[d].ritual \in Ritual
         /\ log[handle[d].ritual] \in Seq(Record)
         /\ Len(log[handle[d].ritual]) \in Nat
<1>1. handle[d] \in Handle /\ handle[d].ritual \in Ritual
  BY DEF TypeOK, Joined, Handle
<1>2. QED
  BY <1>1, LenProperties DEF TypeOK

\* Topics that only grow, with envelopes that only expire, disturb no handle.
LEMMA LogGrows ==
  ASSUME TypeOK, HandlesInv, UNCHANGED handle,
         \A r \in Ritual : /\ Len(log'[r]) \in Nat /\ Len(log'[r]) >= Len(log[r])
                           /\ \A i \in 1..Len(log[r]) :
                                log'[r][i] = "live" => log[r][i] = "live"
  PROVE  HandlesInv'
<1> SUFFICES ASSUME NEW d \in Deduction, Joined(d)' PROVE HandleInv(d)'
  BY DEF HandlesInv
<1>1. Joined(d) /\ handle'[d] = handle[d]
  BY DEF Joined
<1>2. HandleInv(d)
  BY <1>1 DEF HandlesInv
<1>3. /\ handle[d] \in Handle /\ handle[d].ritual \in Ritual
      /\ Len(log[handle[d].ritual]) \in Nat
  BY <1>1, HeldHandle
<1>4. handle[d].joined \in Nat /\ handle[d].offset \in Nat
  BY <1>3 DEF Handle
<1>5. handle[d].offset <= Len(log'[handle[d].ritual])
  BY <1>2, <1>3, <1>4 DEF HandleInv
<1>6. ASSUME NEW i \in (handle[d].joined + 1)..handle[d].offset,
             log'[handle[d].ritual][i] = "live"
      PROVE  i \in handle[d].got
  <2>1. i \in 1..Len(log[handle[d].ritual])
    BY <1>2, <1>3, <1>4 DEF HandleInv
  <2>2. log[handle[d].ritual][i] = "live"
    BY <1>3, <1>6, <2>1
  <2>3. QED
    BY <1>2, <2>2 DEF HandleInv
<1>7. QED
  BY <1>1, <1>2, <1>5, <1>6 DEF HandleInv

\* An append is such a growth.
LEMMA AppendGrows ==
  ASSUME TypeOK, HandlesInv, NEW r \in Ritual, NEW rec \in Record, AppendTo(r, rec)
  PROVE  HandlesInv'
<1>1. UNCHANGED handle /\ log' = [log EXCEPT ![r] = Append(log[r], rec)]
  BY DEF AppendTo
<1>2. ASSUME NEW s \in Ritual
      PROVE  /\ Len(log'[s]) \in Nat /\ Len(log'[s]) >= Len(log[s])
             /\ \A i \in 1..Len(log[s]) : log'[s][i] = log[s][i]
  <2>1. log[s] \in Seq(Record) /\ Len(log[s]) \in Nat
    BY LenProperties DEF TypeOK
  <2>2. CASE s = r
    <3>1. log'[s] = Append(log[s], rec)
      BY <1>1, <2>2 DEF TypeOK
    <3>2. QED
      BY <2>1, <3>1, AppendProperties
  <2>3. CASE s # r
    BY <1>1, <2>1, <2>3 DEF TypeOK
  <2>4. QED
    BY <2>2, <2>3
<1>3. QED
  BY <1>1, <1>2, LogGrows

\* An expiry is one too.
LEMMA ExpireGrows ==
  ASSUME TypeOK, HandlesInv, NEW r \in Ritual, Expire(r)
  PROVE  HandlesInv'
<1>1. PICK i \in 1..Len(log[r]) : log' = [log EXCEPT ![r] = [log[r] EXCEPT ![i] = "expired"]]
  BY DEF Expire
<1>2. ASSUME NEW s \in Ritual
      PROVE  /\ Len(log'[s]) \in Nat /\ Len(log'[s]) >= Len(log[s])
             /\ \A j \in 1..Len(log[s]) : log'[s][j] = "live" => log[s][j] = "live"
  <2>1. log[s] \in Seq(Record) /\ Len(log[s]) \in Nat
    BY LenProperties DEF TypeOK
  <2>2. CASE s = r
    <3>1. log'[s] = [log[s] EXCEPT ![i] = "expired"]
      BY <1>1, <2>2 DEF TypeOK
    <3>2. "expired" \in Record /\ i \in 1..Len(log[s])
      BY <1>1, <2>2 DEF Record
    <3>3. /\ Len(log'[s]) = Len(log[s])
          /\ \A j \in 1..Len(log[s]) : log'[s][j] = IF j = i THEN "expired" ELSE log[s][j]
      BY <2>1, <3>1, <3>2, ExceptSeq
    <3>4. QED
      BY <2>1, <3>3
  <2>3. CASE s # r
    BY <1>1, <2>1, <2>3 DEF TypeOK
  <2>4. QED
    BY <2>2, <2>3
<1>3. UNCHANGED handle
  BY DEF Expire
<1>4. QED
  BY <1>2, <1>3, LogGrows

\* A new handle has returned nothing and starts at the end, or at 0.
LEMMA JoinHandle ==
  ASSUME TypeOK, HandlesInv, NEW r \in Ritual, NEW d \in Deduction, JoinDeduction(r, d)
  PROVE  HandlesInv'
<1>1. PICK p \in Performance, seed \in {"latest", "failed"} :
        handle' = [handle EXCEPT ![d] =
          [ritual |-> r, performance |-> p, offset |-> StartOffset(r, seed),
           joined |-> Len(log[r]), seed |-> seed, got |-> {}, again |-> {}]]
  BY DEF JoinDeduction
<1>2. UNCHANGED log
  BY DEF JoinDeduction
<1>3. Len(log[r]) \in Nat
  BY LenProperties DEF TypeOK
<1>4. /\ StartOffset(r, seed) \in {0, Len(log[r])}
      /\ seed = "latest" => StartOffset(r, seed) = Len(log[r])
  BY DEF StartOffset
<1>5. HandleInv(d)'
  <2> DEFINE o == StartOffset(r, seed)
  <2>1. handle'[d] = [ritual |-> r, performance |-> p, offset |-> o,
                      joined |-> Len(log[r]), seed |-> seed, got |-> {}, again |-> {}]
    BY <1>1 DEF TypeOK
  <2>2. /\ o \in Nat /\ o <= Len(log[r]) /\ (Len(log[r]) + 1)..o = {}
        /\ seed = "latest" => Len(log[r]) <= o
    BY <1>3, <1>4
  <2> HIDE DEF o
  <2>3. QED
    BY <1>2, <1>3, <2>1, <2>2 DEF HandleInv
<1>6. ASSUME NEW c \in Deduction, c # d, Joined(c)' PROVE HandleInv(c)'
  <2>1. handle'[c] = handle[c]
    BY <1>1, <1>6 DEF TypeOK
  <2>2. QED
    BY <1>2, <1>6, <2>1 DEF HandlesInv, HandleInv, Joined
<1>7. QED
  BY <1>5, <1>6 DEF HandlesInv

\* A poll returns what lies between the old offset and the new one.
LEMMA PollHandle ==
  ASSUME TypeOK, HandlesInv, NEW d \in Deduction, PollIncoming(d)
  PROVE  HandlesInv'
<1> DEFINE h == handle[d]
           topic == log[handle[d].ritual]
           new(end) == Fetched(handle[d].ritual, handle[d].offset, end)
<1>1. /\ h \in Handle /\ h.ritual \in Ritual /\ Len(topic) \in Nat /\ HandleInv(d)
      /\ UNCHANGED log
  BY HeldHandle DEF PollIncoming, HandlesInv
<1>2. PICK end \in FetchEnd(h.ritual, h.offset) :
        handle' = [handle EXCEPT
          ![d].offset = end, ![d].got = @ \cup new(end),
          ![d].again = @ \cup {i \in new(end) : \E j \in handle[d].got : j >= i}]
  BY DEF PollIncoming
<1>3. h.offset \in Nat /\ h.joined \in Nat
  BY <1>1 DEF Handle
<1>4. end \in Nat /\ h.offset <= end /\ end <= Len(topic)
  BY <1>1, <1>2, <1>3 DEF FetchEnd, HandleInv
<1>5. new(end) = {i \in (h.offset + 1)..end : topic[i] = "live"}
  BY DEF Fetched
<1>6. {i \in new(end) : \E j \in h.got : j >= i} = {}
  <2>1. \A j \in h.got : j \in Int /\ j <= h.offset
    BY <1>1, <1>3 DEF HandleInv
  <2>2. \A i \in new(end) : i \in Int /\ i > h.offset
    BY <1>3, <1>4, <1>5
  <2>3. QED
    BY <1>3, <2>1, <2>2
<1>7. handle'[d] = [h EXCEPT !.offset = end, !.got = @ \cup new(end),
                             !.again = @ \cup {i \in new(end) : \E j \in handle[d].got : j >= i}]
  BY <1>2 DEF TypeOK
<1>8. /\ handle'[d].offset = end /\ handle'[d].got = h.got \cup new(end)
      /\ handle'[d].again = {} /\ handle'[d].seed = h.seed
      /\ handle'[d].joined = h.joined /\ handle'[d].ritual = h.ritual
  <2>1. h.again = {}
    BY <1>1 DEF HandleInv
  <2>2. QED
    BY <1>1, <1>6, <1>7, <2>1 DEF Handle
<1>9. HandleInv(d)'
  <2>1. h.got \cup new(end) \subseteq 1..end
    <3>1. h.got \subseteq 1..h.offset
      BY <1>1 DEF HandleInv
    <3>2. QED
      BY <1>3, <1>4, <1>5, <3>1
  <2>2. ASSUME NEW i \in (h.joined + 1)..end, topic[i] = "live"
        PROVE  i \in h.got \cup new(end)
    <3>1. CASE i <= h.offset
      <4>1. i \in (h.joined + 1)..h.offset
        BY <1>3, <1>4, <3>1
      <4>2. QED
        BY <1>1, <2>2, <4>1 DEF HandleInv
    <3>2. CASE i > h.offset
      BY <1>3, <1>4, <1>5, <2>2, <3>2
    <3>3. QED
      BY <1>3, <1>4, <3>1, <3>2
  <2>3. ASSUME h.seed = "latest"
        PROVE  h.joined <= end /\ \A i \in h.got \cup new(end) : i > h.joined
    BY <1>1, <1>3, <1>4, <1>5, <2>3 DEF HandleInv
  <2>4. QED
    BY <1>1, <1>4, <1>8, <2>1, <2>2, <2>3 DEF HandleInv
<1>10. ASSUME NEW c \in Deduction, c # d, Joined(c)' PROVE HandleInv(c)'
  <2>1. handle'[c] = handle[c]
    BY <1>2, <1>10 DEF TypeOK
  <2>2. QED
    BY <1>1, <1>10, <2>1 DEF HandlesInv, HandleInv, Joined
<1>11. QED
  BY <1>9, <1>10 DEF HandlesInv

\* Every step keeps every handle right.
LEMMA NextHandles == TypeOK /\ HandlesInv /\ [Next]_vars => HandlesInv'
<1> SUFFICES ASSUME TypeOK, HandlesInv, [Next]_vars PROVE HandlesInv'
  OBVIOUS
<1>1. ASSUME UNCHANGED <<log, handle>> PROVE HandlesInv'
  BY <1>1 DEF HandlesInv, HandleInv, Joined
<1>2. ASSUME NEW r \in Ritual, Create(r) \/ Upsert(r) \/ Terminate(r) PROVE HandlesInv'
  BY <1>1, <1>2 DEF Create, Upsert, Terminate
<1>3. ASSUME NEW r \in Ritual, NEW k \in Key, JoinKeyed(r, k) PROVE HandlesInv'
  BY <1>1, <1>3 DEF JoinKeyed
<1>4. ASSUME NEW r \in Ritual, PeerPublish(r) PROVE HandlesInv'
  <2>1. PICK rec \in {"live", "garbage"} : AppendTo(r, rec)
    BY <1>4 DEF PeerPublish
  <2>2. QED
    BY <2>1, AppendGrows DEF Record
<1>5. ASSUME NEW d \in Deduction, Publish(d) PROVE HandlesInv'
  <2>1. handle[d].ritual \in Ritual /\ AppendTo(handle[d].ritual, "live")
    BY <1>5, HeldHandle DEF Publish
  <2>2. QED
    BY <2>1, AppendGrows DEF Record
<1>6. ASSUME Restart PROVE HandlesInv'
  BY <1>6 DEF Restart, HandlesInv, Joined
<1>7. ASSUME UNCHANGED vars PROVE HandlesInv'
  BY <1>1, <1>7 DEF vars
<1>8. QED
  BY <1>2, <1>3, <1>4, <1>5, <1>6, <1>7, ExpireGrows, JoinHandle, PollHandle DEF Next

\* A deduction's handle returns every live envelope published since it joined,
\* in order and once, with either broker, partial fetches, garbage and expiry,
\* and nothing older unless latest_offset failed when it joined.
THEOREM DeliveryHolds == Spec => []Delivery
<1>1. Init => TypeOK /\ HandlesInv
  BY InitType DEF Init, HandlesInv, Joined
<1>2. TypeOK /\ HandlesInv /\ [Next]_vars => (TypeOK /\ HandlesInv)'
  BY NextType, NextHandles
<1>3. TypeOK /\ HandlesInv => Delivery
  <2> SUFFICES ASSUME TypeOK, HandlesInv, NEW d \in Deduction, Joined(d)
               PROVE  \A i \in handle[d].got : i <= handle[d].offset
    BY DEF HandlesInv, HandleInv, Delivery
  <2>1. handle[d].offset \in Nat /\ handle[d].got \subseteq 1..handle[d].offset
    BY HeldHandle DEF Handle, HandlesInv, HandleInv
  <2>2. QED
    BY <2>1
<1>4. QED
  BY <1>1, <1>2, <1>3, PTL DEF Spec

=============================================================================
