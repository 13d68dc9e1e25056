------------------------------- MODULE Coire -------------------------------
(***************************************************************************)
(* The Coire: event mailboxes shared by the Prolog and the CLIPS engine of *)
(* a deduction (clara-coire/src/coire.rs).  This module holds the data of  *)
(* one mailbox and its polls; the modules that extend it keep the          *)
(* mailboxes as variables.                                                 *)
(*                                                                         *)
(* A mailbox is the set of its distinct pending events.  Every consumer    *)
(* takes all the events that match its origin filter in one locked step,   *)
(* and the code compares pending counts only with zero, so two equal       *)
(* events behave as one.  Events that were marked processed are dropped:   *)
(* no poll returns them and clear_session deletes them.                    *)
(***************************************************************************)
CONSTANTS
  CorrCid,    \* correlation ids minted by caws_offer (echoed by the reply)
  LegacyCid,  \* ids the controller mints for offers without a _caws block
  NoCid       \* "carries no correlation id of this deduction"

ASSUME CidAssumption ==
  /\ CorrCid \cap LegacyCid = {}
  /\ NoCid \notin CorrCid \cup LegacyCid

Cid == CorrCid \cup LegacyCid

(***************************************************************************)
(* An origin stands for the prefix the polls select on: "relay" for        *)
(* relay-prolog:* and relay-clips:*, "ritual" for ritual/*, "evaluator"    *)
(* for evaluator/*, "external" for any other.  A label stands for what the *)
(* payload is; "pushed" is an API client's, whatever origin it gives.      *)
(***************************************************************************)
Origins == {"prolog", "clips", "relay", "ritual", "evaluator", "external"}

Labels == {"data", "offering", "legacy", "squawk", "hohi", "tabu", "tabu-timeout",
           "pushed"}

ClaraEvent == [origin : Origins, label : Labels, cid : Cid \cup {NoCid}]

Event(o, l, c) == [origin |-> o, label |-> l, cid |-> c]

\* What poll_pending_with_origin_prefix returns from a mailbox and marks
\* processed; count_pending_with_origin_prefix counts the same set.
WithOrigin(box, o) == {e \in box : e.origin = o}

\* What poll_pending_excluding_origin_prefix returns: the complement.
ExcludingOrigin(box, o) == {e \in box : e.origin # o}
=============================================================================
