-------------------------- MODULE ConsultProtocol --------------------------
(***************************************************************************)
(* What a deduction run promises about the Offerings it sends to peer      *)
(* evaluators, whatever the network does: an Offering that expects a reply *)
(* gets at most one outcome (a Hohi, a Tabu, or a timeout), the outcome    *)
(* never changes, and the run converges only when no Offering is open.     *)
(* CycleController implements this specification.                          *)
(***************************************************************************)
CONSTANT Offer          \* the Offerings of one run

VARIABLES
  st,                   \* st[o]: how far Offering o has come
  run                   \* "running", "converged" or "stopped"

pvars == <<st, run>>

Outcome == {"hohi", "tabu", "tabu-timeout"}

PTypeOK ==
  /\ st \in [Offer -> {"idle", "open"} \cup Outcome]
  /\ run \in {"running", "converged", "stopped"}

PInit ==
  /\ st = [o \in Offer |-> "idle"]
  /\ run = "running"

\* Some Offerings that were never sent go out together.
Send ==
  /\ run = "running"
  /\ \E S \in SUBSET {o \in Offer : st[o] = "idle"} :
       st' = [o \in Offer |-> IF o \in S THEN "open" ELSE st[o]]
  /\ UNCHANGED run

\* A peer's reply settles one open Offering.
Reply ==
  /\ run = "running"
  /\ \E o \in Offer, l \in {"hohi", "tabu"} :
       /\ st[o] = "open"
       /\ st' = [st EXCEPT ![o] = l]
  /\ UNCHANGED run

\* The Offerings whose patience is exhausted expire; the run goes on.
Expire ==
  /\ run = "running"
  /\ \E S \in SUBSET {o \in Offer : st[o] = "open"} :
       st' = [o \in Offer |-> IF o \in S THEN "tabu-timeout" ELSE st[o]]
  /\ UNCHANGED run

\* The run converges, with every Offering it sent settled.
Converge ==
  /\ run = "running"
  /\ \A o \in Offer : st[o] # "open"
  /\ run' = "converged"
  /\ UNCHANGED st

\* The run ends in any other way: interrupt, cycle budget, engine error.
Stop ==
  /\ run = "running"
  /\ run' = "stopped"
  /\ UNCHANGED st

PNext == Send \/ Reply \/ Expire \/ Converge \/ Stop

PSpec == PInit /\ [][PNext]_pvars
=============================================================================
