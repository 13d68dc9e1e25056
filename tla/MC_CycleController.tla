------------------------ MODULE MC_CycleController ------------------------
(* Small instances of CycleController for TLC. *)
EXTENDS CycleController, TLC

Env(p, l, c, to, sealed) ==
  [perf |-> p, label |-> l, cid |-> c, to |-> to, sealed |-> sealed]

\* What can settle an Offering or seem to (a reply that names it, one that
\* names none, a Hohi another performance addressed here, perhaps under the
\* Offering's id), and what must pass by (an encrypted reply, our own
\* Offering's echo, mail for another node).
Traffic ==
  {Env("own", "hohi", c, "none", FALSE) : c \in CorrCid}
  \cup {Env("own", "tabu", NoCid, "none", FALSE), Env("other", "hohi", NoCid, "me", FALSE)}
  \cup {Env("own", "hohi", c, "none", TRUE) : c \in CorrCid}
  \cup {Env("other", "hohi", c, "me", FALSE) : c \in CorrCid}
  \cup {Env("own", "offering", c, "other", FALSE) : c \in CorrCid}
  \cup {Env("other", "offering", NoCid, "other", FALSE)}

\* Replies alone.
Replies == {t \in Traffic : t.perf = "own" /\ t.label # "offering" /\ ~t.sealed}
=============================================================================
