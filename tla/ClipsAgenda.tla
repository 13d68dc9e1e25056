---------------------------- MODULE ClipsAgenda ----------------------------
(***************************************************************************)
(* The agenda of the CLIPS engine that every deduction and every           *)
(* interactive session embeds: the activations of each module as one list, *)
(* the salience groups that index it, the seven conflict resolution        *)
(* strategies, the focus stack, and the run loop that fires rules.         *)
(*                                                                         *)
(* A partial match is a constant with its rule, and an activation is named *)
(* by its match: the marker of a match points to at most one activation.   *)
(* The join network (which matches exist) and the right-hand sides (what   *)
(* they call) are nondeterministic.                                        *)
(***************************************************************************)
EXTENDS Integers, Sequences, FiniteSets, SequencesExt

CONSTANTS
  Rule, Match, Module,
  MAIN, None,
  RuleOf,       \* the rule of a match
  ModuleOf,     \* the module of a rule
  Complexity,   \* the complexity of a rule
  Basis,        \* entity time tags of a match, by pattern; 0 for a negated one
  AutoFocus,    \* rules declared auto-focus
  Dynamic,      \* rules whose salience is an expression
  Salience,     \* values such an expression takes; None for an error
  Strategy, Evaluation,   \* the evaluation scripts choose
  GenRand,      \* the random number the n-th activation is given
  Limit,        \* arguments of (run): -1 for none
  MaxTag, MaxFocus        \* bounds: activations made, depth of the focus stack

ASSUME AgendaAssumption ==
  /\ MAIN \in Module /\ None \notin Match
  /\ RuleOf \in [Match -> Rule] /\ ModuleOf \in [Rule -> Module]
  /\ Complexity \in [Rule -> Nat] /\ Basis \in [Match -> Seq(Nat)]
  /\ \A m \in Match : Basis[m] # <<>>
  /\ AutoFocus \subseteq Rule /\ Dynamic \subseteq Rule
  /\ Salience \subseteq Int \cup {None} /\ GenRand \in [1..MaxTag -> Nat]
  /\ "depth" \in Strategy /\ "when-defined" \in Evaluation
  /\ Strategy \subseteq {"depth", "breadth", "lex", "mea", "complexity",
                         "simplicity", "random"}
  /\ Evaluation \subseteq {"when-defined", "when-activated", "every-cycle"}
  /\ Limit \subseteq Int /\ \A l \in Limit : l >= -1
  /\ MaxTag \in Nat \ {0} /\ MaxFocus \in Nat \ {0}

VARIABLES
  net,        \* what assert, retract and the agenda commands work on:
              \*   agenda    the list and the salience groups of each module
              \*   act       time tag, salience and random id of an activation
              \*   clock     CurrentTimetag
              \*   count     NumberOfActivations
              \*   marker    matches whose marker points to an activation
              \*   salience  the last salience evaluated for each rule
              \*   focus     the focus stack, current focus first
              \*   halt      HaltExecution
              \*   strategy  the conflict resolution strategy
  matches,    \* the complete matches the join network holds
  evaluation,
  pc,         \* "idle", "loop" (before a firing) or "rhs" (in one)
  firing,     \* the match whose rule executes
  runLimit,   \* firings left, -1 without a limit
  haltRules,  \* HaltRules: (halt) was called
  returned,   \* ReturnFlag: (return) was called
  spent       \* history: matches that have fired and were not refreshed since

vars == <<net, matches, evaluation, pc, firing, runLimit,
          haltRules, returned, spent>>

runVars  == <<pc, firing, runLimit, haltRules, returned>>

Group == [salience : Int, first : Match, last : Match]

Home(m) == ModuleOf[RuleOf[m]]

TypeOK ==
  /\ net.agenda \in [Module -> [list : Seq(Match), groups : Seq(Group)]]
  /\ net.act \in [Match -> [tag : Nat, salience : Int, random : Nat]]
  /\ net.clock \in 1..MaxTag + 1 /\ net.count \in Nat
  /\ net.marker \subseteq Match
  /\ net.salience \in [Rule -> Int]
  /\ net.focus \in Seq(Module) /\ net.halt \in BOOLEAN
  /\ matches \subseteq Match
  /\ net.strategy \in Strategy /\ evaluation \in Evaluation
  /\ pc \in {"idle", "loop", "rhs"} /\ firing \in Match \cup {None}
  /\ runLimit \in Int /\ runLimit >= -1
  /\ haltRules \in BOOLEAN /\ returned \in BOOLEAN
  /\ spent \subseteq Match

EmptyAgenda == [list |-> <<>>, groups |-> <<>>]

Free == [tag |-> 0, salience |-> 0, random |-> 0]

Init ==
  /\ net = [agenda   |-> [d \in Module |-> EmptyAgenda],
            act      |-> [m \in Match |-> Free],
            clock    |-> 1, count |-> 0, marker |-> {},
            salience |-> [r \in Rule |-> 0],
            focus    |-> <<MAIN>>, halt |-> FALSE, strategy |-> "depth"]
  /\ matches = {} /\ spent = {}
  /\ evaluation = "when-defined"
  /\ pc = "idle" /\ firing = None /\ runLimit = -1
  /\ haltRules = FALSE /\ returned = FALSE

-----------------------------------------------------------------------------
(* Conflict resolution: where an activation goes within its salience group. *)

\* The time tags of a match, most recent first.
SortPartialMatch(m) ==
  LET b == Basis[m]
      p == CHOOSE q \in SetToSeqs(DOMAIN b) :
             \A i, j \in DOMAIN b : i < j => b[q[i]] >= b[q[j]]
  IN [i \in DOMAIN b |-> b[p[i]]]

\* ComparePartialMatches says LESS_THAN for the new match: lexicographically
\* less recent, or as recent and of a less complex rule.
LessRecent(new, old) ==
  LET s == SortPartialMatch(new)
      t == SortPartialMatch(old)
  IN \/ \E i \in DOMAIN s \cap DOMAIN t : s[i] < t[i] /\ \A k \in 1..i - 1 : s[k] = t[k]
     \/ Len(s) < Len(t) /\ \A k \in DOMAIN s : s[k] = t[k]
     \/ s = t /\ Complexity[RuleOf[new]] < Complexity[RuleOf[old]]

\* A search of the group moves past old: new belongs after it.  One for each
\* strategy; ties go by time tag.
Newer(n, new, old) == n.act[new].tag > n.act[old].tag

DepthAfter(n, new, old) == Newer(n, old, new)

BreadthAfter(n, new, old) == ~Newer(n, old, new)

LEXAfter(n, new, old) ==
  \/ LessRecent(new, old)
  \/ ~LessRecent(old, new) /\ Newer(n, new, old)

\* By the time tag of the first pattern, then as lex.
MEAAfter(n, new, old) ==
  \/ Basis[new][1] < Basis[old][1]
  \/ Basis[new][1] = Basis[old][1] /\ LEXAfter(n, new, old)

ComplexityAfter(n, new, old) ==
  LET c == Complexity[RuleOf[new]]
      d == Complexity[RuleOf[old]]
  IN c < d \/ (c = d /\ Newer(n, new, old))

SimplicityAfter(n, new, old) ==
  LET c == Complexity[RuleOf[new]]
      d == Complexity[RuleOf[old]]
  IN c > d \/ (c = d /\ Newer(n, new, old))

RandomAfter(n, new, old) ==
  LET x == n.act[new].random
      y == n.act[old].random
  IN x > y \/ (x = y /\ Newer(n, new, old))

After(n, new, old) ==
  CASE n.strategy = "depth"      -> DepthAfter(n, new, old)
    [] n.strategy = "breadth"    -> BreadthAfter(n, new, old)
    [] n.strategy = "lex"        -> LEXAfter(n, new, old)
    [] n.strategy = "mea"        -> MEAAfter(n, new, old)
    [] n.strategy = "complexity" -> ComplexityAfter(n, new, old)
    [] n.strategy = "simplicity" -> SimplicityAfter(n, new, old)
    [] n.strategy = "random"     -> RandomAfter(n, new, old)

Pos(list, m) == CHOOSE i \in DOMAIN list : list[i] = m

\* Where a search of the activations i..j of a group ends, past being those it
\* moves past: from the first on, for breadth from the last back, for lex and
\* mea with a look at the last first.
Search(n, list, i, j, past, before) ==
  LET stop == (i..j) \ past
  IN CASE n.strategy = "breadth" -> IF past = {} THEN before ELSE list[Max(past)]
       [] n.strategy \in {"lex", "mea"} /\ j \in past -> list[j]
       [] OTHER -> IF stop = {} THEN list[j]
                   ELSE IF Min(stop) = i THEN before
                   ELSE list[Min(stop) - 1]

\* The Place...Activation searches: the activation after which new goes; before
\* is the last one of higher salience.
PlaceAfter(n, list, group, before, new) ==
  IF group.first = None THEN before
  ELSE LET i == Pos(list, group.first)
           j == Pos(list, group.last)
       IN Search(n, list, i, j, {k \in i..j : After(n, new, list[k])}, before)

-----------------------------------------------------------------------------
(* The list of a module and its salience groups. *)

\* Where a search for a salience stops: groups come in decreasing salience.
GroupIndex(groups, s) ==
  Min({g \in DOMAIN groups : groups[g].salience <= s} \cup {Len(groups) + 1})

HasGroup(groups, s) ==
  LET g == GroupIndex(groups, s)
  IN g \in DOMAIN groups /\ groups[g].salience = s

ReuseOrCreateSalienceGroup(groups, s) ==
  IF HasGroup(groups, s) THEN groups
  ELSE InsertAt(groups, GroupIndex(groups, s),
                [salience |-> s, first |-> None, last |-> None])

\* Mutant: the first activation of a group is not replaced by a better one.
PlaceActivationKeepsFirst(n, a, new) ==
  LET s      == n.act[new].salience
      g      == GroupIndex(a.groups, s)
      groups == ReuseOrCreateSalienceGroup(a.groups, s)
      before == IF g = 1 THEN None ELSE groups[g - 1].last
      after  == IF a.list = <<>> THEN None
                ELSE PlaceAfter(n, a.list, groups[g], before, new)
  IN [list   |-> InsertAt(a.list, IF after = None THEN 1 ELSE Pos(a.list, after) + 1, new),
      groups |-> [groups EXCEPT
                    ![g].first = IF @ = None THEN new ELSE @,
                    ![g].last  = IF @ = None \/ @ = after THEN new ELSE @]]

\* PlaceActivation puts a new activation on the list a.list and makes it the
\* first or the last of its group where it is.
PlaceActivation(n, a, new) ==
  LET s      == n.act[new].salience
      g      == GroupIndex(a.groups, s)
      groups == ReuseOrCreateSalienceGroup(a.groups, s)
      before == IF g = 1 THEN None ELSE groups[g - 1].last
      after  == IF a.list = <<>> THEN None
                ELSE PlaceAfter(n, a.list, groups[g], before, new)
  IN [list   |-> InsertAt(a.list, IF after = None THEN 1 ELSE Pos(a.list, after) + 1, new),
      groups |-> [groups EXCEPT
                    ![g].first = IF after = before THEN new ELSE @,
                    ![g].last  = IF @ = None \/ @ = after THEN new ELSE @]]

\* Mutant: the last activation of a group is removed and the group not told.
RemoveActivationFromGroupKeepsLast(n, a, m) ==
  LET s == n.act[m].salience
      g == GroupIndex(a.groups, s)
      i == Pos(a.list, m)
      first == a.groups[g].first = m
      last  == a.groups[g].last = m
  IN IF ~HasGroup(a.groups, s) THEN a.groups
     ELSE IF first /\ last THEN RemoveAt(a.groups, g)
     ELSE IF first THEN [a.groups EXCEPT ![g].first = a.list[i + 1]]
     ELSE a.groups

RemoveActivationFromGroup(n, a, m) ==
  LET s == n.act[m].salience
      g == GroupIndex(a.groups, s)
      i == Pos(a.list, m)
      first == a.groups[g].first = m
      last  == a.groups[g].last = m
  IN IF ~HasGroup(a.groups, s) THEN a.groups
     ELSE IF first /\ last THEN RemoveAt(a.groups, g)
     ELSE IF first THEN [a.groups EXCEPT ![g].first = a.list[i + 1]]
     ELSE IF last  THEN [a.groups EXCEPT ![g].last = a.list[i - 1]]
     ELSE a.groups

\* An activation leaves the list and its group.
Unlink(n, a, m) ==
  [list   |-> RemoveAt(a.list, Pos(a.list, m)),
   groups |-> RemoveActivationFromGroup(n, a, m)]

\* ReorderAgenda forgets list and groups and places every activation again.
ReorderAgenda(n, a) ==
  LET placed[i \in 0..Len(a.list)] ==
        IF i = 0 THEN EmptyAgenda ELSE PlaceActivation(n, placed[i - 1], a.list[i])
  IN placed[Len(a.list)]

-----------------------------------------------------------------------------
(* Saliences and the focus stack. *)

\* What the salience expressions evaluate to at some moment.
Values == [Dynamic -> Salience]

\* An expression that fails, or whose value is out of range, leaves the
\* salience as it was and raises an evaluation error, which halts a run; the
\* next Eval clears the one raised between runs.
SalienceFails(mode, value, r) ==
  pc = "rhs" /\ mode # "when-defined" /\ r \in Dynamic /\ value[r] = None

EvaluateSalience(mode, value, salience, r) ==
  IF mode = "when-defined" \/ r \notin Dynamic \/ value[r] = None
    THEN salience[r] ELSE value[r]

Focus(stack, d) ==
  IF stack # <<>> /\ Head(stack) = d THEN stack ELSE <<d>> \o stack

\* RemoveFocus takes the first occurrence of a module off the stack.
RemoveFocus(stack, d) == RemoveFirst(stack, d)

\* NextActivationToFire: MAIN when there is no focus, then down to the first
\* module with activations, popping those without.
NextFocus(n) ==
  LET stack == IF n.focus = <<>> THEN <<MAIN>> ELSE n.focus
      busy  == {i \in DOMAIN stack : n.agenda[stack[i]].list # <<>>}
  IN IF busy = {} THEN <<>> ELSE SubSeq(stack, Min(busy), Len(stack))

-----------------------------------------------------------------------------
(* Operations on the agenda state. *)

AddActivation(n, value, m) ==
  LET r == RuleOf[m]
      s == EvaluateSalience(evaluation, value, n.salience, r)
      act == [n.act EXCEPT ![m] = [tag |-> n.clock, salience |-> s,
                                   random |-> GenRand[n.clock]]]
  IN [n EXCEPT !.focus       = IF r \in AutoFocus THEN Focus(@, Home(m)) ELSE @,
               !.act         = act,
               !.clock       = @ + 1,
               !.count       = @ + 1,
               !.marker      = @ \cup {m},
               !.salience[r] = s,
               !.halt        = @ \/ SalienceFails(evaluation, value, r),
               !.agenda[Home(m)] = PlaceActivation([n EXCEPT !.act = act], @, m)]

\* DetachActivation, with the clearing of the marker: what is left of the
\* activation is what a firing rule holds.
DetachActivation(n, m) ==
  [n EXCEPT !.agenda[Home(m)] = Unlink(n, @, m),
            !.act[m] = Free,
            !.marker = @ \ {m}]

RemoveActivation(n, m) == [DetachActivation(n, m) EXCEPT !.count = @ - 1]

\* Activations are made and removed one at a time, in the order given.
AddActivations(n, value, order) ==
  LET added[i \in 0..Len(order)] ==
        IF i = 0 THEN n ELSE AddActivation(added[i - 1], value, order[i])
  IN added[Len(order)]

RemoveActivations(n, order) ==
  LET left[i \in 0..Len(order)] ==
        IF i = 0 THEN n ELSE RemoveActivation(left[i - 1], order[i])
  IN left[Len(order)]

\* RefreshAgenda of each module of D: the salience of every activation again,
\* as if it were activated now, then the order again.  A rule has all of its
\* activations in one module, so modules do not affect each other.
RefreshAgenda(n, value, D) ==
  LET here == UNION {ToSet(n.agenda[d].list) : d \in D}
      new  == [r \in Rule |-> IF \E m \in here : RuleOf[m] = r
                                THEN EvaluateSalience("when-activated", value, n.salience, r)
                                ELSE n.salience[r]]
      act  == [m \in Match |-> IF m \in here
                                 THEN [n.act[m] EXCEPT !.salience = new[RuleOf[m]]]
                                 ELSE n.act[m]]
  IN [n EXCEPT !.act      = act,
               !.salience = new,
               !.halt     = @ \/ \E m \in here : SalienceFails("when-activated", value, RuleOf[m]),
               !.agenda   = [d \in Module |-> IF d \in D
                                                THEN ReorderAgenda([n EXCEPT !.act = act], @[d])
                                                ELSE @[d]]]

RefreshAllAgendas(n, value) == RefreshAgenda(n, value, Module)

-----------------------------------------------------------------------------
(* What scripts do, between runs or in a right-hand side. *)

\* After an error or a (return) the rest of a right-hand side is skipped.
CanAct == pc = "idle" \/ (pc = "rhs" /\ ~net.halt /\ ~returned)

\* An assert completes matches, in some order of the network, and the last
\* join activates the rule of each; a salience that fails on the way halts
\* what follows the assert and not the activations that are left.
Activate(M) ==
  /\ CanAct /\ M # {} /\ M \cap matches = {}
  /\ IsFiniteSet(M) /\ net.clock + Cardinality(M) <= MaxTag + 1
  /\ Len(net.focus) + Cardinality({m \in M : RuleOf[m] \in AutoFocus}) <= MaxFocus
  /\ \E order \in SetToSeqs(M), v \in Values : net' = AddActivations(net, v, order)
  /\ matches' = matches \cup M
  /\ UNCHANGED <<spent, evaluation, runVars>>

\* Mutant: a retract that leaves the activation behind.
DeactivateKeepsActivation(m) ==
  /\ CanAct /\ m \in matches
  /\ matches' = matches \ {m} /\ spent' = spent \ {m}
  /\ UNCHANGED <<net, evaluation, runVars>>

\* A retract deletes a match, and the activation its marker points to.
Deactivate(m) ==
  /\ CanAct /\ m \in matches
  /\ net' = IF m \in net.marker THEN RemoveActivation(net, m) ELSE net
  /\ matches' = matches \ {m} /\ spent' = spent \ {m}
  /\ UNCHANGED <<evaluation, runVars>>

\* A rule that executes cannot be removed.
DefruleIsDeletable(r) == firing # None => RuleOf[firing] # r

\* Removing a rule clears it from the agenda and deletes its joins and their
\* matches.  It may be defined again later.  Here and in a reset the order of
\* the removals makes no difference.
Undefrule(r) ==
  /\ CanAct /\ DefruleIsDeletable(r)
  /\ LET own == {m \in matches : RuleOf[m] = r}
     IN /\ own # {}
        /\ net' = RemoveActivations(net, SetToSeq(own \cap net.marker))
        /\ matches' = matches \ own /\ spent' = spent \ own
  /\ UNCHANGED <<evaluation, runVars>>

\* (refresh rule) activates the matches that have fired, in some order of the
\* beta memory.
Refresh(r) ==
  /\ CanAct
  /\ LET idle == {m \in matches : RuleOf[m] = r /\ m \notin net.marker}
     IN /\ idle # {} /\ net.clock + Cardinality(idle) <= MaxTag + 1
        /\ r \in AutoFocus => Len(net.focus) < MaxFocus
        /\ \E order \in SetToSeqs(idle), v \in Values :
             net' = AddActivations(net, v, order)
        /\ spent' = spent \ idle
  /\ UNCHANGED <<matches, evaluation, runVars>>

\* (refresh-agenda d).
RefreshAgendaCommand(d) ==
  /\ CanAct
  /\ \E v \in Values : net' = RefreshAgenda(net, v, {d})
  /\ UNCHANGED <<matches, spent, evaluation, runVars>>

\* Mutant: agendas keep the order of the old strategy.
SetStrategyKeepsOrder(s) ==
  /\ CanAct /\ s # net.strategy
  /\ net' = [net EXCEPT !.strategy = s]
  /\ UNCHANGED <<matches, spent, evaluation, runVars>>

\* (set-strategy s): a new strategy reorders every agenda.
SetStrategy(s) ==
  /\ CanAct /\ s # net.strategy
  /\ LET n == [net EXCEPT !.strategy = s]
     IN net' = [n EXCEPT !.agenda = [d \in Module |-> ReorderAgenda(n, @[d])]]
  /\ UNCHANGED <<matches, spent, evaluation, runVars>>

\* (set-salience-evaluation e).
SetSalienceEvaluation(e) ==
  /\ CanAct /\ e # evaluation
  /\ evaluation' = e
  /\ UNCHANGED <<net, matches, spent, runVars>>

\* (focus d), (pop-focus) and (clear-focus-stack).
FocusCommand(d) ==
  /\ CanAct /\ Len(net.focus) < MaxFocus
  /\ net' = [net EXCEPT !.focus = Focus(@, d)]
  /\ UNCHANGED <<matches, spent, evaluation, runVars>>

PopFocus ==
  /\ CanAct /\ net.focus # <<>>
  /\ net' = [net EXCEPT !.focus = RemoveFocus(@, Head(@))]
  /\ UNCHANGED <<matches, spent, evaluation, runVars>>

ClearFocusStack ==
  /\ CanAct
  /\ net' = [net EXCEPT !.focus = <<>>]
  /\ UNCHANGED <<matches, spent, evaluation, runVars>>

\* (reset): every match goes, MAIN is the only focus.  What its deffacts and
\* negated patterns match follows as activations.
Reset ==
  /\ CanAct
  /\ net' = [RemoveActivations(net, SetToSeq(net.marker)) EXCEPT !.focus = <<MAIN>>]
  /\ matches' = {} /\ spent' = {}
  /\ UNCHANGED <<evaluation, runVars>>

-----------------------------------------------------------------------------
(* The run loop. *)

\* Run, through Eval: find the first activation.
\* A (run) within a run returns at once.
StartRun(limit) ==
  /\ pc = "idle"
  /\ net' = [net EXCEPT !.focus = NextFocus(net)]
  /\ pc' = "loop" /\ runLimit' = limit /\ haltRules' = FALSE
  /\ UNCHANGED <<matches, spent, evaluation, firing, returned>>

\* The loop's condition.
Continues == net.focus # <<>> /\ runLimit # 0 /\ ~net.halt /\ ~haltRules

Top == Head(net.agenda[Head(net.focus)].list)

\* Mutant: the limit of an unlimited run is counted down too.
FireCountsDown ==
  /\ pc = "loop" /\ Continues
  /\ net' = DetachActivation(net, Top)
  /\ firing' = Top /\ spent' = spent \cup {Top} /\ runLimit' = runLimit - 1
  /\ pc' = "rhs"
  /\ UNCHANGED <<matches, evaluation, haltRules, returned>>

\* Mutant: the activation stays on the agenda while its rule fires.
FireInPlace ==
  /\ pc = "loop" /\ Continues
  /\ firing' = Top /\ spent' = spent \cup {Top}
  /\ runLimit' = IF runLimit > 0 THEN runLimit - 1 ELSE runLimit
  /\ pc' = "rhs"
  /\ UNCHANGED <<net, matches, evaluation, haltRules, returned>>

\* Fire the top activation: detach it, unlink its match, run the actions.
Fire ==
  /\ pc = "loop" /\ Continues
  /\ net' = DetachActivation(net, Top)
  /\ firing' = Top /\ spent' = spent \cup {Top}
  /\ runLimit' = IF runLimit > 0 THEN runLimit - 1 ELSE runLimit
  /\ pc' = "rhs"
  /\ UNCHANGED <<matches, evaluation, haltRules, returned>>

\* (halt) lets the actions finish; an error or a (return) cuts them short.
Halt ==
  /\ pc = "rhs" /\ CanAct /\ ~haltRules
  /\ haltRules' = TRUE
  /\ UNCHANGED <<net, matches, spent, evaluation, pc, firing, runLimit, returned>>

ActionError ==
  /\ pc = "rhs" /\ CanAct
  /\ net' = [net EXCEPT !.halt = TRUE]
  /\ UNCHANGED <<matches, spent, evaluation, runVars>>

Return ==
  /\ pc = "rhs" /\ CanAct
  /\ returned' = TRUE
  /\ UNCHANGED <<net, matches, spent, evaluation, pc, firing, runLimit, haltRules>>

\* After the actions: free the activation, evaluate the saliences again if
\* every cycle has to, leave the rule's module on a (return), and find the
\* next activation, even when the loop is about to end.
EndRhs ==
  /\ pc = "rhs"
  /\ \E v \in Values :
       LET freed == [net EXCEPT !.count = @ - 1]
           again == IF evaluation = "every-cycle" THEN RefreshAllAgendas(freed, v)
                                                  ELSE freed
           n     == [again EXCEPT !.focus = IF returned THEN RemoveFocus(@, Home(firing))
                                                        ELSE @]
       IN net' = [n EXCEPT !.focus = NextFocus(n)]
  /\ firing' = None /\ returned' = FALSE /\ pc' = "loop"
  /\ UNCHANGED <<matches, spent, evaluation, runLimit, haltRules>>

\* The end of the run; Eval clears the error flags before anything else runs.
EndRun ==
  /\ pc = "loop" /\ ~Continues
  /\ net' = [net EXCEPT !.halt = FALSE]
  /\ pc' = "idle" /\ haltRules' = FALSE /\ runLimit' = -1
  /\ UNCHANGED <<matches, spent, evaluation, firing, returned>>

Next ==
  \/ \E M \in SUBSET Match : Activate(M)
  \/ \E m \in Match : Deactivate(m)
  \/ \E r \in Rule : Undefrule(r) \/ Refresh(r)
  \/ \E d \in Module : RefreshAgendaCommand(d) \/ FocusCommand(d)
  \/ \E s \in Strategy : SetStrategy(s)
  \/ \E e \in Evaluation : SetSalienceEvaluation(e)
  \/ PopFocus \/ ClearFocusStack \/ Reset
  \/ \E l \in Limit : StartRun(l)
  \/ Fire \/ Halt \/ ActionError \/ Return \/ EndRhs \/ EndRun

Spec == Init /\ [][Next]_vars

-----------------------------------------------------------------------------
(* Properties. *)

\* The order the strategies promise: x fires before y, among activations of
\* one salience and in general.
Beats(n, x, y) ==
  LET a == n.act[x]
      b == n.act[y]
      c == Complexity[RuleOf[x]]
      d == Complexity[RuleOf[y]]
      older == a.tag < b.tag
      lex   == LessRecent(y, x) \/ (~LessRecent(x, y) /\ older)
      first == Basis[x][1] - Basis[y][1]
  IN CASE n.strategy = "depth"      -> b.tag < a.tag
       [] n.strategy = "breadth"    -> older
       [] n.strategy = "lex"        -> lex
       [] n.strategy = "mea"        -> first > 0 \/ (first = 0 /\ lex)
       [] n.strategy = "complexity" -> c > d \/ (c = d /\ older)
       [] n.strategy = "simplicity" -> c < d \/ (c = d /\ older)
       [] n.strategy = "random"     -> a.random < b.random
                                         \/ (a.random = b.random /\ older)

Ahead(n, x, y) ==
  \/ n.act[x].salience > n.act[y].salience
  \/ n.act[x].salience = n.act[y].salience /\ Beats(n, x, y)

\* Placing every new activation by a search within its salience group keeps
\* each agenda totally ordered by salience and strategy, whatever mix of
\* asserts, retracts, refreshes, strategy and salience changes led there: the
\* run loop, which takes the head of the list, fires the best activation.
AgendaOrdered ==
  \A d \in Module : LET list == net.agenda[d].list
                    IN \A i, j \in DOMAIN list : i < j => Ahead(net, list[i], list[j])

\* The salience groups, which every search and removal trusts, delimit exactly
\* the runs of equal salience of the list, with no empty group left behind.
GroupsDelimit ==
  \A d \in Module :
    LET list   == net.agenda[d].list
        groups == net.agenda[d].groups
        of(s)  == {i \in DOMAIN list : net.act[list[i]].salience = s}
    IN /\ {groups[g].salience : g \in DOMAIN groups}
            = {net.act[list[i]].salience : i \in DOMAIN list}
       /\ \A g \in DOMAIN groups :
            /\ groups[g].first = list[Min(of(groups[g].salience))]
            /\ groups[g].last  = list[Max(of(groups[g].salience))]
            /\ g > 1 => groups[g - 1].salience > groups[g].salience

\* Markers and agendas agree: a match whose marker is set has one activation,
\* on the agenda of its rule's module, and no activation outlives its match;
\* NumberOfActivations counts them and the one that is firing.
MarkersAgree ==
  /\ net.marker \subseteq matches
  /\ \A d \in Module : \A m \in Match :
       Cardinality({i \in DOMAIN net.agenda[d].list : net.agenda[d].list[i] = m})
         = IF m \in net.marker /\ Home(m) = d THEN 1 ELSE 0
  /\ net.count = Cardinality(net.marker) + IF pc = "rhs" THEN 1 ELSE 0

\* Refraction: a match fires once; only a refresh, or its data being asserted
\* again, brings it back.
Refraction == [][firing # firing' /\ firing' # None => firing' \notin spent]_vars

\* The run loop fires the best activation of the module in focus: every other
\* activation of that module is behind it, by salience and by the strategy in
\* force, although the search that placed it may have run under another one.
BestFired ==
  [][pc = "loop" /\ pc' = "rhs" =>
       /\ Home(firing') = Head(net.focus)
       /\ \A x \in net.marker :
            Home(x) = Home(firing') /\ x # firing' => Ahead(net, firing', x)]_vars
=============================================================================
