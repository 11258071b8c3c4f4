---------------------------- MODULE StateMachine ----------------------------
(***************************************************************************)
(* The lifecycle engine of state/machine.py, as operators over a machine   *)
(*    [name, states, initial, terminal, rules]                             *)
(* whose rules are a sequence of [from, to, rework, guarded] records.  A   *)
(* guard is a predicate over a caller-supplied context: a call's `context` *)
(* is abstracted to the Boolean the guard of the rule would return.        *)
(***************************************************************************)
EXTENDS Integers, Sequences, FiniteSets

Rule(M, i) == M.rules[i]
RuleIndices(M) == DOMAIN M.rules

(* One-step successors, in code order made a set.                          *)
AllowedFrom(M, current) ==
  {Rule(M, i).to : i \in {j \in RuleIndices(M) : Rule(M, j).from = current}}

ProgressFrom(M, current) ==
  {Rule(M, i).to : i \in {j \in RuleIndices(M) :
                            Rule(M, j).from = current /\ ~Rule(M, j).rework}}

Successors(M, current, progressOnly) ==
  IF progressOnly THEN ProgressFrom(M, current) ELSE AllowedFrom(M, current)

(* The breadth-first search: layer k holds what at most k + 1 moves visit, *)
(* and the queue has drained after as many layers as there are states.     *)
Widen(M, seen, progressOnly) ==
  seen \cup UNION {Successors(M, s, progressOnly) : s \in seen}

ReachableFrom(M, start, progressOnly) ==
  LET seen[k \in 0..Cardinality(M.states)] ==
        IF k = 0 THEN Successors(M, start, progressOnly)
        ELSE Widen(M, seen[k - 1], progressOnly)
  IN  seen[Cardinality(M.states)]

CanProgressTo(M, start, target) == target \in ReachableFrom(M, start, TRUE)
IsTerminal(M, s) == s \in M.terminal

-----------------------------------------------------------------------------
(* What _validate refuses, one operator per ValueError.                    *)

KnownInitial(M) == M.initial \in M.states
KnownTerminals(M) == M.terminal \subseteq M.states
InitialIsLive(M) == M.initial \notin M.terminal
RulesStayInside(M) ==
  \A i \in RuleIndices(M) : {Rule(M, i).from, Rule(M, i).to} \subseteq M.states
TerminalsAreFinal(M) == \A i \in RuleIndices(M) : Rule(M, i).from \notin M.terminal
NoDuplicateRule(M) ==
  \A i, j \in RuleIndices(M) :
     (Rule(M, i).from = Rule(M, j).from /\ Rule(M, i).to = Rule(M, j).to) => i = j
EveryStateReachable(M) ==
  M.states \subseteq ReachableFrom(M, M.initial, FALSE) \cup {M.initial}
CyclesUnchecked(M) == TRUE  \* fault: a loop of forward rules accepted
ProgressIsAcyclic(M) == \A s \in M.states : ~CanProgressTo(M, s, s)

Valid(M) ==
  /\ KnownInitial(M)
  /\ KnownTerminals(M)
  /\ InitialIsLive(M)
  /\ RulesStayInside(M)
  /\ TerminalsAreFinal(M)
  /\ NoDuplicateRule(M)
  /\ EveryStateReachable(M)
  /\ ProgressIsAcyclic(M)

-----------------------------------------------------------------------------
(* transition() returns `to` exactly when this holds and raises            *)
(* InvalidTransitionError otherwise; guardHolds is the guard's verdict.    *)
CanTransition(M, current, to, guardHolds) ==
  \E i \in RuleIndices(M) :
     /\ Rule(M, i).from = current
     /\ Rule(M, i).to = to
     /\ Rule(M, i).guarded => guardHolds

(* entry(): the audit record of an executed transition.                    *)
EntrySwapped(M, current, to, actor) ==  \* fault: the two ends are swapped
  [machine |-> M.name, from |-> to, to |-> current, actor |-> actor]
Entry(M, current, to, actor) ==
  [machine |-> M.name, from |-> current, to |-> to, actor |-> actor]
=============================================================================
