--------------------------- MODULE MCReconciliation ---------------------------
(***************************************************************************)
(* The three canonical tables, and every table over three states: for each *)
(* ordered pair (and one self loop) no rule, a forward rule or a rework    *)
(* rule, with every terminal set, plus a duplicate or an alien rule.       *)
(* Rules into s3 carry a guard.                                            *)
(***************************************************************************)
EXTENDS Reconciliation, TLC

Pairs == << <<"s1", "s2">>, <<"s1", "s3">>, <<"s2", "s1">>, <<"s2", "s3">>,
            <<"s3", "s1">>, <<"s3", "s2">>, <<"s2", "s2">> >>

RuleOf(pair, kind) ==
  [from |-> pair[1], to |-> pair[2], rework |-> kind = "rework",
   guarded |-> pair[2] = "s3"]

Extra(kind) == CASE kind = "none" -> <<>>
                 [] kind = "duplicate" -> << RuleOf(Pairs[1], "rework") >>
                 [] kind = "alien" -> << RuleOf(<<"s1", "s4">>, "move") >>

RulesOf(choice, extra) ==
  LET present == SelectSeq(<<1, 2, 3, 4, 5, 6, 7>>, LAMBDA i : choice[i] # "none")
  IN  [i \in 1..Len(present) |-> RuleOf(Pairs[present[i]], choice[present[i]])]
      \o Extra(extra)

SmallTables ==
  {[name |-> "table", states |-> {"s1", "s2", "s3"}, initial |-> "s1",
    terminal |-> terminal, rules |-> RulesOf(choice, extra)] :
     terminal \in SUBSET {"s1", "s2", "s3"},
     choice \in [1..7 -> {"none", "move", "rework"}],
     extra \in {"none", "duplicate", "alien"}}

MCTables == CanonicalLifecycles \cup SmallTables
MCMaxMoves == "table" :> 2 @@ [t \in {M.name : M \in CanonicalLifecycles} |-> 6]
===============================================================================
