---------------------------- MODULE MCAgentStore ----------------------------
EXTENDS AgentStoreProperties, TLC

CONSTANTS a1, a2, c1

(* An admin approves with a lower ceiling than the canonical one, or       *)
(* blocks with the canonical one.                                          *)
MCUpdates == {[status |-> "approved", tier |-> "public"],
              [status |-> "blocked", tier |-> None]}

(* The seed knows one agent, by a card that calls itself preferred.        *)
MCSeed == [a \in {a1} |-> [card |-> c1, own |-> "preferred", status |-> None,
                           tier |-> None]]
NoSeed == Empty
ThreadSymmetry == Permutations(Threads)
=============================================================================
