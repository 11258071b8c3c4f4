-------------------------- MODULE RegistryProperties --------------------------
(* What the registry's clients may rely on.                                *)
EXTENDS RegistryClient

(* iab_member is an admin's decision: no agent is a member, and so has a   *)
(* badge, unless an update that carried an admin's token made it one,      *)
(* whatever it claimed when it registered and whoever else asked for an    *)
(* update (real_double.py, register_agent: "iab_member is forced false at  *)
(* registration", and update_agent's admin check).                         *)
MembershipIsAdminSet ==
  \A id \in DOMAIN objects : objects[id].member => id \in membered

(* A deleted agent stays deleted, though updates and health checks that    *)
(* found it before may still be under way.                                 *)
NoAgentReturns == \A id \in 1..(next_id - 1) : id \notin agents => id \notin agents'
DeletedStaysDeleted == [][NoAgentReturns]_vars

(* Of the requests that delete an agent at once, one is told that it did.  *)
OneDeletionEach == deletions.twice = {}

(* verified_trust()'s two answers may be of different moments, and its     *)
(* verdict then never held of any: but a member without a badge has lost   *)
(* its membership or its listing since it was read, and a badge without a  *)
(* membership was gained since.  No other race parts the two.              *)
VerdictsHaveReasons ==
  (outcome # None /\ outcome.verdict # None) =>
    /\ outcome.verdict.iab_member /\ ~outcome.verdict.badge_available => outcome.lost
    /\ ~outcome.verdict.iab_member /\ outcome.verdict.badge_available => outcome.gained

(* The registry fails (500) only for a request that another's deletion got *)
(* ahead of: of the agent this one has found and is about to delete, or of *)
(* any agent while validate_domain goes through them.                      *)
InternalErrorsAreRaces ==
  (outcome # None /\ outcome.end = "internal") => outcome.overtaken

(* A client that keeps getting answers to authenticated calls ends up with *)
(* a token that needs no refresh and keeps it, although answers to older   *)
(* requests may put an older token back for a while.                       *)
TokenSettles ==
  \A k \in Clients :
    []<><<\E c \in Calls : /\ ClientOf[c] = k
                            /\ Served(c) \notin PublicOps
                            /\ Receive(c)>>_vars
      => <>[](Refresh(token[k]) = None)
=============================================================================
