---------------------------- MODULE MCRegistryClient ----------------------------
(* An admin client whose token expires twice, with two coroutines, and a   *)
(* user client with one.                                                   *)
EXTENDS RegistryProperties, TLC

CONSTANTS first, second, admin, user, c1, c2, c3, adm, usr, none

MCTokens == {first, second, admin, user}
Ctx(domain, isAdmin, refresh) == [domain |-> domain, admin |-> isAdmin, refresh_to |-> refresh]
MCTokenCtx ==
  first :> Ctx("example.com", TRUE, second) @@ second :> Ctx("example.com", TRUE, admin)
    @@ admin :> Ctx("example.com", TRUE, none) @@ user :> Ctx("example.com", FALSE, none)
MCNormal ==
  [d \in {"example.com", "WWW.Example.com", "other.com"} |->
     IF d = "other.com" THEN "other.com" ELSE "example.com"]
MCFirstToken == adm :> first @@ usr :> user
MCClientOf == c1 :> adm @@ c2 :> adm @@ c3 :> usr
MCJobs ==
  c1 :> {"register", "update", "delete"} @@ c2 :> {"delete", "verify_health"}
    @@ c3 :> {"trust", "badge", "list", "validate", "update"}
Body(domain, local, repository, endpoint, verified) ==
  [domain |-> domain, named |-> TRUE, local |-> local, repository |-> repository,
   endpoint |-> endpoint, domain_verified |-> verified, member |-> TRUE]
MCBodies ==
  {Body("WWW.Example.com", FALSE, FALSE, TRUE, TRUE), Body("example.com", TRUE, TRUE, FALSE, FALSE),
   Body("example.com", FALSE, TRUE, FALSE, FALSE), Body("other.com", FALSE, FALSE, TRUE, FALSE)}
MCChanges == {[member |-> TRUE], [member |-> FALSE]}
=============================================================================
