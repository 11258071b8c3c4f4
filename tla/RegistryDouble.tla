---------------------------- MODULE RegistryDouble ----------------------------
(***************************************************************************)
(* The double of the real agent registry (sandbox_registry/real_double.py):*)
(* its store and what each of its handlers answers and does.  Handlers run *)
(* at once, the plain functions in threads and the coroutines on the event *)
(* loop, between their awaits.  Those that look an agent up and then work  *)
(* on it do so in two steps, and others may run in between; so may threads *)
(* while validate_domain goes through the dict.                            *)
(*                                                                         *)
(* An agent is an object that the dict lists under its id; a handler that  *)
(* has looked it up keeps it even when it is deleted meanwhile.            *)
(***************************************************************************)
EXTENDS Naturals, FiniteSets

CONSTANTS
  Tokens,     \* the bearer tokens the registry knows
  TokenCtx,   \* token -> [domain, admin, refresh_to]
  Normal,     \* _normalize_domain: spelling of a domain -> domain
  MaxAgents,  \* bound on the agents registered in a run
  None        \* no value

ASSUME NoneAssumption == None \notin Nat
ASSUME TokenAssumption ==
  \A t \in Tokens :
    /\ TokenCtx[t].domain \in DOMAIN Normal
    /\ TokenCtx[t].admin \in BOOLEAN
    /\ TokenCtx[t].refresh_to \in Tokens \cup {None}

VARIABLES
  objects,  \* every agent ever registered: id -> agent
  agents,   \* _Store.agents: the ids that are listed
  next_id   \* _Store.next_id

store == <<objects, agents, next_id>>

-----------------------------------------------------------------------------
(* Answers                                                                 *)

Answer(status, refresh, data) == [status |-> status, refresh |-> refresh, data |-> data]

(* authenticate(): a token the table does not know is no token.            *)
Authenticated(token) == token \in Tokens
Admin(token) == Authenticated(token) /\ TokenCtx[token].admin
Refresh(token) == IF Authenticated(token) THEN TokenCtx[token].refresh_to ELSE None

(* What a handler refuses before it looks at any agent.                    *)
AdminOps == {"update", "delete", "verify_health"}
PublicOps == {"badge", "validate"}
LoopOps == {"register", "update", "validate"}  \* the coroutines
RefusalOfStrangers(op, token) ==  \* fault: every known token is an admin's
  IF op \in PublicOps \/ Authenticated(token) THEN None ELSE 401
Refusal(op, token) ==
  IF op \in PublicOps THEN None
  ELSE IF ~Authenticated(token) THEN 401
  ELSE IF op \in AdminOps /\ ~Admin(token) THEN 403
  ELSE None

(* What anyone may ask for comes without a refreshed token.                *)
RefreshFor(op, token) == IF op \in PublicOps THEN None ELSE Refresh(token)

(* register_agent()'s checks, in their order.                              *)
BodyRefusal(body, token) ==
  IF ~body.named THEN 400
  ELSE IF body.local /\ ~body.repository THEN 400
  ELSE IF ~body.local /\ ~body.endpoint THEN 400
  ELSE IF Normal[TokenCtx[token].domain] # Normal[body.domain] THEN 403
  ELSE None

(* The stored agent: membership is forced off, the status derived once.    *)
StoredAsClaimed(body) ==  \* fault: the body's own iab_member is kept
  [domain |-> body.domain, member |-> body.member, endpoint |-> body.endpoint,
   domain_verified |-> body.domain_verified, active |-> body.domain_verified,
   healthy |-> FALSE]
Stored(body) ==
  [domain |-> body.domain, member |-> FALSE, endpoint |-> body.endpoint,
   domain_verified |-> body.domain_verified, active |-> body.domain_verified,
   healthy |-> FALSE]

Merged(agent, fields) ==
  [f \in DOMAIN agent |-> IF f \in DOMAIN fields THEN fields[f] ELSE agent[f]]

-----------------------------------------------------------------------------
(* Handlers: what each answers and what it does to the store.              *)

StoreInit ==
  /\ objects = [i \in {} |-> None]
  /\ agents = {}
  /\ next_id = 1

RegisterAnswer(body, token) ==
  IF BodyRefusal(body, token) # None
  THEN Answer(BodyRefusal(body, token), Refresh(token), None)
  ELSE Answer(201, Refresh(token), Stored(body))

RegisterAgent(body, token) ==
  IF BodyRefusal(body, token) # None THEN UNCHANGED store
  ELSE /\ next_id <= MaxAgents
       /\ objects' = [i \in DOMAIN objects \cup {next_id} |->
                        IF i = next_id THEN Stored(body) ELSE objects[i]]
       /\ agents' = agents \cup {next_id}
       /\ next_id' = next_id + 1

(* get_agent, and list_agents with its `verified` filter.                  *)
Listed(verified) == {id \in agents : objects[id].domain_verified = verified}

ReadAnswer(op, id, arg, token) ==
  CASE op = "get" -> IF id \in agents THEN Answer(200, Refresh(token), objects[id])
                     ELSE Answer(404, Refresh(token), None)
    [] op = "list" -> Answer(200, Refresh(token), Listed(arg))

(* validate_domain goes through the dict as it was when it began (`seen`). *)
(* A deletion meanwhile, in a thread, makes its next step a RuntimeError;  *)
(* it may also have taken its last one before.                             *)
Registrants(domain, seen) == {id \in seen : Normal[objects[id].domain] = Normal[domain]}
ScanAnswers(domain, seen) ==
  {Answer(200, None, Registrants(domain, seen) # {})}
    \cup IF agents = seen THEN {} ELSE {Answer(500, None, None)}

(* The second step of verification-badge, an SVG for members only, and of  *)
(* the admin handlers, on the object looked up before.                     *)
BadgeForListed(id) == id \in DOMAIN objects  \* fault: membership is not looked at
HasBadge(id) == objects[id].member
BadgeAnswer(id) == Answer(IF HasBadge(id) THEN 200 ELSE 404, None, None)

FinishUpdateRelisting(id, fields) ==  \* fault: stored under its id again
  /\ objects' = [objects EXCEPT ![id] = Merged(@, fields)]
  /\ agents' = agents \cup {id}
  /\ UNCHANGED next_id
FinishUpdate(id, fields) ==
  /\ objects' = [objects EXCEPT ![id] = Merged(@, fields)]
  /\ UNCHANGED <<agents, next_id>>

FinishVerifyHealth(id) ==
  /\ objects' = [objects EXCEPT ![id].healthy = objects[id].endpoint]
  /\ UNCHANGED <<agents, next_id>>

(* `del` raises KeyError when another request was faster: 500.             *)
FinishDelete(id) == agents' = agents \ {id} /\ UNCHANGED <<objects, next_id>>
DeleteAnswerQuietly(id, token) == Answer(200, Refresh(token), None)  \* fault: pop(id, None)
DeleteAnswer(id, token) ==
  IF id \in agents THEN Answer(200, Refresh(token), None) ELSE Answer(500, None, None)
=============================================================================
