---------------------------- MODULE RegistryClient ----------------------------
(***************************************************************************)
(* registry_client.py against the registry double.  A client makes several *)
(* calls at once (coroutines); each sends the token its header holds at    *)
(* that moment, answers come back in any order or too late, and an answer  *)
(* may carry a refreshed token.  verified_trust is two requests in a row.  *)
(***************************************************************************)
EXTENDS RegistryDouble

CONSTANTS
  Clients,     \* RegistryClient objects
  FirstToken,  \* client -> the token it was given
  Calls,       \* coroutines
  ClientOf,    \* coroutine -> its client
  Bodies,      \* bodies that are registered: [domain, named, local, repository,
               \* endpoint, domain_verified, member]
  Changes,     \* fields that admins update
  Jobs,        \* coroutine -> the methods it calls
  MaxInFlight  \* bound on the calls that are under way at once

ASSUME ClientsAssumption ==
  /\ DOMAIN FirstToken = Clients
  /\ ClientOf \in [Calls -> Clients]

(* An updated iab_member counts by its truth value.                        *)
ASSUME ChangesAssumption ==
  \A fields \in Changes : "member" \in DOMAIN fields => fields.member \in BOOLEAN

VARIABLES
  token,      \* client -> _token
  header,     \* client -> the token of its Authorization header
  call,       \* coroutine -> the call it is in
  outcome,    \* how the call that ended last did end, until the next one starts
  membered,   \* history: agents that an update with an admin's token made members
  deletions,  \* history: agents whose deletion was confirmed, once or twice
  gained,     \* history: coroutines in verified_trust() whose agent became a
              \* member between the two reads
  lost,       \* history: those whose agent stopped being one, or was deleted
  overtaken   \* history: coroutines whose request another's deletion got ahead of

reasons == <<gained, lost, overtaken>>
history == <<membered, deletions, reasons>>
vars == <<store, token, header, call, outcome, history>>

Idle == [pc |-> "idle", op |-> None, id |-> None, arg |-> None, bearer |-> None,
         waiting |-> FALSE, answer |-> None, agent |-> None, seen |-> {}]
Ids == 1..MaxAgents

Sent(op, id, arg, bearer) ==
  [Idle EXCEPT !.pc = "sent", !.op = op, !.id = id, !.arg = arg, !.bearer = bearer,
               !.waiting = TRUE]

ClientInit ==
  /\ token = FirstToken
  /\ header = FirstToken
  /\ call = [c \in Calls |-> Idle]
  /\ outcome = None
  /\ membered = {}
  /\ deletions = [once |-> {}, twice |-> {}]
  /\ gained = {} /\ lost = {} /\ overtaken = {}
Init == StoreInit /\ ClientInit

-----------------------------------------------------------------------------
(* The caller starts a call: the request leaves with the current header.   *)

(* What happened to a coroutine's last call is forgotten.                  *)
Forget(c) == gained' = gained \ {c} /\ lost' = lost \ {c} /\ overtaken' = overtaken \ {c}

Start(c, op, id, arg) ==
  /\ call[c] = Idle
  /\ op \in Jobs[c]
  /\ Cardinality({d \in Calls : call[d] # Idle}) < MaxInFlight
  /\ call' = [call EXCEPT ![c] = Sent(op, id, arg, header[ClientOf[c]])]
  /\ outcome' = None
  /\ Forget(c)
  /\ UNCHANGED <<store, token, header, membered, deletions>>

CallRegister(c) == \E body \in Bodies : Start(c, "register", None, body)
CallUpdate(c) == \E id \in Ids, fields \in Changes : Start(c, "update", id, fields)
CallOnAgent(c) ==
  \E id \in Ids, op \in {"get", "badge", "delete", "verify_health", "trust"} :
     Start(c, op, id, None)
CallList(c) == \E verified \in BOOLEAN : Start(c, "list", None, verified)
CallValidate(c) == \E domain \in DOMAIN Normal : Start(c, "validate", None, domain)

-----------------------------------------------------------------------------
(* The registry's side of a call.                                          *)

Reply(c, answer) == call' = [call EXCEPT ![c].pc = "answered", ![c].answer = answer]

(* verified_trust() first gets the agent and then asks for its badge.      *)
Served(c) == IF call[c].op = "trust" THEN
               IF call[c].agent = None THEN "get" ELSE "badge"
             ELSE call[c].op

(* A coroutine of the registry takes no step while another of its          *)
(* coroutines has the event loop.                                          *)
LoopIsFree(op) == op \in LoopOps => \A c \in Calls : call[c].pc # "scanning"

Refuse(c) ==
  /\ call[c].pc = "sent"
  /\ LoopIsFree(Served(c))
  /\ Refusal(Served(c), call[c].bearer) # None
  /\ Reply(c, Answer(Refusal(Served(c), call[c].bearer),
                     RefreshFor(Served(c), call[c].bearer), None))
  /\ UNCHANGED <<store, token, header, outcome, history>>

Admitted(c, op) ==
  /\ call[c].pc = "sent"
  /\ Served(c) = op
  /\ LoopIsFree(op)
  /\ Refusal(op, call[c].bearer) = None

HandleRegister(c) ==
  /\ Admitted(c, "register")
  /\ RegisterAgent(call[c].arg, call[c].bearer)
  /\ Reply(c, RegisterAnswer(call[c].arg, call[c].bearer))
  /\ UNCHANGED <<token, header, outcome, history>>

(* The handlers whose one read is a moment's.                              *)
HandleRead(c) ==
  \E op \in {"get", "list"} :
    /\ Admitted(c, op)
    /\ Reply(c, ReadAnswer(op, call[c].id, call[c].arg, call[c].bearer))
    /\ UNCHANGED <<store, token, header, outcome, history>>

BeginScan(c) ==
  /\ Admitted(c, "validate")
  /\ call' = [call EXCEPT ![c].pc = "scanning", ![c].seen = agents]
  /\ UNCHANGED <<store, token, header, outcome, history>>

EndScan(c) ==
  /\ call[c].pc = "scanning"
  /\ \E answer \in ScanAnswers(call[c].arg, call[c].seen) : Reply(c, answer)
  /\ UNCHANGED <<store, token, header, outcome, history>>

(* The other handlers look the agent up, and then work on what they found. *)
Missing(c) == Reply(c, Answer(404, RefreshFor(Served(c), call[c].bearer), None))
LookupUntested(c) ==  \* fault: delete_agent does not test for the id first
  /\ \E op \in AdminOps \cup {"badge"} : Admitted(c, op)
  /\ IF call[c].id \in agents \/ Served(c) = "delete"
     THEN call' = [call EXCEPT ![c].pc = "held"]
     ELSE Missing(c)
  /\ UNCHANGED <<store, token, header, outcome, history>>
Lookup(c) ==
  /\ \E op \in AdminOps \cup {"badge"} : Admitted(c, op)
  /\ IF call[c].id \in agents THEN call' = [call EXCEPT ![c].pc = "held"] ELSE Missing(c)
  /\ UNCHANGED <<store, token, header, outcome, history>>

FinishOp(c, op) == call[c].pc = "held" /\ Served(c) = op /\ LoopIsFree(op)

HandleBadge(c) ==
  /\ FinishOp(c, "badge")
  /\ Reply(c, BadgeAnswer(call[c].id))
  /\ UNCHANGED <<store, token, header, outcome, history>>

(* verified_trust() has read agent `id`, and its badge is still to be      *)
(* decided.                                                                *)
BetweenReads(c, id) ==
  /\ call[c].op = "trust" /\ call[c].id = id
  /\ IF call[c].agent = None THEN call[c].pc = "answered" ELSE call[c].pc \in {"sent", "held"}

HandleUpdate(c) ==
  LET id == call[c].id
      flipped(to) == {d \in Calls : /\ BetweenReads(d, id)
                                     /\ objects[id].member = ~to /\ objects'[id].member = to}
  IN  /\ FinishOp(c, "update")
      /\ FinishUpdate(id, call[c].arg)
      /\ Reply(c, Answer(200, Refresh(call[c].bearer), objects'[id]))
      /\ membered' = IF objects'[id].member /\ Admin(call[c].bearer)
                     THEN membered \cup {id} ELSE membered
      /\ gained' = gained \cup flipped(TRUE)
      /\ lost' = lost \cup flipped(FALSE)
      /\ UNCHANGED <<token, header, outcome, deletions, overtaken>>

HandleVerifyHealth(c) ==
  /\ FinishOp(c, "verify_health")
  /\ FinishVerifyHealth(call[c].id)
  /\ Reply(c, Answer(200, Refresh(call[c].bearer), None))
  /\ UNCHANGED <<token, header, outcome, history>>

HandleDelete(c) ==
  LET id == call[c].id
      others == IF id \in agents THEN Calls \ {c} ELSE {}
  IN  /\ FinishOp(c, "delete")
      /\ FinishDelete(id)
      /\ Reply(c, DeleteAnswer(id, call[c].bearer))
      /\ deletions' = IF call'[c].answer.status # 200 THEN deletions
                      ELSE IF id \in deletions.once
                      THEN [deletions EXCEPT !.twice = @ \cup {id}]
                      ELSE [deletions EXCEPT !.once = @ \cup {id}]
      /\ lost' = lost \cup {d \in others : BetweenReads(d, id) /\ call[d].pc # "held"}
      /\ overtaken' = overtaken \cup
           {d \in others : \/ call[d].pc = "scanning"
                           \/ call[d].pc = "held" /\ call[d].op = "delete" /\ call[d].id = id}
      /\ UNCHANGED <<token, header, outcome, membered, gained>>

-----------------------------------------------------------------------------
(* The answer reaches the client.                                          *)

(* _absorb_new_token                                                       *)
IsNew(k, refresh) == refresh # None /\ refresh # token[k]
AbsorbTokenOnly(k, refresh) ==  \* fault: the header keeps the old token
  /\ token' = IF IsNew(k, refresh) THEN [token EXCEPT ![k] = refresh] ELSE token
  /\ header' = header
AbsorbNewToken(k, refresh) ==
  /\ token' = IF IsNew(k, refresh) THEN [token EXCEPT ![k] = refresh] ELSE token
  /\ header' = IF IsNew(k, refresh) THEN [header EXCEPT ![k] = refresh] ELSE header

(* _FALLBACK_CODES, for the registry's own error bodies.                   *)
ErrorOf(status) ==
  CASE status = 400 -> "validation"
    [] status = 401 -> "unauthorized"
    [] status = 403 -> "forbidden"
    [] status = 404 -> "not_found"
    [] OTHER -> "internal"

Verdict(agent, badge) ==
  [verified |-> agent.active, domain_verified |-> agent.domain_verified,
   iab_member |-> agent.member, badge_available |-> badge]

(* How the method ends: verified_trust() has its agent by its last answer, *)
(* and a badge that is not found is no error.                              *)
Outcome(c) ==
  LET status == call[c].answer.status
  IN  IF Served(c) = "badge" /\ status \in {200, 404}
      THEN IF call[c].op = "trust" THEN [end |-> "ok", verdict |-> Verdict(call[c].agent, status = 200)]
           ELSE [end |-> "ok", verdict |-> None]
      ELSE [end |-> IF status < 400 THEN "ok" ELSE ErrorOf(status), verdict |-> None]

Receive(c) ==
  /\ call[c].pc = "answered"
  /\ call[c].waiting
  /\ AbsorbNewToken(ClientOf[c], call[c].answer.refresh)
  /\ IF Served(c) = "get" /\ call[c].op = "trust" /\ call[c].answer.status = 200
     THEN /\ call' = [call EXCEPT ![c] = [Sent("trust", call[c].id, None, header'[ClientOf[c]])
                                           EXCEPT !.agent = call[c].answer.data]]
          /\ UNCHANGED <<outcome, reasons>>
     ELSE /\ call' = [call EXCEPT ![c] = Idle]
          /\ outcome' = [end |-> Outcome(c).end, verdict |-> Outcome(c).verdict,
                         gained |-> c \in gained, lost |-> c \in lost,
                         overtaken |-> c \in overtaken]
          /\ Forget(c)
  /\ UNCHANGED <<store, membered, deletions>>

(* httpx times out; the registry goes on, and nobody reads its answer.     *)
TimeOut(c) ==
  /\ call[c].waiting
  /\ call' = [call EXCEPT ![c].waiting = FALSE]
  /\ outcome' = [end |-> "timeout", verdict |-> None,
                 gained |-> FALSE, lost |-> FALSE, overtaken |-> FALSE]
  /\ UNCHANGED <<store, token, header, history>>

Drop(c) ==
  /\ call[c].pc = "answered"
  /\ ~call[c].waiting
  /\ call' = [call EXCEPT ![c] = Idle]
  /\ Forget(c)
  /\ UNCHANGED <<store, token, header, outcome, membered, deletions>>

Next ==
  \E c \in Calls :
    \/ CallRegister(c) \/ CallUpdate(c) \/ CallOnAgent(c) \/ CallList(c) \/ CallValidate(c)
    \/ Refuse(c) \/ HandleRegister(c) \/ HandleRead(c) \/ BeginScan(c) \/ EndScan(c)
    \/ Lookup(c) \/ HandleBadge(c) \/ HandleUpdate(c) \/ HandleVerifyHealth(c) \/ HandleDelete(c)
    \/ Receive(c) \/ TimeOut(c) \/ Drop(c)

Spec == Init /\ [][Next]_vars
=============================================================================
