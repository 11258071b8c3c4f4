---------------------------- MODULE Registry_proofs ----------------------------
(***************************************************************************)
(* Proofs about the registry double and its clients, for any number of     *)
(* clients, coroutines, tokens and agents.                                 *)
(***************************************************************************)
EXTENDS RegistryProperties, TLAPS

-----------------------------------------------------------------------------
(* The inductive invariant.                                                *)

AgentFields == {"domain", "member", "endpoint", "domain_verified", "active", "healthy"}
CallFields == {"pc", "op", "id", "arg", "bearer", "waiting", "answer", "agent", "seen"}
Statuses == {200, 201, 400, 401, 403, 404, 500}

(* Ids are handed out once; a listed agent is an object; what a handler    *)
(* has looked up is one still.                                             *)
Numbered ==
  /\ next_id \in Nat \ {0}
  /\ DOMAIN objects = 1..(next_id - 1)
  /\ \A id \in DOMAIN objects :
       DOMAIN objects[id] = AgentFields /\ objects[id].member \in BOOLEAN
  /\ agents \subseteq DOMAIN objects
  /\ DOMAIN deletions = {"once", "twice"}
  /\ deletions.once \subseteq DOMAIN objects

(* A request that an admin handler works on carries an admin's token.      *)
WellFormed(c) ==
  /\ DOMAIN call[c] = CallFields
  /\ call[c].pc \in {"idle", "sent", "held", "scanning", "answered"}
  /\ call[c].pc = "scanning" => call[c].op = "validate"
  /\ call[c].pc = "held" =>
       /\ call[c].id \in DOMAIN objects
       /\ Served(c) \in AdminOps => Admin(call[c].bearer)
  /\ call[c].pc # "idle" /\ call[c].op = "update" => call[c].arg \in Changes
  /\ call[c].pc = "answered" => call[c].answer.status \in Statuses
Underway == DOMAIN call = Calls /\ \A c \in Calls : WellFormed(c)

Shown(id) == id \in agents /\ objects[id].member

(* A membership that was read is so still, or there is a reason why not.   *)
Explained(c, member, now) ==
  /\ member \in BOOLEAN
  /\ member /\ ~now => c \in lost
  /\ ~member /\ now => c \in gained

(* A verdict in the making.                                                *)
Coherent(c) ==
  call[c].op = "trust" =>
    /\ call[c].pc = "answered" /\ call[c].agent = None /\ call[c].answer.status = 200 =>
         Explained(c, call[c].answer.data.member, Shown(call[c].id))
    /\ call[c].pc = "sent" /\ call[c].agent # None =>
         Explained(c, call[c].agent.member, Shown(call[c].id))
    /\ call[c].pc = "held" =>
         /\ call[c].agent # None
         /\ Explained(c, call[c].agent.member, objects[call[c].id].member)
    /\ call[c].pc = "answered" /\ call[c].agent # None =>
         Explained(c, call[c].agent.member, call[c].answer.status = 200)

(* An internal error in the making.                                        *)
Faultless(c) ==
  /\ call[c].pc = "held" /\ call[c].op = "delete" => call[c].id \in agents \/ c \in overtaken
  /\ call[c].pc = "scanning" => agents = call[c].seen \/ c \in overtaken
  /\ call[c].pc = "answered" /\ call[c].answer.status = 500 => c \in overtaken

Sound(c) == WellFormed(c) /\ Coherent(c) /\ Faultless(c)

IInv ==
  /\ Numbered
  /\ Underway
  /\ MembershipIsAdminSet
  /\ deletions.once \cap agents = {} /\ deletions.twice = {}
  /\ \A c \in Calls : Coherent(c) /\ Faultless(c)
  /\ VerdictsHaveReasons
  /\ InternalErrorsAreRaces

-----------------------------------------------------------------------------
(* What steps do to the calls                                              *)

LEMMA CallBecomes ==
  ASSUME Underway, NEW c \in Calls, NEW v, call' = [call EXCEPT ![c] = v]
  PROVE  /\ DOMAIN call' = Calls /\ call'[c] = v
         /\ \A d \in Calls \ {c} : call'[d] = call[d]
  BY DEF Underway

LEMMA Replied ==
  ASSUME Underway, NEW c \in Calls, NEW answer, Reply(c, answer)
  PROVE  /\ DOMAIN call' = Calls
         /\ \A d \in Calls \ {c} : call'[d] = call[d]
         /\ DOMAIN call'[c] = CallFields
         /\ call'[c].pc = "answered" /\ call'[c].answer = answer
         /\ call'[c].op = call[c].op /\ call'[c].id = call[c].id
         /\ call'[c].arg = call[c].arg /\ call'[c].agent = call[c].agent
         /\ Served(c)' = Served(c)
<1>. DEFINE v == [call[c] EXCEPT !.pc = "answered", !.answer = answer]
<1>1. call' = [call EXCEPT ![c] = v]
  BY DEF Reply, Underway
<1>2. /\ DOMAIN v = CallFields
      /\ v.pc = "answered" /\ v.answer = answer
      /\ v.op = call[c].op /\ v.id = call[c].id
      /\ v.arg = call[c].arg /\ v.agent = call[c].agent
  BY DEF Underway, WellFormed, CallFields
<1>. HIDE DEF v
<1>. QED BY <1>1, <1>2, CallBecomes DEF Served

(* A step that leaves the store alone leaves everyone else's call sound.   *)
LEMMA OthersStay ==
  ASSUME IInv, NEW c \in Calls, NEW d \in Calls \ {c}, call'[d] = call[d],
         UNCHANGED store,
         gained \ {c} \subseteq gained', lost \ {c} \subseteq lost',
         overtaken \ {c} \subseteq overtaken'
  PROVE  Sound(d)'
<1>1. objects' = objects /\ agents' = agents
  BY DEF store
<1>2. WellFormed(d) /\ Coherent(d) /\ Faultless(d)
  BY DEF IInv, Underway
<1>3. /\ d \in gained => d \in gained'
      /\ d \in lost => d \in lost'
      /\ d \in overtaken => d \in overtaken'
  OBVIOUS
<1>4. WellFormed(d)'
  BY <1>1, <1>2 DEF WellFormed, Served
<1>5. Coherent(d)'
  BY <1>1, <1>2, <1>3 DEF Coherent, Explained, Shown
<1>6. Faultless(d)'
  BY <1>1, <1>2, <1>3 DEF Faultless
<1>. QED BY <1>4, <1>5, <1>6 DEF Sound

(* A call that proceeds while the registry's store stays as it is.         *)
LEMMA CallKeeps ==
  ASSUME IInv, NEW c \in Calls, DOMAIN call' = Calls,
         \A d \in Calls \ {c} : call'[d] = call[d],
         UNCHANGED <<store, membered, deletions>>,
         gained \ {c} \subseteq gained', lost \ {c} \subseteq lost',
         overtaken \ {c} \subseteq overtaken',
         Sound(c)', VerdictsHaveReasons', InternalErrorsAreRaces'
  PROVE  IInv'
<1>1. /\ objects' = objects /\ agents' = agents /\ next_id' = next_id
      /\ membered' = membered /\ deletions' = deletions
  BY DEF store
<1>2. Numbered'
  BY <1>1 DEF IInv, Numbered
<1>3. \A d \in Calls : Sound(d)'
  BY OthersStay
<1>4. MembershipIsAdminSet'
  BY <1>1 DEF IInv, MembershipIsAdminSet
<1>. QED BY <1>1, <1>2, <1>3, <1>4 DEF IInv, Underway, Sound

(* Nobody's call ends.                                                     *)
LEMMA OutcomeKept ==
  ASSUME IInv, UNCHANGED outcome
  PROVE  VerdictsHaveReasons' /\ InternalErrorsAreRaces'
  BY DEF IInv, VerdictsHaveReasons, InternalErrorsAreRaces

(* Of what a handler read, and replied, while nothing else changed.        *)
LEMMA ReplyKeeps ==
  ASSUME IInv, NEW c \in Calls, NEW answer, Reply(c, answer),
         UNCHANGED <<store, outcome, history>>, call[c].pc # "idle",
         answer.status \in Statuses, answer.status = 500 => c \in overtaken,
         call[c].op = "trust" =>
           /\ call[c].agent = None /\ answer.status = 200 =>
                Explained(c, answer.data.member, Shown(call[c].id))
           /\ call[c].agent # None =>
                Explained(c, call[c].agent.member, answer.status = 200)
  PROVE  IInv'
<1>1. /\ DOMAIN call' = Calls
      /\ \A d \in Calls \ {c} : call'[d] = call[d]
      /\ DOMAIN call'[c] = CallFields
      /\ call'[c].pc = "answered" /\ call'[c].answer = answer
      /\ call'[c].op = call[c].op /\ call'[c].id = call[c].id
      /\ call'[c].arg = call[c].arg /\ call'[c].agent = call[c].agent
  BY Replied DEF IInv
<1>2. WellFormed(c)'
  BY <1>1 DEF IInv, Underway, WellFormed
<1>3. Coherent(c)'
  BY <1>1 DEF Coherent, Explained, Shown, history, reasons, store
<1>4. Faultless(c)'
  BY <1>1 DEF Faultless, history, reasons
<1>. QED BY <1>1, <1>2, <1>3, <1>4, CallKeeps, OutcomeKept DEF Sound, history, reasons

LEMMA StartKeeps ==
  ASSUME IInv, NEW c \in Calls, NEW op, NEW id, NEW arg, Start(c, op, id, arg),
         op = "update" => arg \in Changes
  PROVE  IInv'
<1>. DEFINE v == Sent(op, id, arg, header[ClientOf[c]])
<1>1. /\ v.pc = "sent" /\ v.op = op /\ v.id = id /\ v.arg = arg /\ v.agent = None
      /\ DOMAIN v = CallFields
  BY DEF Sent, Idle, CallFields
<1>2. call' = [call EXCEPT ![c] = v] /\ outcome' = None
      /\ gained' = gained \ {c} /\ lost' = lost \ {c} /\ overtaken' = overtaken \ {c}
      /\ UNCHANGED <<store, membered, deletions>>
  BY DEF Start, Forget
<1>. HIDE DEF v
<1>3. /\ DOMAIN call' = Calls /\ call'[c] = v
      /\ \A d \in Calls \ {c} : call'[d] = call[d]
  BY <1>2, CallBecomes DEF IInv
<1>4. Sound(c)' /\ VerdictsHaveReasons' /\ InternalErrorsAreRaces'
  BY <1>1, <1>2, <1>3 DEF Sound, WellFormed, Coherent, Faultless, VerdictsHaveReasons,
                          InternalErrorsAreRaces
<1>. QED BY <1>2, <1>3, <1>4, CallKeeps

LEMMA RefuseKeeps ==
  ASSUME IInv, NEW c \in Calls, Refuse(c)
  PROVE  IInv'
<1>. DEFINE answer == Answer(Refusal(Served(c), call[c].bearer),
                             RefreshFor(Served(c), call[c].bearer), None)
<1>1. /\ Reply(c, answer) /\ Refusal(Served(c), call[c].bearer) # None
      /\ call[c].pc = "sent"
      /\ UNCHANGED <<store, outcome, history>>
  BY DEF Refuse
<1>2. answer.status \in {401, 403} /\ Served(c) # "badge"
  BY <1>1 DEF Answer, Refusal, PublicOps
<1>. HIDE DEF answer
<1>3. call[c].op = "trust" => call[c].agent = None
  BY <1>2 DEF Served
<1>. QED BY <1>1, <1>2, <1>3, ReplyKeeps DEF Statuses

LEMMA HandleReadKeeps ==
  ASSUME IInv, NEW c \in Calls, HandleRead(c)
  PROVE  IInv'
<1>1. PICK op \in {"get", "list"} :
        /\ Admitted(c, op)
        /\ Reply(c, ReadAnswer(op, call[c].id, call[c].arg, call[c].bearer))
        /\ UNCHANGED <<store, outcome, history>>
  BY DEF HandleRead
<1>. DEFINE answer == ReadAnswer(op, call[c].id, call[c].arg, call[c].bearer)
            agent == objects[call[c].id]
<1>2. call[c].pc = "sent" /\ Served(c) = op
  BY <1>1 DEF Admitted
<1>3. answer.status \in {200, 404}
  BY DEF ReadAnswer, Answer
<1>4. op = "get" /\ answer.status = 200 => call[c].id \in agents /\ answer.data = agent
  BY DEF ReadAnswer, Answer
<1>5. Reply(c, answer)
  BY <1>1
<1>. HIDE DEF answer
<1>6. call[c].op = "trust" => op = "get" /\ call[c].agent = None
  BY <1>2 DEF Served
<1>7. call[c].id \in agents => Explained(c, agent.member, Shown(call[c].id))
  BY DEF IInv, Numbered, Explained, Shown
<1>. QED BY <1>1, <1>2, <1>3, <1>4, <1>5, <1>6, <1>7, ReplyKeeps DEF Statuses

LEMMA ScanKeeps ==
  ASSUME IInv, NEW c \in Calls, BeginScan(c) \/ EndScan(c)
  PROVE  IInv'
<1>1. CASE BeginScan(c)
  <2>. DEFINE v == [call[c] EXCEPT !.pc = "scanning", !.seen = agents]
  <2>1. /\ call' = [call EXCEPT ![c] = v] /\ Served(c) = "validate"
        /\ UNCHANGED <<store, outcome, history>>
    BY <1>1 DEF BeginScan, Admitted, IInv, Underway
  <2>2. /\ DOMAIN v = CallFields /\ v.pc = "scanning" /\ v.seen = agents
        /\ v.op = call[c].op
    BY DEF IInv, Underway, WellFormed, CallFields
  <2>3. call[c].op = "validate"
    BY <2>1 DEF Served
  <2>. HIDE DEF v
  <2>4. /\ DOMAIN call' = Calls /\ call'[c] = v
        /\ \A d \in Calls \ {c} : call'[d] = call[d]
    BY <2>1, CallBecomes DEF IInv
  <2>5. Sound(c)'
    BY <2>1, <2>2, <2>3, <2>4 DEF Sound, WellFormed, Coherent, Faultless, store
  <2>. QED BY <2>1, <2>4, <2>5, CallKeeps, OutcomeKept DEF history, reasons
<1>2. CASE EndScan(c)
  <2>1. PICK answer \in ScanAnswers(call[c].arg, call[c].seen) : Reply(c, answer)
    BY <1>2 DEF EndScan
  <2>2. call[c].pc = "scanning" /\ UNCHANGED <<store, outcome, history>>
    BY <1>2 DEF EndScan
  <2>3. /\ answer.status \in {200, 500}
        /\ answer.status = 500 => agents # call[c].seen
    BY DEF ScanAnswers, Answer
  <2>4. /\ call[c].op = "validate"
        /\ agents = call[c].seen \/ c \in overtaken
    BY <2>2 DEF IInv, Underway, WellFormed, Faultless
  <2>. QED BY <2>1, <2>2, <2>3, <2>4, ReplyKeeps DEF Statuses
<1>. QED BY <1>1, <1>2

LEMMA LookupKeeps ==
  ASSUME IInv, NEW c \in Calls, Lookup(c)
  PROVE  IInv'
<1>1. PICK op \in AdminOps \cup {"badge"} : Admitted(c, op)
  BY DEF Lookup
<1>2. /\ call[c].pc = "sent" /\ Served(c) = op /\ Refusal(op, call[c].bearer) = None
      /\ UNCHANGED <<store, outcome, history>>
  BY <1>1 DEF Lookup, Admitted
<1>3. op \in AdminOps => Admin(call[c].bearer)
  <2>1. ASSUME op \in AdminOps PROVE Admin(call[c].bearer)
    <3>1. op \notin PublicOps
      BY <2>1 DEF AdminOps, PublicOps
    <3>. QED BY <1>2, <2>1, <3>1, NoneAssumption DEF Refusal
  <2>. QED BY <2>1
<1>4. call[c].op = "trust" =>
        call[c].agent # None /\ Explained(c, call[c].agent.member, Shown(call[c].id))
  BY <1>2 DEF Served, AdminOps, IInv, Coherent
<1>5. CASE call[c].id \in agents
  <2>. DEFINE v == [call[c] EXCEPT !.pc = "held"]
  <2>1. call' = [call EXCEPT ![c] = v]
    BY <1>5 DEF Lookup
  <2>2. /\ DOMAIN v = CallFields /\ v.pc = "held" /\ v.bearer = call[c].bearer
        /\ v.op = call[c].op /\ v.id = call[c].id /\ v.arg = call[c].arg
        /\ v.agent = call[c].agent
    BY DEF IInv, Underway, WellFormed, CallFields
  <2>. HIDE DEF v
  <2>3. /\ DOMAIN call' = Calls /\ call'[c] = v
        /\ \A d \in Calls \ {c} : call'[d] = call[d]
    BY <2>1, CallBecomes DEF IInv
  <2>4. Served(c)' = op
    BY <1>2, <2>2, <2>3 DEF Served
  <2>5. WellFormed(c)'
    BY <1>2, <1>3, <1>5, <2>2, <2>3, <2>4 DEF IInv, Underway, WellFormed, Numbered, store
  <2>6. Coherent(c)'
    BY <1>2, <1>4, <1>5, <2>2, <2>3 DEF Coherent, Explained, Shown, store, history, reasons
  <2>7. Faultless(c)'
    BY <1>2, <1>5, <2>2, <2>3 DEF Faultless, store
  <2>. QED BY <1>2, <2>3, <2>5, <2>6, <2>7, CallKeeps, OutcomeKept DEF Sound, history, reasons
<1>6. CASE call[c].id \notin agents
  <2>. DEFINE answer == Answer(404, RefreshFor(Served(c), call[c].bearer), None)
  <2>1. Reply(c, answer) /\ answer.status = 404
    BY <1>6 DEF Lookup, Missing, Answer
  <2>. HIDE DEF answer
  <2>2. ~Shown(call[c].id)
    BY <1>6 DEF Shown
  <2>. QED BY <1>2, <1>4, <2>1, <2>2, ReplyKeeps DEF Statuses, Explained
<1>. QED BY <1>5, <1>6

(* The badge is of the object that was looked up, listed still or not.     *)
LEMMA HandleBadgeKeeps ==
  ASSUME IInv, NEW c \in Calls, HandleBadge(c)
  PROVE  IInv'
<1>. DEFINE answer == BadgeAnswer(call[c].id)
<1>1. /\ call[c].pc = "held" /\ Reply(c, answer)
      /\ UNCHANGED <<store, outcome, history>>
  BY DEF HandleBadge, FinishOp
<1>2. /\ objects[call[c].id].member \in BOOLEAN
      /\ call[c].op = "trust" =>
           /\ call[c].agent # None
           /\ Explained(c, call[c].agent.member, objects[call[c].id].member)
  BY <1>1 DEF IInv, Numbered, Underway, WellFormed, Coherent
<1>3. /\ answer.status \in {200, 404}
      /\ (answer.status = 200) = objects[call[c].id].member
  BY <1>2 DEF BadgeAnswer, Answer, HasBadge
<1>. HIDE DEF answer
<1>. QED BY <1>1, <1>2, <1>3, ReplyKeeps DEF Statuses

(* A call that is over.                                                    *)
LEMMA EndKeeps ==
  ASSUME IInv, NEW c \in Calls, call' = [call EXCEPT ![c] = Idle], Forget(c),
         UNCHANGED <<store, membered, deletions>>,
         VerdictsHaveReasons', InternalErrorsAreRaces'
  PROVE  IInv'
<1>1. Idle.pc = "idle" /\ DOMAIN Idle = CallFields
  BY DEF Idle, CallFields
<1>2. /\ DOMAIN call' = Calls /\ call'[c] = Idle
      /\ \A d \in Calls \ {c} : call'[d] = call[d]
  BY CallBecomes DEF IInv
<1>3. Sound(c)'
  BY <1>1, <1>2 DEF Sound, WellFormed, Coherent, Faultless
<1>. QED BY <1>2, <1>3, CallKeeps DEF Forget

LEMMA ReceiveKeeps ==
  ASSUME IInv, NEW c \in Calls, Receive(c)
  PROVE  IInv'
<1>1. /\ call[c].pc = "answered" /\ UNCHANGED <<store, membered, deletions>>
      /\ WellFormed(c) /\ Coherent(c) /\ Faultless(c)
  BY DEF Receive, IInv, Underway
<1>2. CASE Served(c) = "get" /\ call[c].op = "trust" /\ call[c].answer.status = 200
  <2>1. PICK bearer : bearer = header'[ClientOf[c]]
    OBVIOUS
  <2>. DEFINE v == [Sent("trust", call[c].id, None, bearer)
                      EXCEPT !.agent = call[c].answer.data]
  <2>2. call' = [call EXCEPT ![c] = v] /\ UNCHANGED <<outcome, gained, lost, overtaken>>
    BY <1>2, <2>1 DEF Receive, reasons
  <2>3. /\ DOMAIN v = CallFields /\ v.pc = "sent" /\ v.op = "trust"
        /\ v.id = call[c].id /\ v.agent = call[c].answer.data
    BY DEF Sent, Idle, CallFields
  <2>. HIDE DEF v
  <2>4. /\ DOMAIN call' = Calls /\ call'[c] = v
        /\ \A d \in Calls \ {c} : call'[d] = call[d]
    BY <2>2, CallBecomes DEF IInv
  <2>5. call[c].agent = None
    BY <1>2 DEF Served
  <2>6. Explained(c, call[c].answer.data.member, Shown(call[c].id))
    BY <1>1, <1>2, <2>5 DEF Coherent
  <2>7. Sound(c)'
    BY <1>1, <2>2, <2>3, <2>4, <2>6
       DEF Sound, WellFormed, Coherent, Faultless, Explained, Shown, store
  <2>. QED BY <1>1, <2>2, <2>4, <2>7, CallKeeps, OutcomeKept
<1>3. CASE ~(Served(c) = "get" /\ call[c].op = "trust" /\ call[c].answer.status = 200)
  <2>1. /\ call' = [call EXCEPT ![c] = Idle] /\ Forget(c)
        /\ outcome' = [end |-> Outcome(c).end, verdict |-> Outcome(c).verdict,
                       gained |-> c \in gained, lost |-> c \in lost,
                       overtaken |-> c \in overtaken]
    BY <1>3 DEF Receive
  <2>2. ASSUME Outcome(c).verdict # None
        PROVE  Explained(c, Outcome(c).verdict.iab_member, Outcome(c).verdict.badge_available)
    <3>1. /\ Served(c) = "badge" /\ call[c].op = "trust"
          /\ Outcome(c).verdict = Verdict(call[c].agent, call[c].answer.status = 200)
      BY <2>2 DEF Outcome
    <3>2. call[c].agent # None
      BY <3>1 DEF Served
    <3>. QED BY <1>1, <3>1, <3>2 DEF Verdict, Coherent
  <2>3. ASSUME Outcome(c).end = "internal"
        PROVE  c \in overtaken
    <3>1. call[c].answer.status \in Statuses /\ Outcome(c).end # "ok"
      BY <1>1, <2>3 DEF WellFormed
    <3>2. Outcome(c).end = ErrorOf(call[c].answer.status) /\ ~(call[c].answer.status < 400)
      BY <3>1 DEF Outcome
    <3>3. call[c].answer.status = 500
      BY <2>3, <3>1, <3>2 DEF ErrorOf, Statuses
    <3>. QED BY <1>1, <3>3 DEF Faultless
  <2>4. VerdictsHaveReasons' /\ InternalErrorsAreRaces'
    BY <2>1, <2>2, <2>3 DEF VerdictsHaveReasons, InternalErrorsAreRaces, Explained
  <2>. QED BY <1>1, <2>1, <2>4, EndKeeps
<1>. QED BY <1>2, <1>3

LEMMA TimeOutKeeps ==
  ASSUME IInv, NEW c \in Calls, TimeOut(c)
  PROVE  IInv'
<1>. DEFINE v == [call[c] EXCEPT !.waiting = FALSE]
<1>1. /\ call' = [call EXCEPT ![c] = v]
      /\ outcome' = [end |-> "timeout", verdict |-> None,
                     gained |-> FALSE, lost |-> FALSE, overtaken |-> FALSE]
      /\ UNCHANGED <<store, membered, deletions, gained, lost, overtaken>>
  BY DEF TimeOut, history, reasons
<1>2. /\ DOMAIN v = CallFields /\ v.pc = call[c].pc /\ v.op = call[c].op
      /\ v.id = call[c].id /\ v.arg = call[c].arg /\ v.bearer = call[c].bearer
      /\ v.answer = call[c].answer /\ v.agent = call[c].agent /\ v.seen = call[c].seen
  BY DEF IInv, Underway, WellFormed, CallFields
<1>. HIDE DEF v
<1>3. /\ DOMAIN call' = Calls /\ call'[c] = v
      /\ \A d \in Calls \ {c} : call'[d] = call[d]
  BY <1>1, CallBecomes DEF IInv
<1>4. WellFormed(c)'
  BY <1>1, <1>2, <1>3 DEF IInv, Underway, WellFormed, Served, store
<1>5. Coherent(c)' /\ Faultless(c)'
  BY <1>1, <1>2, <1>3 DEF IInv, Coherent, Faultless, Explained, Shown, store
<1>6. VerdictsHaveReasons' /\ InternalErrorsAreRaces'
  BY <1>1 DEF VerdictsHaveReasons, InternalErrorsAreRaces
<1>. QED BY <1>1, <1>3, <1>4, <1>5, <1>6, CallKeeps DEF Sound

LEMMA DropKeeps ==
  ASSUME IInv, NEW c \in Calls, Drop(c)
  PROVE  IInv'
  BY EndKeeps, OutcomeKept DEF Drop

-----------------------------------------------------------------------------
(* Handlers that change the store.  Whoever may notice has its reason:     *)
(* verified_trust() between its two reads, a deletion under way and        *)
(* validate_domain's scan.                                                 *)
LEMMA HandlerKeeps ==
  ASSUME IInv, NEW c \in Calls, NEW answer, Reply(c, answer), call[c].op # "trust",
         call[c].pc # "idle", answer.status \in Statuses,
         answer.status = 500 => c \in overtaken, UNCHANGED outcome,
         Numbered', DOMAIN objects \subseteq DOMAIN objects',
         gained \subseteq gained', lost \subseteq lost', overtaken \subseteq overtaken',
         \A d \in Calls \ {c} : \A id :
           /\ BetweenReads(d, id) /\ call[d].pc # "held" =>
                /\ Shown(id) /\ ~Shown(id)' => d \in lost'
                /\ ~Shown(id) /\ Shown(id)' => d \in gained'
           /\ BetweenReads(d, id) /\ id \in DOMAIN objects =>
                /\ objects[id].member /\ ~objects'[id].member => d \in lost'
                /\ ~objects[id].member /\ objects'[id].member => d \in gained'
           /\ call[d].pc = "held" /\ call[d].op = "delete" /\ call[d].id = id
                /\ id \in agents /\ id \notin agents' => d \in overtaken'
           /\ call[d].pc = "scanning" /\ agents' # agents => d \in overtaken',
         MembershipIsAdminSet',
         deletions'.once \cap agents' = {}, deletions'.twice = {}
  PROVE  IInv'
<1>1. /\ DOMAIN call' = Calls
      /\ \A d \in Calls \ {c} : call'[d] = call[d]
      /\ DOMAIN call'[c] = CallFields
      /\ call'[c].pc = "answered" /\ call'[c].answer = answer
      /\ call'[c].op = call[c].op /\ call'[c].arg = call[c].arg
  BY Replied DEF IInv
<1>2. Sound(c)'
  BY <1>1 DEF IInv, Underway, Sound, WellFormed, Coherent, Faultless
<1>3. ASSUME NEW d \in Calls \ {c} PROVE Sound(d)'
  <2>1. call'[d] = call[d] /\ WellFormed(d) /\ Coherent(d) /\ Faultless(d)
    BY <1>1 DEF IInv, Underway
  <2>0. PICK id : id = call[d].id
    OBVIOUS
  <2>2. WellFormed(d)'
    BY <2>1 DEF WellFormed, Served
  <2>3. Coherent(d)'
    <3>1. CASE /\ call[d].op = "trust" /\ call[d].pc \in {"sent", "answered"}
               /\ BetweenReads(d, id)
      <4>1. /\ Shown(id) /\ ~Shown(id)' => d \in lost'
            /\ ~Shown(id) /\ Shown(id)' => d \in gained'
        BY <3>1
      <4>. QED BY <2>0, <2>1, <3>1, <4>1 DEF Coherent, Explained, Shown, BetweenReads
    <3>2. CASE call[d].op = "trust" /\ call[d].pc = "held"
      <4>1. call[d].agent # None /\ id \in DOMAIN objects
        BY <2>0, <2>1, <3>2 DEF Coherent, WellFormed
      <4>2. BetweenReads(d, id)
        BY <2>0, <3>2, <4>1 DEF BetweenReads
      <4>3. /\ objects[id].member /\ ~objects'[id].member => d \in lost'
            /\ ~objects[id].member /\ objects'[id].member => d \in gained'
        BY <4>1, <4>2
      <4>4. objects[id].member \in BOOLEAN /\ objects'[id].member \in BOOLEAN
        BY <4>1 DEF IInv, Numbered
      <4>. QED BY <2>0, <2>1, <3>2, <4>1, <4>3, <4>4 DEF Coherent, Explained
    <3>3. CASE /\ call[d].op = "trust" /\ call[d].pc # "held"
               /\ ~BetweenReads(d, id)
      BY <2>0, <2>1, <3>3 DEF Coherent, Explained, BetweenReads
    <3>4. CASE call[d].op # "trust"
      BY <2>1, <3>4 DEF Coherent
    <3>5. call[d].pc \in {"sent", "answered", "held"} \/ ~BetweenReads(d, id)
      BY DEF BetweenReads
    <3>. QED BY <3>1, <3>2, <3>3, <3>4, <3>5
  <2>4. Faultless(d)'
    <3>1. call[d].pc = "held" /\ call[d].op = "delete" /\ id \in agents /\ id \notin agents'
            => d \in overtaken'
      BY <2>0
    <3>2. call[d].pc = "scanning" /\ agents' # agents => d \in overtaken'
      OBVIOUS
    <3>. QED BY <2>0, <2>1, <3>1, <3>2 DEF Faultless
  <2>. QED BY <2>2, <2>3, <2>4 DEF Sound
<1>4. \A d \in Calls : Sound(d)'
  BY <1>2, <1>3
<1>. QED BY <1>1, <1>4, OutcomeKept DEF IInv, Underway, Sound

LEMMA HandleRegisterKeeps ==
  ASSUME IInv, NEW c \in Calls, HandleRegister(c)
  PROVE  IInv'
<1>. DEFINE body == call[c].arg
            answer == RegisterAnswer(body, call[c].bearer)
<1>1. /\ call[c].pc = "sent" /\ Served(c) = "register" /\ LoopIsFree("register")
      /\ RegisterAgent(body, call[c].bearer) /\ Reply(c, answer)
      /\ UNCHANGED <<outcome, history>>
  BY DEF HandleRegister, Admitted
<1>2. call[c].op = "register" /\ \A d \in Calls : call[d].pc # "scanning"
  BY <1>1 DEF Served, LoopIsFree, LoopOps
<1>3. answer.status \in {201, 400, 403}
  BY NoneAssumption DEF RegisterAnswer, BodyRefusal, Answer
<1>. HIDE DEF answer
<1>4. CASE UNCHANGED store
  BY <1>1, <1>2, <1>3, <1>4, ReplyKeeps DEF Statuses
<1>5. CASE ~UNCHANGED store
  <2>1. /\ objects' = [i \in DOMAIN objects \cup {next_id} |->
                         IF i = next_id THEN Stored(body) ELSE objects[i]]
        /\ agents' = agents \cup {next_id}
        /\ next_id' = next_id + 1
    BY <1>1, <1>5 DEF RegisterAgent
  <2>2. DOMAIN Stored(body) = AgentFields /\ Stored(body).member = FALSE
    BY DEF Stored, AgentFields
  <2>3. /\ next_id \notin DOMAIN objects
        /\ objects'[next_id] = Stored(body)
        /\ DOMAIN objects' = DOMAIN objects \cup {next_id}
        /\ \A id \in DOMAIN objects : objects'[id] = objects[id]
    BY <2>1 DEF IInv, Numbered
  <2>4. /\ membered' = membered /\ deletions' = deletions /\ outcome' = outcome
        /\ gained' = gained /\ lost' = lost /\ overtaken' = overtaken
    BY <1>1 DEF history, reasons
  <2>5. Numbered'
    <3>1. DOMAIN objects' = 1..(next_id' - 1) /\ next_id' \in Nat \ {0}
      BY <2>1, <2>3 DEF IInv, Numbered
    <3>. QED BY <2>1, <2>2, <2>3, <2>4, <3>1 DEF IInv, Numbered
  <2>6. MembershipIsAdminSet'
    BY <2>2, <2>3, <2>4 DEF IInv, MembershipIsAdminSet
  <2>7. deletions'.once \cap agents' = {} /\ deletions'.twice = {}
    BY <2>1, <2>3, <2>4 DEF IInv, Numbered
  <2>8. \A id : Shown(id)' = Shown(id)
    <3>1. agents \subseteq DOMAIN objects
      BY DEF IInv, Numbered
    <3>. QED BY <2>1, <2>2, <2>3, <3>1 DEF Shown
  <2>. QED BY <1>1, <1>2, <1>3, <2>1, <2>3, <2>4, <2>5, <2>6, <2>7, <2>8, HandlerKeeps
           DEF Statuses
<1>. QED BY <1>4, <1>5

LEMMA HandleUpdateKeeps ==
  ASSUME IInv, NEW c \in Calls, HandleUpdate(c)
  PROVE  IInv'
<1>. DEFINE id == call[c].id
            fields == call[c].arg
            agent == Merged(objects[id], fields)
            answer == Answer(200, Refresh(call[c].bearer), objects'[id])
<1>1. /\ call[c].pc = "held" /\ Served(c) = "update" /\ Reply(c, answer)
      /\ objects' = [objects EXCEPT ![id] = agent]
      /\ agents' = agents /\ next_id' = next_id
      /\ UNCHANGED <<outcome, deletions, overtaken>>
  BY DEF HandleUpdate, FinishOp, FinishUpdate
<1>2. /\ call[c].op = "update" /\ id \in DOMAIN objects /\ Admin(call[c].bearer)
      /\ fields \in Changes
  <2>1. call[c].op = "update"
    BY <1>1 DEF Served
  <2>. QED BY <1>1, <2>1 DEF IInv, Underway, WellFormed, AdminOps
<1>3. /\ membered' = IF objects'[id].member THEN membered \cup {id} ELSE membered
      /\ gained' = gained \cup
           {d \in Calls : BetweenReads(d, id) /\ objects[id].member = FALSE
                                              /\ objects'[id].member = TRUE}
      /\ lost' = lost \cup
           {d \in Calls : BetweenReads(d, id) /\ objects[id].member = TRUE
                                              /\ objects'[id].member = FALSE}
  BY <1>2 DEF HandleUpdate
<1>4. DOMAIN agent = AgentFields /\ agent.member \in BOOLEAN
  BY <1>2, ChangesAssumption DEF IInv, Numbered, Merged, AgentFields
<1>5. answer.status = 200
  BY DEF Answer
<1>. HIDE DEF agent, answer
<1>6. /\ DOMAIN objects' = DOMAIN objects /\ objects'[id] = agent
      /\ \A other \in DOMAIN objects \ {id} : objects'[other] = objects[other]
  BY <1>1, <1>2
<1>7. Numbered'
  BY <1>1, <1>4, <1>6 DEF IInv, Numbered
<1>8. MembershipIsAdminSet'
  BY <1>3, <1>6 DEF IInv, MembershipIsAdminSet
<1>9. deletions'.once \cap agents' = {} /\ deletions'.twice = {}
  BY <1>1 DEF IInv
<1>10. gained \subseteq gained' /\ lost \subseteq lost' /\ overtaken \subseteq overtaken'
  BY <1>1, <1>3
<1>11. ASSUME NEW d \in Calls \ {c}, NEW other, BetweenReads(d, other), other \in DOMAIN objects
       PROVE  /\ objects[other].member /\ ~objects'[other].member => d \in lost'
              /\ ~objects[other].member /\ objects'[other].member => d \in gained'
  <2>1. objects[other].member \in BOOLEAN /\ objects'[other].member \in BOOLEAN
    BY <1>7, <1>6, <1>11 DEF IInv, Numbered
  <2>2. CASE other = id
    BY <1>3, <1>11, <2>1, <2>2
  <2>3. CASE other # id
    BY <1>6, <1>11, <2>3
  <2>. QED BY <2>2, <2>3
<1>12. ASSUME NEW d \in Calls \ {c}, NEW other, BetweenReads(d, other)
       PROVE  /\ Shown(other) /\ ~Shown(other)' => d \in lost'
              /\ ~Shown(other) /\ Shown(other)' => d \in gained'
  <2>1. CASE other \in DOMAIN objects
    BY <1>1, <1>11, <1>12, <2>1 DEF Shown
  <2>2. CASE other \notin DOMAIN objects
    BY <1>1, <2>2 DEF Shown, IInv, Numbered
  <2>. QED BY <2>1, <2>2
<1>. QED BY <1>1, <1>2, <1>5, <1>6, <1>7, <1>8, <1>9, <1>10, <1>11, <1>12, HandlerKeeps
         DEF Statuses

LEMMA HandleVerifyHealthKeeps ==
  ASSUME IInv, NEW c \in Calls, HandleVerifyHealth(c)
  PROVE  IInv'
<1>. DEFINE id == call[c].id
            agent == [objects[id] EXCEPT !.healthy = objects[id].endpoint]
            answer == Answer(200, Refresh(call[c].bearer), None)
<1>1. /\ call[c].pc = "held" /\ Served(c) = "verify_health" /\ Reply(c, answer)
      /\ objects' = [objects EXCEPT ![id] = agent]
      /\ agents' = agents /\ next_id' = next_id
      /\ UNCHANGED <<outcome, history>>
  BY DEF HandleVerifyHealth, FinishOp, FinishVerifyHealth
<1>2. call[c].op = "verify_health" /\ id \in DOMAIN objects
  BY <1>1 DEF Served, IInv, Underway, WellFormed
<1>3. DOMAIN agent = AgentFields /\ agent.member = objects[id].member /\ answer.status = 200
  BY <1>2 DEF IInv, Numbered, AgentFields, Answer
<1>. HIDE DEF agent, answer
<1>4. /\ DOMAIN objects' = DOMAIN objects /\ objects'[id] = agent
      /\ \A other \in DOMAIN objects \ {id} : objects'[other] = objects[other]
  BY <1>1, <1>2
<1>5. \A other \in DOMAIN objects :
         /\ objects'[other].member = objects[other].member
         /\ DOMAIN objects'[other] = AgentFields
  BY <1>3, <1>4 DEF IInv, Numbered
<1>6. /\ membered' = membered /\ deletions' = deletions /\ outcome' = outcome
      /\ gained' = gained /\ lost' = lost /\ overtaken' = overtaken
  BY <1>1 DEF history, reasons
<1>7. Numbered'
  BY <1>1, <1>4, <1>5, <1>6 DEF IInv, Numbered
<1>8. MembershipIsAdminSet'
  BY <1>4, <1>5, <1>6 DEF IInv, MembershipIsAdminSet
<1>9. deletions'.once \cap agents' = {} /\ deletions'.twice = {}
  BY <1>1, <1>6 DEF IInv
<1>10. \A other : Shown(other)' = Shown(other)
  BY <1>1, <1>5 DEF Shown, IInv, Numbered
<1>. QED BY <1>1, <1>2, <1>3, <1>4, <1>5, <1>6, <1>7, <1>8, <1>9, <1>10, HandlerKeeps
         DEF Statuses

LEMMA HandleDeleteKeeps ==
  ASSUME IInv, NEW c \in Calls, HandleDelete(c)
  PROVE  IInv'
<1>. DEFINE id == call[c].id
            answer == DeleteAnswer(id, call[c].bearer)
            others == IF id \in agents THEN Calls \ {c} ELSE {}
<1>1. /\ call[c].pc = "held" /\ Served(c) = "delete" /\ Reply(c, answer)
      /\ agents' = agents \ {id} /\ objects' = objects /\ next_id' = next_id
      /\ deletions' = IF call'[c].answer.status # 200 THEN deletions
                      ELSE IF id \in deletions.once
                      THEN [deletions EXCEPT !.twice = @ \cup {id}]
                      ELSE [deletions EXCEPT !.once = @ \cup {id}]
      /\ UNCHANGED <<outcome, membered, gained>>
  BY DEF HandleDelete, FinishOp, FinishDelete
<1>2. /\ lost' = lost \cup {d \in others : BetweenReads(d, id) /\ call[d].pc # "held"}
      /\ overtaken' = overtaken \cup
           {d \in others : \/ call[d].pc = "scanning"
                           \/ call[d].pc = "held" /\ call[d].op = "delete" /\ call[d].id = id}
  BY DEF HandleDelete
<1>3. /\ (answer.status = 200) <=> id \in agents
      /\ (answer.status = 500) <=> id \notin agents
      /\ answer.status \in {200, 500}
  BY DEF DeleteAnswer, Answer
<1>. HIDE DEF answer
<1>4. /\ call[c].op = "delete" /\ id \in DOMAIN objects
      /\ id \in agents \/ c \in overtaken
  <2>1. call[c].op = "delete"
    BY <1>1 DEF Served
  <2>. QED BY <1>1, <2>1 DEF IInv, Underway, WellFormed, Faultless
<1>5. call'[c].answer = answer
  BY <1>1, Replied DEF IInv
<1>6. /\ id \in agents => deletions' = [deletions EXCEPT !.once = @ \cup {id}]
      /\ id \notin agents => deletions' = deletions
  BY <1>1, <1>3, <1>5 DEF IInv
<1>7. /\ deletions'.once \subseteq deletions.once \cup {id}
      /\ deletions'.twice = {}
      /\ DOMAIN deletions' = {"once", "twice"}
  BY <1>6 DEF IInv, Numbered
<1>8. Numbered'
  BY <1>1, <1>4, <1>7 DEF IInv, Numbered
<1>9. MembershipIsAdminSet'
  BY <1>1 DEF IInv, MembershipIsAdminSet
<1>10. deletions'.once \cap agents' = {} /\ deletions'.twice = {}
  BY <1>1, <1>7 DEF IInv
<1>11. gained \subseteq gained' /\ lost \subseteq lost' /\ overtaken \subseteq overtaken'
  BY <1>1, <1>2
<1>12. ASSUME NEW d \in Calls \ {c}, NEW other
       PROVE  /\ BetweenReads(d, other) /\ call[d].pc # "held" =>
                   /\ Shown(other) /\ ~Shown(other)' => d \in lost'
                   /\ ~Shown(other) /\ Shown(other)' => d \in gained'
              /\ call[d].pc = "held" /\ call[d].op = "delete" /\ call[d].id = other
                   /\ other \in agents /\ other \notin agents' => d \in overtaken'
              /\ call[d].pc = "scanning" /\ agents' # agents => d \in overtaken'
  <2>1. agents' # agents => id \in agents
    BY <1>1
  <2>2. CASE other = id
    BY <1>1, <1>2, <2>1, <2>2 DEF Shown
  <2>3. CASE other # id
    BY <1>1, <1>2, <2>1, <2>3 DEF Shown
  <2>. QED BY <2>2, <2>3
<1>13. answer.status \in Statuses
  BY <1>3 DEF Statuses
<1>. QED BY <1>1, <1>3, <1>4, <1>8, <1>9, <1>10, <1>11, <1>12, <1>13, HandlerKeeps

-----------------------------------------------------------------------------
LEMMA InitIInv == Init => IInv
<1>. SUFFICES ASSUME Init PROVE IInv
  OBVIOUS
<1>1. /\ DOMAIN objects = {} /\ agents = {} /\ next_id = 1
      /\ deletions = [once |-> {}, twice |-> {}] /\ outcome = None
      /\ DOMAIN call = Calls /\ \A c \in Calls : call[c] = Idle
  BY DEF Init, StoreInit, ClientInit
<1>2. Idle.pc = "idle" /\ DOMAIN Idle = CallFields
  BY DEF Idle, CallFields
<1>. QED BY <1>1, <1>2 DEF IInv, Numbered, Underway, WellFormed, MembershipIsAdminSet,
                           Coherent, Faultless, VerdictsHaveReasons, InternalErrorsAreRaces

LEMMA SameState == IInv /\ UNCHANGED vars => IInv'
<1>. SUFFICES ASSUME IInv, UNCHANGED vars PROVE IInv'
  OBVIOUS
<1>. USE DEF vars, store, history, reasons
<1>1. Numbered' /\ MembershipIsAdminSet' /\ VerdictsHaveReasons' /\ InternalErrorsAreRaces'
  BY DEF IInv, Numbered, MembershipIsAdminSet, VerdictsHaveReasons, InternalErrorsAreRaces
<1>2. Underway'
  BY DEF IInv, Underway, WellFormed, Served
<1>3. \A c \in Calls : Coherent(c)' /\ Faultless(c)'
  BY DEF IInv, Coherent, Faultless, Explained, Shown
<1>. QED BY <1>1, <1>2, <1>3 DEF IInv

LEMMA NextKeepsIInv == IInv /\ [Next]_vars => IInv'
<1>. SUFFICES ASSUME IInv, [Next]_vars PROVE IInv'
  OBVIOUS
<1>1. CASE UNCHANGED vars
  BY <1>1, SameState
<1>2. ASSUME NEW c \in Calls,
             \/ CallRegister(c) \/ CallUpdate(c) \/ CallOnAgent(c)
             \/ CallList(c) \/ CallValidate(c)
      PROVE  IInv'
  BY <1>2, StartKeeps DEF CallRegister, CallUpdate, CallOnAgent, CallList, CallValidate
<1>3. ASSUME NEW c \in Calls,
             \/ Refuse(c) \/ HandleRegister(c) \/ HandleRead(c) \/ BeginScan(c) \/ EndScan(c)
             \/ Lookup(c) \/ HandleBadge(c)
             \/ HandleUpdate(c) \/ HandleVerifyHealth(c) \/ HandleDelete(c)
      PROVE  IInv'
  BY <1>3, RefuseKeeps, HandleRegisterKeeps, HandleReadKeeps, ScanKeeps, LookupKeeps,
     HandleBadgeKeeps, HandleUpdateKeeps, HandleVerifyHealthKeeps, HandleDeleteKeeps
<1>4. ASSUME NEW c \in Calls, Receive(c) \/ TimeOut(c) \/ Drop(c)
      PROVE  IInv'
  BY <1>4, ReceiveKeeps, TimeOutKeeps, DropKeeps
<1>. QED BY <1>1, <1>2, <1>3, <1>4 DEF Next

LEMMA InductiveInvariant == Spec => []IInv
  BY InitIInv, NextKeepsIInv, PTL DEF Spec

-----------------------------------------------------------------------------
(* Whatever a body claims when it is registered, and whoever sends an      *)
(* update, an agent is a member only if an update that carried an admin's  *)
(* token made it one.                                                      *)
THEOREM MembershipIsDecided == Spec => []MembershipIsAdminSet
<1>1. IInv => MembershipIsAdminSet
  BY DEF IInv
<1>. QED BY <1>1, InductiveInvariant, PTL

(* However many requests delete an agent at once, one is told it did.      *)
THEOREM DeletionsAreToldOnce == Spec => []OneDeletionEach
<1>1. IInv => OneDeletionEach
  BY DEF IInv, OneDeletionEach
<1>. QED BY <1>1, InductiveInvariant, PTL

(* Where verified_trust's two answers disagree about a membership, an      *)
(* update changed it or the agent was deleted between the two reads, in    *)
(* the direction that the verdict shows.                                   *)
THEOREM VerdictsAreExplained == Spec => []VerdictsHaveReasons
<1>1. IInv => VerdictsHaveReasons
  BY DEF IInv
<1>. QED BY <1>1, InductiveInvariant, PTL

(* A client sees an internal error only when another request's deletion    *)
(* came between its own request's look at the store and its use of it.     *)
THEOREM ErrorsAreRaces == Spec => []InternalErrorsAreRaces
<1>1. IInv => InternalErrorsAreRaces
  BY DEF IInv
<1>. QED BY <1>1, InductiveInvariant, PTL

(* No step lists an agent again that was deleted: ids are not reused, and  *)
(* an update or a health check under way writes to the object alone.       *)
THEOREM DeletedAgentsStayDeleted == Spec => DeletedStaysDeleted
<1>1. IInv /\ [Next]_vars => NoAgentReturns
  <2>. SUFFICES ASSUME IInv, [Next]_vars,
                       NEW id \in 1..(next_id - 1), id \notin agents, id \in agents'
                PROVE  FALSE
    BY DEF NoAgentReturns
  <2>1. next_id \in Nat /\ id # next_id
    BY DEF IInv, Numbered
  <2>2. PICK c \in Calls : HandleRegister(c)
    BY DEF Next, vars, store, Start, CallRegister, CallUpdate, CallOnAgent, CallList,
           CallValidate, Refuse, HandleRead, BeginScan, EndScan, Lookup, HandleBadge,
           HandleUpdate, FinishUpdate,
           HandleVerifyHealth, FinishVerifyHealth, HandleDelete, FinishDelete,
           Receive, TimeOut, Drop
  <2>. QED BY <2>1, <2>2 DEF HandleRegister, RegisterAgent, store
<1>. QED BY <1>1, InductiveInvariant, PTL DEF Spec, DeletedStaysDeleted

-----------------------------------------------------------------------------
(* The tokens a client comes by.  S is any set of tokens that refreshing   *)
(* does not lead out of, the client's first token being one of them.       *)

Closed(S) == \A t \in S : Refresh(t) # None => Refresh(t) \in S

(* What client k sends and is sent stays within S.                         *)
Within(k, S, c) ==
  ClientOf[c] = k =>
    /\ call[c].pc # "idle" => call[c].bearer \in S
    /\ call[c].pc = "answered" => call[c].answer.refresh \in S \cup {None}

Holds(k, S) == token[k] \in S /\ header[k] = token[k]

TokensWithin(k, S) ==
  /\ DOMAIN token = Clients /\ DOMAIN header = Clients
  /\ Holds(k, S)
  /\ \A c \in Calls : Within(k, S, c)

LEMMA RefreshedWithin ==
  ASSUME NEW S, Closed(S), NEW t \in S
  PROVE  Refresh(t) \in S \cup {None}
  BY DEF Closed

(* A step that changes the call of one coroutine and no token.             *)
LEMMA OneCallWithin ==
  ASSUME NEW k, NEW S, TokensWithin(k, S), Underway, NEW c \in Calls, NEW v,
         call' = [call EXCEPT ![c] = v], UNCHANGED <<token, header>>,
         ClientOf[c] = k =>
           /\ v.pc # "idle" => v.bearer \in S
           /\ v.pc = "answered" => v.answer.refresh \in S \cup {None}
  PROVE  TokensWithin(k, S)'
<1>1. /\ call'[c] = v
      /\ \A d \in Calls \ {c} : call'[d] = call[d]
  BY CallBecomes
<1>2. \A d \in Calls : Within(k, S, d)'
  BY <1>1 DEF TokensWithin, Within
<1>. QED BY <1>2 DEF TokensWithin, Holds

LEMMA AnswerWithin ==
  ASSUME NEW k, NEW S, TokensWithin(k, S), Underway, NEW c \in Calls,
         call[c].pc # "idle", NEW answer, Reply(c, answer), UNCHANGED <<token, header>>,
         answer.refresh \in {None, Refresh(call[c].bearer)}, Closed(S)
  PROVE  TokensWithin(k, S)'
<1>. DEFINE v == [call[c] EXCEPT !.pc = "answered", !.answer = answer]
<1>1. call' = [call EXCEPT ![c] = v]
  BY DEF Reply, Underway
<1>2. v.pc = "answered" /\ v.answer = answer /\ v.bearer = call[c].bearer
  BY DEF Underway, WellFormed, CallFields
<1>. HIDE DEF v
<1>3. ClientOf[c] = k => call[c].bearer \in S
  BY DEF TokensWithin, Within
<1>4. ClientOf[c] = k => answer.refresh \in S \cup {None}
  BY <1>3, RefreshedWithin
<1>. QED BY <1>1, <1>2, <1>3, <1>4, OneCallWithin

LEMMA StartWithin ==
  ASSUME NEW k, NEW S, TokensWithin(k, S), Underway, NEW c \in Calls,
         NEW op, NEW id, NEW arg, Start(c, op, id, arg)
  PROVE  TokensWithin(k, S)'
<1>. DEFINE v == Sent(op, id, arg, header[ClientOf[c]])
<1>1. v.pc = "sent" /\ v.bearer = header[ClientOf[c]]
  BY DEF Sent, Idle
<1>2. call' = [call EXCEPT ![c] = v] /\ UNCHANGED <<token, header>>
  BY DEF Start
<1>. HIDE DEF v
<1>3. header[k] \in S
  BY DEF TokensWithin, Holds
<1>. QED BY <1>1, <1>2, <1>3, OneCallWithin

LEMMA HandlersWithin ==
  ASSUME NEW k, NEW S, TokensWithin(k, S), Closed(S), Underway, NEW c \in Calls,
         \/ Refuse(c) \/ HandleRegister(c) \/ HandleRead(c) \/ BeginScan(c) \/ EndScan(c)
         \/ Lookup(c) \/ HandleBadge(c)
         \/ HandleUpdate(c) \/ HandleVerifyHealth(c) \/ HandleDelete(c)
  PROVE  TokensWithin(k, S)'
<1>1. CASE Refuse(c)
  <2>. DEFINE answer == Answer(Refusal(Served(c), call[c].bearer),
                               RefreshFor(Served(c), call[c].bearer), None)
  <2>1. /\ Reply(c, answer) /\ call[c].pc # "idle" /\ UNCHANGED <<token, header>>
    BY <1>1 DEF Refuse
  <2>2. answer.refresh \in {None, Refresh(call[c].bearer)}
    BY DEF Answer, RefreshFor
  <2>. HIDE DEF answer
  <2>. QED BY <2>1, <2>2, AnswerWithin
<1>2. CASE HandleRegister(c)
  <2>. DEFINE answer == RegisterAnswer(call[c].arg, call[c].bearer)
  <2>1. /\ Reply(c, answer) /\ call[c].pc # "idle" /\ UNCHANGED <<token, header>>
    BY <1>2 DEF HandleRegister, Admitted
  <2>2. answer.refresh \in {None, Refresh(call[c].bearer)}
    BY DEF RegisterAnswer, Answer
  <2>. HIDE DEF answer
  <2>. QED BY <2>1, <2>2, AnswerWithin
<1>3. CASE HandleRead(c)
  <2>1. PICK op \in {"get", "list"} :
          /\ Admitted(c, op)
          /\ Reply(c, ReadAnswer(op, call[c].id, call[c].arg, call[c].bearer))
          /\ UNCHANGED <<token, header>>
    BY <1>3 DEF HandleRead
  <2>. DEFINE answer == ReadAnswer(op, call[c].id, call[c].arg, call[c].bearer)
  <2>2. answer.refresh \in {None, Refresh(call[c].bearer)}
    BY DEF ReadAnswer, Answer
  <2>3. Reply(c, answer) /\ call[c].pc # "idle"
    BY <2>1 DEF Admitted
  <2>. HIDE DEF answer
  <2>. QED BY <2>1, <2>2, <2>3, AnswerWithin
<1>4. CASE Lookup(c)
  <2>1. call[c].pc # "idle" /\ UNCHANGED <<token, header>>
    BY <1>4 DEF Lookup, Admitted
  <2>2. CASE call[c].id \in agents
    <3>. DEFINE v == [call[c] EXCEPT !.pc = "held"]
    <3>1. call' = [call EXCEPT ![c] = v]
      BY <1>4, <2>2 DEF Lookup
    <3>2. v.pc = "held" /\ v.bearer = call[c].bearer
      BY DEF Underway, WellFormed, CallFields
    <3>. HIDE DEF v
    <3>3. ClientOf[c] = k => call[c].bearer \in S
      BY <2>1 DEF TokensWithin, Within
    <3>. QED BY <2>1, <3>1, <3>2, <3>3, OneCallWithin
  <2>3. CASE call[c].id \notin agents
    <3>. DEFINE answer == Answer(404, RefreshFor(Served(c), call[c].bearer), None)
    <3>1. Reply(c, answer)
      BY <1>4, <2>3 DEF Lookup, Missing
    <3>2. answer.refresh \in {None, Refresh(call[c].bearer)}
      BY DEF Answer, RefreshFor
    <3>. HIDE DEF answer
    <3>. QED BY <2>1, <3>1, <3>2, AnswerWithin
  <2>. QED BY <2>2, <2>3
<1>5. CASE HandleUpdate(c)
  <2>. DEFINE answer == Answer(200, Refresh(call[c].bearer), objects'[call[c].id])
  <2>1. /\ Reply(c, answer) /\ call[c].pc # "idle" /\ UNCHANGED <<token, header>>
    BY <1>5 DEF HandleUpdate, FinishOp
  <2>2. answer.refresh = Refresh(call[c].bearer)
    BY DEF Answer
  <2>. HIDE DEF answer
  <2>. QED BY <2>1, <2>2, AnswerWithin
<1>6. CASE HandleVerifyHealth(c)
  <2>. DEFINE answer == Answer(200, Refresh(call[c].bearer), None)
  <2>1. /\ Reply(c, answer) /\ call[c].pc # "idle" /\ UNCHANGED <<token, header>>
    BY <1>6 DEF HandleVerifyHealth, FinishOp
  <2>2. answer.refresh = Refresh(call[c].bearer)
    BY DEF Answer
  <2>. HIDE DEF answer
  <2>. QED BY <2>1, <2>2, AnswerWithin
<1>7. CASE HandleDelete(c)
  <2>. DEFINE answer == DeleteAnswer(call[c].id, call[c].bearer)
  <2>1. /\ Reply(c, answer) /\ call[c].pc # "idle" /\ UNCHANGED <<token, header>>
    BY <1>7 DEF HandleDelete, FinishOp
  <2>2. answer.refresh \in {None, Refresh(call[c].bearer)}
    BY DEF DeleteAnswer, Answer
  <2>. HIDE DEF answer
  <2>. QED BY <2>1, <2>2, AnswerWithin
<1>8. CASE BeginScan(c)
  <2>. DEFINE v == [call[c] EXCEPT !.pc = "scanning", !.seen = agents]
  <2>1. /\ call' = [call EXCEPT ![c] = v] /\ call[c].pc = "sent"
        /\ UNCHANGED <<token, header>>
    BY <1>8 DEF BeginScan, Admitted, Underway
  <2>2. v.pc = "scanning" /\ v.bearer = call[c].bearer
    BY DEF Underway, WellFormed, CallFields
  <2>. HIDE DEF v
  <2>3. ClientOf[c] = k => call[c].bearer \in S
    BY <2>1 DEF TokensWithin, Within
  <2>. QED BY <2>1, <2>2, <2>3, OneCallWithin
<1>9. CASE EndScan(c)
  <2>1. PICK answer \in ScanAnswers(call[c].arg, call[c].seen) : Reply(c, answer)
    BY <1>9 DEF EndScan
  <2>2. call[c].pc # "idle" /\ UNCHANGED <<token, header>>
    BY <1>9 DEF EndScan
  <2>3. answer.refresh = None
    BY DEF ScanAnswers, Answer
  <2>. QED BY <2>1, <2>2, <2>3, AnswerWithin
<1>10. CASE HandleBadge(c)
  <2>. DEFINE answer == BadgeAnswer(call[c].id)
  <2>1. /\ Reply(c, answer) /\ call[c].pc # "idle" /\ UNCHANGED <<token, header>>
    BY <1>10 DEF HandleBadge, FinishOp
  <2>2. answer.refresh = None
    BY DEF BadgeAnswer, Answer
  <2>. HIDE DEF answer
  <2>. QED BY <2>1, <2>2, AnswerWithin
<1>. QED BY <1>1, <1>2, <1>3, <1>4, <1>5, <1>6, <1>7, <1>8, <1>9, <1>10

LEMMA ReceiveWithin ==
  ASSUME NEW k \in Clients, NEW S, TokensWithin(k, S), Underway, NEW c \in Calls, Receive(c)
  PROVE  TokensWithin(k, S)'
<1>. DEFINE client == ClientOf[c]
            refresh == call[c].answer.refresh
<1>1. client \in Clients /\ call[c].pc = "answered" /\ AbsorbNewToken(client, refresh)
  BY ClientsAssumption DEF Receive
<1>2. client = k => refresh \in S \cup {None}
  BY <1>1 DEF TokensWithin, Within
<1>. HIDE DEF client, refresh
<1>3. DOMAIN token' = Clients /\ DOMAIN header' = Clients
  BY <1>1 DEF AbsorbNewToken, TokensWithin
<1>4. Holds(k, S)'
  <2>1. CASE IsNew(client, refresh)
    <3>1. token' = [token EXCEPT ![client] = refresh] /\ header' = [header EXCEPT ![client] = refresh]
      BY <1>1, <2>1 DEF AbsorbNewToken
    <3>2. refresh # None
      BY <2>1 DEF IsNew
    <3>. QED BY <1>1, <1>2, <3>1, <3>2 DEF TokensWithin, Holds
  <2>2. CASE ~IsNew(client, refresh)
    <3>1. token' = token /\ header' = header
      BY <1>1, <2>2 DEF AbsorbNewToken
    <3>. QED BY <3>1 DEF TokensWithin, Holds
  <2>. QED BY <2>1, <2>2
<1>5. PICK v : /\ call' = [call EXCEPT ![c] = v]
               /\ \/ v = Idle
                  \/ v.pc = "sent" /\ v.bearer = header'[client]
  <2>1. CASE Served(c) = "get" /\ call[c].op = "trust" /\ call[c].answer.status = 200
    <3>. DEFINE v == [Sent("trust", call[c].id, None, header'[client])
                        EXCEPT !.agent = call[c].answer.data]
    <3>1. v.pc = "sent" /\ v.bearer = header'[client]
      BY DEF Sent, Idle
    <3>2. call' = [call EXCEPT ![c] = v]
      BY <2>1 DEF Receive, client
    <3>. QED BY <3>1, <3>2
  <2>2. CASE ~(Served(c) = "get" /\ call[c].op = "trust" /\ call[c].answer.status = 200)
    <3>1. call' = [call EXCEPT ![c] = Idle]
      BY <2>2 DEF Receive
    <3>. QED BY <3>1
  <2>. QED BY <2>1, <2>2
<1>6. /\ call'[c] = v
      /\ \A d \in Calls \ {c} : call'[d] = call[d]
  BY <1>5, CallBecomes
<1>7. Idle.pc = "idle"
  BY DEF Idle
<1>8. \A d \in Calls : Within(k, S, d)'
  BY <1>4, <1>5, <1>6, <1>7 DEF TokensWithin, Within, Holds, client
<1>. QED BY <1>3, <1>4, <1>8 DEF TokensWithin

LEMMA EndWithin ==
  ASSUME NEW k, NEW S, TokensWithin(k, S), Underway, NEW c \in Calls, TimeOut(c) \/ Drop(c)
  PROVE  TokensWithin(k, S)'
<1>1. CASE TimeOut(c)
  <2>. DEFINE v == [call[c] EXCEPT !.waiting = FALSE]
  <2>1. call' = [call EXCEPT ![c] = v] /\ UNCHANGED <<token, header>>
    BY <1>1 DEF TimeOut
  <2>2. v.pc = call[c].pc /\ v.bearer = call[c].bearer /\ v.answer = call[c].answer
    BY DEF Underway, WellFormed, CallFields
  <2>. HIDE DEF v
  <2>3. Within(k, S, c)
    BY DEF TokensWithin
  <2>4. ClientOf[c] = k =>
          /\ v.pc # "idle" => v.bearer \in S
          /\ v.pc = "answered" => v.answer.refresh \in S \cup {None}
    BY <2>2, <2>3 DEF Within
  <2>. QED BY <2>1, <2>4, OneCallWithin
<1>2. CASE Drop(c)
  <2>1. call' = [call EXCEPT ![c] = Idle] /\ UNCHANGED <<token, header>> /\ Idle.pc = "idle"
    BY <1>2 DEF Drop, Idle
  <2>. QED BY <2>1, OneCallWithin
<1>. QED BY <1>1, <1>2

LEMMA TokensStayWithin ==
  ASSUME NEW k \in Clients, NEW S, FirstToken[k] \in S, Closed(S)
  PROVE  Spec => []TokensWithin(k, S)
<1>1. Init => TokensWithin(k, S)
  <2>. SUFFICES ASSUME Init PROVE TokensWithin(k, S)
    OBVIOUS
  <2>1. token = FirstToken /\ header = FirstToken /\ \A c \in Calls : call[c].pc = "idle"
    BY DEF Init, ClientInit, Idle
  <2>. QED BY <2>1, ClientsAssumption DEF TokensWithin, Holds, Within
<1>2. IInv /\ TokensWithin(k, S) /\ [Next]_vars => TokensWithin(k, S)'
  <2>. SUFFICES ASSUME Underway, TokensWithin(k, S), [Next]_vars
                PROVE  TokensWithin(k, S)'
    BY DEF IInv
  <2>1. CASE UNCHANGED vars
    BY <2>1 DEF vars, TokensWithin, Holds, Within
  <2>2. ASSUME NEW c \in Calls,
               \/ CallRegister(c) \/ CallUpdate(c) \/ CallOnAgent(c)
               \/ CallList(c) \/ CallValidate(c)
        PROVE  TokensWithin(k, S)'
    BY <2>2, StartWithin DEF CallRegister, CallUpdate, CallOnAgent, CallList, CallValidate
  <2>3. ASSUME NEW c \in Calls,
               \/ Refuse(c) \/ HandleRegister(c) \/ HandleRead(c) \/ BeginScan(c) \/ EndScan(c)
               \/ Lookup(c) \/ HandleBadge(c)
               \/ HandleUpdate(c) \/ HandleVerifyHealth(c) \/ HandleDelete(c)
        PROVE  TokensWithin(k, S)'
    BY <2>3, HandlersWithin
  <2>4. ASSUME NEW c \in Calls, Receive(c) \/ TimeOut(c) \/ Drop(c)
        PROVE  TokensWithin(k, S)'
    BY <2>4, ReceiveWithin, EndWithin
  <2>. QED BY <2>1, <2>2, <2>3, <2>4 DEF Next
<1>. QED BY <1>1, <1>2, InductiveInvariant, PTL DEF Spec

(* Whatever the answers and the order they come in, a client's header      *)
(* always carries its token, and that is its first one or one that         *)
(* refreshing leads to from there: what answers to older requests put back *)
(* is never another client's (_absorb_new_token).                          *)
THEOREM ClientsKeepToTheirTokens ==
  ASSUME NEW k \in Clients, NEW S, FirstToken[k] \in S, Closed(S)
  PROVE  Spec => []Holds(k, S)
<1>1. TokensWithin(k, S) => Holds(k, S)
  BY DEF TokensWithin
<1>. QED BY <1>1, TokensStayWithin, PTL

NoAdmins(S) == \A t \in S \cap Tokens : ~TokenCtx[t].admin
NeverAdministers(k) ==
  \A c \in Calls : ClientOf[c] = k /\ call[c].pc = "held" => Served(c) \notin AdminOps

(* So a client whose tokens, refreshed as often as you like, are no        *)
(* admin's, never gets a request as far as an agent that an admin may      *)
(* change (`ctx.admin`, before update, delete and verify_health).          *)
THEOREM UsersAdministerNothing ==
  ASSUME NEW k \in Clients, NEW S, FirstToken[k] \in S, Closed(S), NoAdmins(S)
  PROVE  Spec => []NeverAdministers(k)
<1>1. IInv /\ TokensWithin(k, S) => NeverAdministers(k)
  <2>. SUFFICES ASSUME IInv, TokensWithin(k, S), NEW c \in Calls, ClientOf[c] = k,
                       call[c].pc = "held", Served(c) \in AdminOps
                PROVE  FALSE
    BY DEF NeverAdministers
  <2>1. Admin(call[c].bearer)
    BY DEF IInv, Underway, WellFormed
  <2>2. call[c].bearer \in S
    BY DEF TokensWithin, Within
  <2>. QED BY <2>1, <2>2 DEF NoAdmins, Admin, Authenticated
<1>. QED BY <1>1, TokensStayWithin, InductiveInvariant, PTL
=============================================================================
