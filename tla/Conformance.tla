----------------------------- MODULE Conformance -----------------------------
(***************************************************************************)
(* The conformance runner (conformance/runner.py, report.py), replaying    *)
(* the golden vectors against an implementation that differs from the      *)
(* shared models in at most one respect, the drift, over a checkout in     *)
(* which at most one file is missing or alien.                             *)
(***************************************************************************)
EXTENDS Lifecycles, GoldenVectors, SequencesExt

CONSTANTS
  Drifts,  \* the drifts an implementation is tried with
  Disks    \* the checkouts: [lost, regenerated, jsonschema]

VARIABLES
  drift,   \* how the implementation differs from the shared models
  disk,    \* the checkout: which file is lost, whether spec/ was regenerated
           \* from the drifted code, whether jsonschema is installed
  stage,   \* what the runner is at
  todo,    \* documents of the area not read yet
  doc,     \* the document being replayed, or NoDoc
  next,    \* its next vector or sequence
  seen,    \* targets a document of the area named
  counts,  \* checks recorded, per kind and status
  gaps     \* the failed checks

vars == <<drift, disk, stage, todo, doc, next, seen, counts, gaps>>

NoDoc == "no document"
AlienDoc == "alien"   \* a document of a target nobody knows
NoFile == <<"none", "none">>

-----------------------------------------------------------------------------
(* Drifts: one change to one model, one validator or one lifecycle edge.   *)

Drift(kind, model, what) == [kind |-> kind, model |-> model, what |-> what]
NoDrift == Drift("none", "none", "none")
LaxMoney == Drift("lax", "Money", "amount_micros")
FloatMoney == Drift("floats", "Money", "amount_micros")

FieldDrifts ==
  UNION {{Drift("loses", m, f) : f \in Fields(m)}
           \cup {Drift("requires", m, f) : f \in Models[m].may}
           \cup {Drift("relaxes", m, f) : f \in Models[m].needs}
         : m \in DOMAIN Models}
ModelDrifts ==
  {Drift(kind, m, "") : kind \in {"adds", "keeps_extras", "forbids_extras"},
                        m \in DOMAIN Models}
LengthDrifts == {Drift("empties", m, NonEmpty[m]) : m \in DOMAIN NonEmpty}
ShapeDrifts == FieldDrifts \cup ModelDrifts \cup LengthDrifts \cup {FloatMoney}

RuleDrifts ==
  UNION {{Drift("skips", m, rules[k].rule) : k \in DOMAIN rules}
         : <<m, rules>> \in {<<m, RulesOf(Instance(m, "", {}))>> : m \in DOMAIN Models}}

(* A lifecycle with an edge dropped, or added as a forward edge.  A table  *)
(* StateMachine refuses never gets as far as the runner.                   *)
Toggled(M, from, to) ==
  LET kept == SelectSeq(M.rules, LAMBDA r : <<r.from, r.to>> # <<from, to>>)
  IN  [M EXCEPT !.rules = IF kept # M.rules THEN kept
                          ELSE Append(M.rules, Move(from, to))]
EdgeDrifts ==
  UNION {{Drift("edge", M.name, <<from, to>>) :
            <<from, to>> \in {e \in M.states \X M.states :
                                Valid(Toggled(M, e[1], e[2]))}}
         : M \in CanonicalLifecycles}

-----------------------------------------------------------------------------
(* What the drifted implementation makes of a vector's data: pydantic's    *)
(* model_validate and model_dump over the models of the library.           *)

(* A drift that is not one of this model leaves its instances alone.       *)
Parsed(i) == [i EXCEPT !.given = @ \ (IF drift.kind = "loses" /\ drift.model = i.model
                                      THEN {drift.what} ELSE {})]

MoneyIn(i) ==
  {f \in DOMAIN Models[i.model].parts :
     /\ Models[i.model].parts[f] = "Money"
     /\ f \in Models[i.model].needs \cup i.given}

Present(v) ==
  {i.model : i \in v.holds}
    \cup (IF \E i \in v.holds : MoneyIn(i) # {} THEN {"Money"} ELSE {})

(* Errors of single fields, all of which one ValidationError lists.        *)
AbsenceErrors(v) ==
  {e \in {v.flaw} : /\ e[1] = "missing"
                    /\ drift \notin {Drift("relaxes", e[2], e[3]),
                                     Drift("loses", e[2], e[3])}}
    \cup {Missing(i.model, drift.what) :
            i \in {j \in v.holds : /\ drift.kind = "requires"
                                   /\ drift.model = j.model
                                   /\ drift.what \notin j.given}}
EmptyErrors(v) ==
  {Empty(i.model) : i \in {j \in v.holds :
     /\ j.kind = "empty" /\ j.model \in DOMAIN NonEmpty
     /\ drift \notin {Drift("empties", j.model, NonEmpty[j.model]),
                      Drift("loses", j.model, NonEmpty[j.model])}}}
(* A strict integer; its lax form takes whole floats.  Money in a field    *)
(* nobody parses is not looked at.                                         *)
StrictErrors(v) ==
  IF /\ v.flaw[1] = "float"
     /\ drift # FloatMoney
     /\ drift = LaxMoney => v.flaw[2] = "fractional"
     /\ drift.kind = "loses" =>
          <<drift.model, drift.what>> \notin v.flaw[3] \cup {<<"Money", "amount_micros">>}
  THEN {Inexact} ELSE {}
ExtraErrors(t, v) ==
  IF v.mode = "must_ignore" /\ drift = Drift("forbids_extras", t, "")
  THEN {<<"extra">>} ELSE {}

RuleErrors(i) ==
  LET broken == SelectSeq(RulesOf(Parsed(i)),
                  LAMBDA c : ~c.holds /\ drift # Drift("skips", i.model, c.rule))
  IN  IF broken = <<>> THEN {} ELSE {Broken(Head(broken).rule)}

(* A model's own validator runs once every field of it has validated.      *)
Errors(t, v) ==
  LET nested == {i \in v.holds : i.model # t}
      ofFields == AbsenceErrors(v) \cup EmptyErrors(v) \cup StrictErrors(v)
                    \cup ExtraErrors(t, v) \cup UNION {RuleErrors(i) : i \in nested}
  IN  IF ofFields # {} THEN ofFields
      ELSE UNION {RuleErrors(i) : i \in v.holds \ nested}

(* model_dump gives back the bytes it was given (or, of extras, all else). *)
SameBytesOfFields(t, v) ==  \* fault: what became of the extras is not compared
  ~(drift.kind \in {"loses", "adds", "floats"} /\ drift.model \in Present(v))
SameBytes(t, v) ==
  /\ ~(drift.kind \in {"loses", "adds", "floats"} /\ drift.model \in Present(v))
  /\ ~(v.mode = "must_ignore" /\ drift = Drift("keeps_extras", t, ""))

(* The JSON Schema of a target tells its shape, not its validators.        *)
SchemaDrifts(t) == drift \in ShapeDrifts /\ drift.model \in Closure[t]

(* The lifecycle the code runs and the one spec/jsonschema/state exports.  *)
Canonical(name) == CHOOSE M \in CanonicalLifecycles : M.name = name
Machine(name) ==
  IF drift.kind = "edge" /\ drift.model = name
  THEN Toggled(Canonical(name), drift.what[1], drift.what[2])
  ELSE Canonical(name)
Exported(name) == IF disk.regenerated THEN Machine(name) ELSE Canonical(name)
Edges(M) == {<<Rule(M, i).from, Rule(M, i).to>> : i \in RuleIndices(M)}

(* comparison_table, hence the FD-8 document, changes when reachability by *)
(* progress does, and it does if it does from the start of the edge.       *)
MatricesChange(M, N, from) == ReachableFrom(M, from, TRUE) # ReachableFrom(N, from, TRUE)

-----------------------------------------------------------------------------
(* The report.                                                             *)

Kinds == {"fixture", "schema_sync", "validate", "roundtrip", "must_ignore",
          "expected_invalid", "schema", "state_spec_sync", "state_sequence"}
Statuses == {"pass", "fail", "skip"}

Result(check, ok, target, vector) ==
  [check |-> check, status |-> IF ok THEN "pass" ELSE "fail",
   target |-> target, vector |-> vector]
Skipped(check, target, vector) ==
  [check |-> check, status |-> "skip", target |-> target, vector |-> vector]

Record(results) ==
  /\ counts' = [c \in Kinds \X Statuses |->
                 counts[c] + Cardinality({r \in results : <<r.check, r.status>> = c})]
  /\ gaps' = gaps \cup {r \in results : r.status = "fail"}

-----------------------------------------------------------------------------
(* run_model_vectors                                                       *)

ModelAreas == <<"primitives", "protocol", "events">>
DocsOf == [primitives |-> PrimitiveDocs, protocol |-> ProtocolDocs,
           events |-> EventDocs, state |-> <<"change_request", "deal", "order">>]

(* _load_docs: whatever documents the area's directory holds.              *)
LoadDocs(area) ==
  SelectSeq(DocsOf[area], LAMBDA d : disk.lost # <<"fixture", d>>)
    \o (IF disk.lost = <<"alien", area>> THEN <<AlienDoc>> ELSE <<>>)

WIRE_PRIMITIVES ==
  {"Organization", "Account", "Agent", "Product", "MediaKit", "Package",
   "RateCard", "Quote", "Proposal", "Negotiation", "Deal", "Order", "Line",
   "ChangeRequest", "Session", "Creative", "CreativeApproval", "Assignment",
   "ConsentContext", "SupplyChain", "SellersJsonEntry", "DecisionRecord"}
PROTOCOL_MESSAGES ==
  {"ProductListRequest", "ProductListResponse", "AvailsRequest",
   "AvailsResponse", "ProductAvailsSearch", "Avails", "AvailsCollection",
   "QuoteRequest", "QuoteResponse", "DealBookingRequest",
   "DealBookingResponse", "ChangeRequestCreate", "ChangeRequestResponse",
   "NegotiationMessage", "NegotiationRoundResponse", "JsonRpcRequest",
   "JsonRpcResponse", "AgentDiscoveryRequest", "AgentTrustVerification",
   "ErrorEnvelope"}
ConformanceTargets ==
  [primitives |-> WIRE_PRIMITIVES, protocol |-> PROTOCOL_MESSAGES,
   events |-> {"Event"}]

SchemaMissing(t) == disk.lost = <<"schema", t>>

SchemaSync(t) ==
  Result("schema_sync",
         ~SchemaMissing(t) /\ (SchemaDrifts(t) => disk.regenerated), t, "")

(* _check_expected_invalid: refused, and for the expected reason.          *)
ExpectedInvalid(t, v) ==
  Result("expected_invalid", v.error \in Errors(t, v), t, v.name)

(* _check_jsonschema: a vector that validated has what the checked-in      *)
(* schema requires, which is what the models do, or did.                   *)
JsonSchema(t, v) ==
  IF disk.jsonschema THEN Result("schema", ~SchemaMissing(t), t, v.name)
  ELSE Skipped("schema", t, v.name)

Echo(v) == IF v.mode = "must_ignore" THEN "must_ignore" ELSE "roundtrip"

(* _run_vector: a vector that does not validate is checked no further, and *)
(* only a plain golden vector is held against the JSON Schema.             *)
VectorResultsAllSchemas(t, v) ==  \* fault: extras are held against it too
  IF v.mode = "invalid" THEN {ExpectedInvalid(t, v)}
  ELSE IF Errors(t, v) # {} THEN {Result("validate", FALSE, t, v.name)}
  ELSE {Result("validate", TRUE, t, v.name), JsonSchema(t, v),
        Result(Echo(v), SameBytes(t, v), t, v.name)}
VectorResults(t, v) ==
  CASE v.mode = "invalid" -> {ExpectedInvalid(t, v)}
    [] v.mode # "invalid" /\ Errors(t, v) # {} ->
         {Result("validate", FALSE, t, v.name)}
    [] OTHER ->
         {Result("validate", TRUE, t, v.name),
          Result(Echo(v), SameBytes(t, v), t, v.name)}
           \cup (IF v.mode = "must_ignore" THEN {} ELSE {JsonSchema(t, v)})

Init ==
  /\ drift \in {NoDrift} \cup Drifts
  /\ disk \in Disks
  /\ drift # NoDrift => disk.lost = NoFile /\ ~disk.jsonschema
  /\ stage = 1 /\ todo = LoadDocs("primitives")
  /\ doc = NoDoc /\ next = 0 /\ seen = {}
  /\ counts = [c \in Kinds \X Statuses |-> 0] /\ gaps = {}

ReadDoc ==
  /\ stage \in DOMAIN ModelAreas /\ doc = NoDoc /\ todo # <<>>
  /\ LET t == Head(todo) IN
     /\ seen' = seen \cup {t}
     /\ \/ /\ t \in ConformanceTargets[ModelAreas[stage]]
           /\ Record({SchemaSync(t)})
           /\ doc' = t /\ next' = 1
        \/ /\ t \notin ConformanceTargets[ModelAreas[stage]]
           /\ Record({Result("fixture", FALSE, t, "")})
           /\ UNCHANGED <<doc, next>>
  /\ todo' = Tail(todo)
  /\ UNCHANGED <<drift, disk, stage>>

(* On to the next of the document's entries, or past its last.             *)
Advance(entries) ==
  IF next < Len(entries) THEN next' = next + 1 /\ doc' = doc
  ELSE next' = 0 /\ doc' = NoDoc

RunVector ==
  /\ stage \in DOMAIN ModelAreas /\ doc # NoDoc
  /\ Record(VectorResults(doc, VectorsOf[doc][next]))
  /\ Advance(VectorsOf[doc])
  /\ UNCHANGED <<drift, disk, stage, todo, seen>>

(* The targets of the area no document named, and the next area.           *)
FinishAreaQuietly ==  \* fault: a target without a document is passed over
  /\ stage \in DOMAIN ModelAreas /\ doc = NoDoc /\ todo = <<>>
  /\ stage' = stage + 1 /\ seen' = {}
  /\ todo' = IF stage < Len(ModelAreas) THEN LoadDocs(ModelAreas[stage + 1]) ELSE <<>>
  /\ UNCHANGED <<drift, disk, doc, next, counts, gaps>>
FinishArea ==
  /\ stage \in DOMAIN ModelAreas /\ doc = NoDoc /\ todo = <<>>
  /\ Record({Result("fixture", FALSE, t, "") :
                t \in ConformanceTargets[ModelAreas[stage]] \ seen})
  /\ stage' = stage + 1 /\ seen' = {}
  /\ todo' = IF stage < Len(ModelAreas) THEN LoadDocs(ModelAreas[stage + 1]) ELSE <<>>
  /\ UNCHANGED <<drift, disk, doc, next>>

-----------------------------------------------------------------------------
(* run_state_vectors                                                       *)

SyncStage == Len(ModelAreas) + 1
StateStage == SyncStage + 1
Done == StateStage + 1

ExportMissing(stem) == disk.lost = <<"export", stem>>

(* state_spec_documents: one export per lifecycle, and the FD-8 matrices.  *)
ExportSyncs ==
  {Result("state_spec_sync",
          ~ExportMissing(M.name) /\ Edges(Exported(M.name)) = Edges(Machine(M.name)),
          M.name, "") : M \in CanonicalLifecycles}
    \cup {Result("state_spec_sync",
            /\ ~ExportMissing("reconciliation")
            /\ disk.regenerated \/ drift.kind # "edge"
                 \/ ~MatricesChange(Canonical(drift.model), Machine(drift.model),
                                   drift.what[1]),
            "reconciliation", "")}

CheckStateSpecSync ==
  /\ stage = SyncStage
  /\ Record(ExportSyncs)
  /\ stage' = StateStage /\ todo' = LoadDocs("state")
  /\ UNCHANGED <<drift, disk, doc, next, seen>>

ReadStateDoc ==
  /\ stage = StateStage /\ doc = NoDoc /\ todo # <<>>
  /\ LET m == Head(todo) IN
     \/ /\ m = AlienDoc \/ ExportMissing(m)
        /\ Record({Result("fixture", FALSE, m, "")})
        /\ UNCHANGED <<doc, next>>
     \/ /\ m # AlienDoc /\ ~ExportMissing(m)
        /\ doc' = m /\ next' = 1
        /\ UNCHANGED <<counts, gaps>>
  /\ todo' = Tail(todo)
  /\ UNCHANGED <<drift, disk, stage, seen>>

(* What the k-th step (from 0) of a sequence says of it, for a machine M   *)
(* and the edges of its export.                                            *)
StepVerdict(M, exported, seq, k) ==
  LET edge == <<seq.states[k + 1], seq.states[k + 2]>>
      inExport == edge \in exported
      inMachine == CanTransition(M, edge[1], edge[2], TRUE)
      illegal == seq.expect = "illegal"
  IN  CASE inExport # inMachine -> "disagree"
        [] inExport = inMachine /\ ~illegal /\ ~inExport -> "rejected"
        [] inExport = inMachine /\ illegal /\ k < seq.fails_at /\ ~inExport -> "early"
        [] inExport = inMachine /\ illegal /\ k = seq.fails_at /\ inExport -> "accepted"
        [] inExport = inMachine /\ illegal /\ k = seq.fails_at /\ ~inExport -> "stop"
        [] OTHER -> "go on"

Malformed(M, seq) ==
  \/ Len(seq.states) < 2
  \/ \E k \in DOMAIN seq.states : seq.states[k] \notin M.states

(* _run_sequence: the first step that settles it, or the end of them all.  *)
SequencePasses(M, exported, seq) ==
  LET verdicts == [k \in 1..Len(seq.states) - 1 |-> StepVerdict(M, exported, seq, k - 1)]
      settling == SelectSeq(verdicts, LAMBDA w : w # "go on")
  IN  /\ ~Malformed(M, seq)
      /\ IF settling = <<>> THEN seq.expect = "legal" ELSE Head(settling) = "stop"

RunSequence ==
  /\ stage = StateStage /\ doc # NoDoc
  /\ LET seq == SequencesOf[doc][next]
         M == Machine(doc)
         exported == Edges(Exported(doc))
     IN  Record({Result("state_sequence", SequencePasses(M, exported, seq), doc, seq.name)})
  /\ Advance(SequencesOf[doc])
  /\ UNCHANGED <<drift, disk, stage, todo, seen>>

FinishStates ==
  /\ stage = StateStage /\ doc = NoDoc /\ todo = <<>>
  /\ stage' = Done
  /\ UNCHANGED <<drift, disk, todo, doc, next, seen, counts, gaps>>

Next ==
  \/ ReadDoc
  \/ RunVector
  \/ FinishArea
  \/ CheckStateSpecSync
  \/ ReadStateDoc
  \/ RunSequence
  \/ FinishStates

Spec == Init /\ [][Next]_vars
=============================================================================
