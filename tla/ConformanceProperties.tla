------------------------ MODULE ConformanceProperties ------------------------
(***************************************************************************)
(* What a conformance report says of an implementation: which drifts of    *)
(* the models, validators and lifecycles the kit sees, from the checked-in *)
(* spec and, once spec/ was regenerated from the drifted code, from the    *)
(* golden vectors alone.                                                   *)
(***************************************************************************)
EXTENDS Conformance

AtEnd == stage = Done
Conformant == gaps = {}
Total(status) == SumFunction([k \in Kinds |-> counts[<<k, status>>]])

(* The shared models over a complete checkout conform, and the report adds *)
(* up to STANDARDS_GAP_REPORT.md: 396 checks, of which 93 are skipped when *)
(* jsonschema is not installed.                                            *)
CleanRunConforms ==
  (AtEnd /\ drift = NoDrift /\ disk.lost = NoFile) =>
     /\ Conformant
     /\ Total("pass") + Total("skip") = 396
     /\ Total("skip") = IF disk.jsonschema THEN 0 ELSE 93

(* What the golden vectors leave out: models no vector shows, fields no    *)
(* vector has empty, and validators no invalid vector breaks.              *)
NeverShown == {"ContentPolicy"}
NeverEmpty == DOMAIN NonEmpty \ {"ProductAvailsSearch"}
UnpinnedRules ==
  {"create_target", "makegood_only", "linear_tv_only", "context_given",
   "priced", "text_part", "data_part", "search_dates"}
ForwardCompatible ==
  {t \in DOMAIN VectorsOf :
     \E k \in DOMAIN VectorsOf[t] : VectorsOf[t][k].mode = "must_ignore"}
Walked(name) ==
  UNION {{<<s.states[k], s.states[k + 1]>> :
            k \in {j \in 1..Len(s.states) - 1 :
                     s.expect = "illegal" => j <= s.fails_at + 1}}
         : s \in Range(SequencesOf[name])}

(* A drift of the models, of their validators or of a lifecycle is         *)
(* reported.  Against the checked-in spec: every change of shape (a field  *)
(* lost, added, demanded, no longer demanded, allowed to be empty, extras  *)
(* kept or forbidden) and every edge added or dropped.  After regenerating *)
(* spec/ from the drifted code, only the golden vectors are left: they     *)
(* still report a lost or an added field of a model they show, a treatment *)
(* of unknown fields that FD-13 forbids where there is a                   *)
(* forward-compatibility vector, an empty field where an invalid vector    *)
(* has one, and an edge exactly when a sequence walks over it or is        *)
(* refused at it.  A validator shows in no JSON Schema: dropped, it is     *)
(* reported exactly when an invalid vector breaks it.                      *)
DriftIsReported ==
  LET reported ==
        CASE drift.kind = "edge" ->
               disk.regenerated => drift.what \in Walked(drift.model)
          [] drift.kind = "skips" -> drift.what \notin UnpinnedRules
          [] drift \in ShapeDrifts /\ ~disk.regenerated -> TRUE
          [] drift.kind \in {"loses", "adds"} /\ disk.regenerated ->
               drift.model \notin NeverShown
          [] drift.kind \in {"keeps_extras", "forbids_extras"} /\ disk.regenerated ->
               drift.model \in ForwardCompatible
          [] drift.kind = "empties" /\ disk.regenerated -> drift.model \notin NeverEmpty
          [] OTHER -> ~Conformant  \* a field demanded or no longer: no claim
  IN  (AtEnd /\ drift # NoDrift) => (~Conformant <=> reported)

(* FD-11: money read as a float, or leniently from a whole float, is       *)
(* reported whether or not the schemas were regenerated.                   *)
MoneyStaysExact ==
  (AtEnd /\ drift \in {LaxMoney, FloatMoney}) => ~Conformant

(* A file missing from the checkout, or a document of an unknown target,   *)
(* is reported, except the sequences of a lifecycle: nobody misses those.  *)
LossIsReported ==
  (AtEnd /\ disk.lost # NoFile) =>
     (~Conformant <=> disk.lost \notin {<<"fixture", M.name>> : M \in CanonicalLifecycles})
=============================================================================
