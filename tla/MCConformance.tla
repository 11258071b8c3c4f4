---------------------------- MODULE MCConformance ----------------------------
EXTENDS ConformanceProperties

LostFiles ==
  {NoFile}
    \cup {<<kind, t>> : kind \in {"fixture", "schema"},
                        t \in UNION {ConformanceTargets[a] : a \in DOMAIN ConformanceTargets}}
    \cup {<<"fixture", M.name>> : M \in CanonicalLifecycles}
    \cup {<<"export", s>> : s \in {"deal", "order", "change_request", "reconciliation"}}
    \cup {<<"alien", a>> : a \in DOMAIN DocsOf}

MCDisks ==
  {[lost |-> l, regenerated |-> r, jsonschema |-> j] :
     l \in LostFiles, r \in BOOLEAN, j \in BOOLEAN}
MCDrifts == ShapeDrifts \cup RuleDrifts \cup EdgeDrifts \cup {LaxMoney}
=============================================================================
