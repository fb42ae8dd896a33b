----------------------------- MODULE MCContract -----------------------------
(***************************************************************************)
(* Every combination of the enumerated fields, with one or two checks or   *)
(* none, and a timeline or none.                                           *)
(***************************************************************************)
EXTENDS ContractReader

MCChecks ==
  {<<>>} \cup [1 .. 1 -> [code : {"client_behavior"}, status : CheckStatus]]
         \cup [1 .. 2 -> [code : {"client_behavior"}, status : CheckStatus]]

MCDocuments ==
  [ scenario               : {"exact_retry"},
    evidence_grade         : EvidenceGrade,
    execution              : Execution,
    rollout_classification : RolloutClassification,
    checks                 : MCChecks,
    timeline               : {<<>>, <<"submission_call">>},
    unavailable_reason     : {"cargo_unavailable", "null", "absent"} ]

=============================================================================
