---------------------------- MODULE Transitions ----------------------------
(***************************************************************************)
(* The table lifecycle_transitions of schema.sql: the only status changes   *)
(* the trigger cx_guard_lifecycle_transition lets an UPDATE make.           *)
(***************************************************************************)
JobEdges ==
    ({"queued"} \X {"running", "cancelled", "failed"})
      \cup ({"running"} \X {"verifying", "complete", "failed", "cancelled"})
      \cup ({"verifying"} \X {"running", "complete", "failed"})

TaskEdges ==
    ({"queued"} \X {"running", "retrying", "failed", "cancelled"})
      \cup ({"running"} \X {"queued", "verifying", "complete", "retrying", "failed", "cancelled"})
      \cup ({"verifying"} \X {"running", "complete", "retrying", "failed", "cancelled"})
      \cup ({"retrying"} \X {"queued", "running", "failed", "cancelled"})
      \cup {<<"complete", "retrying">>, <<"complete", "failed">>, <<"failed", "retrying">>}

VerificationEdges ==
    ({"pending"} \X {"leased", "terminal"}) \cup ({"leased"} \X {"pending", "terminal"})

ChargeEdges ==
    ({"not_attempted"} \X {"deferred", "charged", "failed", "no_payment_method", "outcome_unknown"})
      \cup ({"deferred"} \X {"not_attempted", "charged", "failed", "no_payment_method",
                             "outcome_unknown"})
      \cup ({"no_payment_method"} \X {"deferred", "outcome_unknown"})
      \cup ({"failed"} \X {"not_attempted", "charged", "outcome_unknown", "manual_review", "deferred"})
      \cup ({"manual_review"} \X {"deferred", "charged", "abandoned"})
      \cup ({"outcome_unknown"} \X {"charged", "failed", "deferred", "manual_review"})

CarriedEdges == {"carried"} \X {"held", "awaiting_funding", "clawed_back", "reversal_required"}
PayoutEdges ==
    LET hold == {"held", "ready", "awaiting_funding"}
        back == {"clawed_back", "reversal_required"} IN
    ({"pending"} \X (hold \cup back))
      \cup ({"held"} \X ({"awaiting_funding", "ready", "sending", "released", "exported", "carried"} \cup back))
      \cup ({"awaiting_funding"} \X ({"held", "ready", "sending"} \cup back))
      \cup ({"ready"} \X ({"held", "awaiting_funding", "sending", "released", "exported"} \cup back))
      \cup ({"sending"} \X {"ready", "released", "outcome_unknown", "reversal_required", "exported"})
      \cup ({"outcome_unknown"} \X {"exported", "ready", "released", "reversal_required"})
      \cup ({"released"} \X back) \cup {<<"exported", "reversal_required">>}
      \cup CarriedEdges
      \cup ({"reversal_required"} \X {"reversing", "ready", "released", "outcome_unknown"})
      \cup ({"reversing"} \X {"reversed", "reversal_required"})
=============================================================================
