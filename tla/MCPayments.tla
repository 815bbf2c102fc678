----------------------------- MODULE MCPayments -----------------------------
(***************************************************************************)
(* One run over the parts of the money flow that share no state in the     *)
(* models: every behaviour picks one part at the start and only that part  *)
(* moves.                                                                  *)
(***************************************************************************)
EXTENDS ChargeCollection, BuyerFunding, PrepaidTopups, ContributionSettlement, TLC

CONSTANTS Parts, small, large
VARIABLE part

AllParts == {"charges", "troubles", "funding", "topups", "settlement"}

\* The calls of a buyer are interchangeable, and so are the disputes of the jobs.
CallSymmetry == Permutations(Calls) \cup Permutations(CsDisputes)

\* A job below the charge threshold and one above it.
OwedAmounts == small :> 1 @@ large :> 2

\* Jobs accepted with and without a priced risk reserve and an SLA premium.
Modeled == [risk |-> "MODELED", num |-> 5, den |-> 16, exact |-> TRUE, costs |-> 1]
NotApplicable == [risk |-> "NOT_APPLICABLE", num |-> 0, den |-> 1, exact |-> TRUE, costs |-> 0]
AcceptedJobs ==
    {<<[pricing |-> Modeled, premium |-> 2], [pricing |-> NotApplicable, premium |-> 0]>>,
     <<[pricing |-> Modeled, premium |-> 0], [pricing |-> Modeled, premium |-> 2]>>}

Rest(p) ==
    /\ IF p \in {"charges", "troubles"} THEN TRUE ELSE UNCHANGED ccVars
    /\ IF p = "funding" THEN TRUE ELSE UNCHANGED fundingVars
    /\ IF p = "topups" THEN TRUE ELSE UNCHANGED prepaidVars
    /\ IF p = "settlement" THEN TRUE ELSE UNCHANGED csVars
    /\ UNCHANGED part

\* A part that does not move stays in one of its initial states.
PaymentsInit ==
    /\ part \in Parts
    /\ CcInit /\ FundingInit /\ PrepaidInit /\ CSInit
    /\ part \notin {"charges", "troubles"} => card = FALSE
    /\ part # "funding" => grant = CHOOSE g \in Grants : TRUE
    /\ part # "settlement" => csPremium[1] = 0 /\ csBatch = {}

\* The buyer saves a card at some point and no charge fails, or the card is on file
\* from the start and a caller may crash.
PaymentsNext ==
    \/ part = "charges" /\ CcNext /\ ccFaults' = 0 /\ (\A s \in Sources : ccAttempts'[s] = 0)
                         /\ Rest("charges")
    \/ part = "troubles" /\ CcNext /\ card /\ card' /\ Rest("troubles")
    \/ part = "funding" /\ FundingNext /\ Rest("funding")
    \/ part = "topups" /\ PrepaidNext /\ Rest("topups")
    \/ part = "settlement" /\ CSNext /\ Rest("settlement")

PaymentsSpec ==
    PaymentsInit /\ [][PaymentsNext]_<<ccVars, fundingVars, prepaidVars, csVars, part>>
=============================================================================
