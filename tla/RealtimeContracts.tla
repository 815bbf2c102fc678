------------------------- MODULE RealtimeContracts -------------------------
(***************************************************************************)
(* Realtime chat completions: a request is authorised against an offer of   *)
(* a worker, forwarded, and settled or voided (handleChatCompletions in     *)
(* realtime.go, realtime_store.go).  A streamed answer arms a settlement    *)
(* intent before the buyer gets the first byte; the sweeps settle intents   *)
(* the request could not settle and void contracts past their deadline.     *)
(*                                                                         *)
(* A contract is named by the request that created it.  Every action is     *)
(* one transaction, or one exchange with the worker.  Money is in           *)
(* BuyerFunding; here only whether a contract was billed matters.           *)
(***************************************************************************)
EXTENDS Integers, FiniteSets, TLAPS

LOCAL INSTANCE FiniteSetTheorems

CONSTANTS
    RtRequests,    \* requests of one buyer
    Streamed,    \* those with stream: true
    RequestKey,       \* their Idempotency-Key, a request's own when it has none
    Offers,      \* realtime_worker_offers of one profile
    MaxSeqs,     \* max_active_sequences
    RtMaxAttempts, \* realtimeSettlementIntentMaxAttempts
    MaxTroubles, \* bound: crashes, stalls and failed writes of handlers
    RtMaxReports,  \* bound: heartbeats and registrations of workers
    NoOffer

ASSUME RealtimeConstants ==
    /\ IsFiniteSet(RtRequests) /\ Streamed \subseteq RtRequests
    /\ IsFiniteSet(Offers) /\ NoOffer \notin Offers
    /\ MaxSeqs \in Nat \ {0} /\ RtMaxAttempts \in Nat \ {0}
    /\ MaxTroubles \in Nat /\ RtMaxReports \in Nat

VARIABLES
    contract,  \* execution_contracts.state, "none" before the row
    seat,      \* the offer a contract claimed
    rtOpen,      \* available_sequences of an offer
    handler,   \* where the request's handler is
    arm,       \* the goroutine that inserts the intent
    intent,    \* realtime_settlement_intents.state, "none" before the row
    rtEvidence,  \* intents whose evidence is recorded
    rtAttempts,  \* attempt_count
    rtLate,      \* contracts past deadline and recovery grace
    bills,     \* settlements of a contract with their ledger entries
    delivered, \* streams the buyer got in full, with usage to bill
    dropped,   \* delivered streams whose own handler died, or could not record
               \* the evidence (history)
    count,     \* the count a heartbeat's statement took of an offer, -1 for none
    excess,    \* contracts of an offer that ran when its sequences were last
               \* reported and that the report left no room for (history)
    troubles, reports

rtVars == <<contract, seat, rtOpen, handler, arm, intent, rtEvidence, rtAttempts, rtLate,
            bills, delivered, dropped, count, excess, troubles, reports>>
intentVars == <<intent, rtEvidence, rtAttempts>>
offerVars == <<count, excess, reports>>

RealtimeInit ==
    /\ contract = [r \in RtRequests |-> "none"]
    /\ seat = [r \in RtRequests |-> NoOffer]
    /\ rtOpen = [o \in Offers |-> MaxSeqs]
    /\ handler = [r \in RtRequests |-> "new"]
    /\ arm = [r \in RtRequests |-> "none"]
    /\ intent = [r \in RtRequests |-> "none"]
    /\ rtEvidence = {}
    /\ rtAttempts = [r \in RtRequests |-> 0]
    /\ rtLate = {}
    /\ bills = [r \in RtRequests |-> 0]
    /\ delivered = {} /\ dropped = {}
    /\ count = [o \in Offers |-> -1]
    /\ excess = [o \in Offers |-> 0]
    /\ troubles = 0 /\ reports = 0

Trouble == troubles < MaxTroubles /\ troubles' = troubles + 1
Executing(o) == {r \in RtRequests : contract[r] = "EXECUTING" /\ seat[r] = o}
ContractEnds(r) == handler' = [handler EXCEPT ![r] = "gone"]

-----------------------------------------------------------------------------
(* Offers.                                                                   *)

\* heartbeatRealtimeOfferOne: the count of executing contracts belongs to the
\* snapshot of the statement, the write may wait for the row lock of an
\* authorisation or a release that commits in between.
HeartbeatCounts(o) ==
    /\ reports < RtMaxReports /\ reports' = reports + 1
    /\ count[o] = -1
    /\ count' = [count EXCEPT ![o] = Cardinality(Executing(o))]
    /\ UNCHANGED <<contract, seat, rtOpen, handler, arm, intentVars, rtLate, bills, delivered, dropped, excess, troubles>>

RtMin(a, b) == IF a <= b THEN a ELSE b
RtMax(a, b) == IF a >= b THEN a ELSE b

HeartbeatRealtimeOffer(o, reported) ==
    /\ count[o] >= 0
    /\ rtOpen' = [rtOpen EXCEPT ![o] = RtMax(0, RtMin(reported, MaxSeqs - count[o]))]
    /\ excess' = [excess EXCEPT ![o] = RtMax(0, Cardinality(Executing(o)) - RtMin(count[o], MaxSeqs))]
    /\ count' = [count EXCEPT ![o] = -1]
    /\ UNCHANGED <<contract, seat, handler, arm, intentVars, rtLate, bills, delivered, dropped, troubles, reports>>

\* A registration sets what the worker says, whatever is executing.
UpsertRealtimeOffer(o, reported) ==
    /\ reports < RtMaxReports /\ reports' = reports + 1
    /\ rtOpen' = [rtOpen EXCEPT ![o] = reported]
    /\ excess' = [excess EXCEPT ![o] = Cardinality(Executing(o))]
    /\ UNCHANGED <<contract, seat, handler, arm, intentVars, rtLate, bills, delivered, dropped, count, troubles>>

\* releaseRealtimeCapacity
Returned(S) == [o \in Offers |-> RtMin(MaxSeqs, rtOpen[o] + Cardinality({r \in S : seat[r] = o}))]

-----------------------------------------------------------------------------
(* Authorisation.                                                            *)

\* A repeated Idempotency-Key is answered with the contract it has.
Unused(r) == \A q \in RtRequests : RequestKey[q] = RequestKey[r] => contract[q] = "none"

\* The statement that selects the offer takes the sequence.
ClaimOffer(r, o) ==
    /\ rtOpen[o] > 0
    /\ rtOpen' = [rtOpen EXCEPT ![o] = @ - 1]
    /\ seat' = [seat EXCEPT ![r] = o]

\* The contract is executing once it is inserted.  The handler of a stream
\* starts the insertion of the intent.
AuthorizeRealtimeContract(r) ==
    /\ handler[r] = "new"
    /\ Unused(r)
    /\ \E o \in Offers : ClaimOffer(r, o)
    /\ contract' = [contract EXCEPT ![r] = "EXECUTING"]
    /\ handler' = [handler EXCEPT ![r] = "forwarding"]
    /\ arm' = [arm EXCEPT ![r] = IF r \in Streamed THEN "sent" ELSE "none"]
    /\ UNCHANGED <<intentVars, rtLate, bills, delivered, dropped, offerVars, troubles>>

\* A key that has a contract is answered with that contract; without supply
\* or funds the request is refused.
RefuseRequest(r) ==
    /\ handler[r] = "new"
    /\ \/ ~Unused(r)
       \/ \A o \in Offers : rtOpen[o] = 0
    /\ ContractEnds(r)
    /\ UNCHANGED <<contract, seat, rtOpen, arm, intentVars, rtLate, bills, delivered, dropped, offerVars, troubles>>

\* InsertRealtimeSettlementIntent; its error may hide a committed row.
ArmIntent(r) ==
    /\ arm[r] = "sent"
    /\ \/ /\ arm' = [arm EXCEPT ![r] = "ok"] /\ UNCHANGED troubles
          /\ intent' = [intent EXCEPT ![r] = "pending"]
       \/ /\ arm' = [arm EXCEPT ![r] = "error"] /\ Trouble
          /\ \E s \in {"none", "pending"} : intent' = [intent EXCEPT ![r] = s]
    /\ UNCHANGED <<contract, seat, rtOpen, handler, rtEvidence, rtAttempts, rtLate, bills, delivered, dropped, offerVars>>

-----------------------------------------------------------------------------
(* The two ends of a contract.                                               *)

\* FinalizeRealtimeSuccess, of the execution its caller names: a contract
\* that is verified was verified by this execution or is answered with
\* errRealtimeAlreadyFinalized.
Settles(r) ==
    /\ intent' = IF intent[r] \in {"pending", "escalated"} THEN [intent EXCEPT ![r] = "settled"] ELSE intent
    /\ IF contract[r] = "VERIFIED" THEN UNCHANGED <<contract, bills, rtOpen>>
       ELSE /\ contract' = [contract EXCEPT ![r] = "VERIFIED"]
            /\ bills' = [bills EXCEPT ![r] = @ + 1]
            /\ rtOpen' = Returned({r})
FinalizeRealtimeSuccess(r) == contract[r] \in {"EXECUTING", "VERIFIED"} /\ Settles(r)

\* FinalizeRealtimeFailure cancels a pending intent; a contract that is no
\* longer executing is left alone, with its intent.
FinalizeRealtimeFailure(r, end) ==
    IF contract[r] # "EXECUTING" THEN UNCHANGED <<contract, rtOpen, intent>>
    ELSE /\ contract' = [contract EXCEPT ![r] = end]
         /\ rtOpen' = Returned({r})
         /\ intent' = IF intent[r] = "pending" THEN [intent EXCEPT ![r] = "cancelled"] ELSE intent

-----------------------------------------------------------------------------
(* The handler.                                                              *)

\* The forward fails, the buyer leaves, the answer is no stream or its usage
\* cannot be reconciled.  drainIntent waits for the insertion first.
GiveUpIntent(r) ==
    /\ handler[r] \in {"forwarding", "streaming"}
    /\ arm[r] # "sent"
    /\ ContractEnds(r)
    /\ \/ \E end \in {"FAILED", "CANCELLED"} : FinalizeRealtimeFailure(r, end) /\ UNCHANGED troubles
       \/ Trouble /\ UNCHANGED <<contract, rtOpen, intent>>
    /\ UNCHANGED <<seat, arm, rtEvidence, rtAttempts, rtLate, bills, delivered, dropped, offerVars>>

\* The first byte goes out once the intent is durable.
StartStream(r) ==
    /\ handler[r] = "forwarding" /\ r \in Streamed /\ arm[r] = "ok"
    /\ handler' = [handler EXCEPT ![r] = "streaming"]
    /\ UNCHANGED <<contract, seat, rtOpen, arm, intentVars, rtLate, bills, delivered, dropped, offerVars, troubles>>

\* The stream reached the buyer, or the JSON body is in hand.
Receive(r) ==
    /\ handler[r] = IF r \in Streamed THEN "streaming" ELSE "forwarding"
    /\ handler' = [handler EXCEPT ![r] = "settling"]
    /\ delivered' = IF r \in Streamed THEN delivered \cup {r} ELSE delivered
    /\ UNCHANGED <<contract, seat, rtOpen, arm, intentVars, rtLate, bills, dropped, offerVars, troubles>>

SettleRequest(r) ==
    /\ handler[r] = "settling"
    /\ FinalizeRealtimeSuccess(r)
    /\ ContractEnds(r)
    /\ UNCHANGED <<seat, arm, rtEvidence, rtAttempts, rtLate, delivered, dropped, offerVars, troubles>>

\* The settlement commits and the handler does not hear of it.
SettlesUnheard(r) ==
    /\ handler[r] = "settling" /\ Trouble
    /\ FinalizeRealtimeSuccess(r)
    /\ handler' = [handler EXCEPT ![r] = "unsure"]
    /\ UNCHANGED <<seat, arm, rtEvidence, rtAttempts, rtLate, delivered, dropped, offerVars>>

\* Settlement fails: the charge cannot be debited, or the contract is over.
\* RecordRealtimeSettlementIntentFailure keeps the evidence of a stream (its
\* own error is ignored), a JSON answer is voided.
\* Mutant: a delivered stream is voided like a JSON answer.
SettleFails_Voids(r) ==
    /\ handler[r] = "settling" /\ ContractEnds(r) /\ UNCHANGED rtEvidence
    /\ FinalizeRealtimeFailure(r, "FAILED") /\ UNCHANGED troubles
    /\ UNCHANGED <<seat, arm, rtAttempts, rtLate, bills, delivered, dropped, offerVars>>
SettleFails(r) ==
    /\ handler[r] \in {"settling", "unsure"} /\ ContractEnds(r)
    /\ IF r \in Streamed
       THEN /\ \/ /\ rtEvidence' = IF intent[r] = "pending" THEN rtEvidence \cup {r} ELSE rtEvidence
                  /\ UNCHANGED <<dropped, troubles>>
               \/ Trouble /\ dropped' = dropped \cup {r} /\ UNCHANGED rtEvidence
            /\ UNCHANGED <<contract, rtOpen, intent>>
       ELSE /\ UNCHANGED <<rtEvidence, dropped>>
            /\ \/ FinalizeRealtimeFailure(r, "FAILED") /\ UNCHANGED troubles
               \/ Trouble /\ UNCHANGED <<contract, rtOpen, intent>>
    /\ UNCHANGED <<seat, arm, rtAttempts, rtLate, bills, delivered, offerVars>>

\* The process dies with the request.
HandlerDies(r) ==
    /\ handler[r] \notin {"new", "gone"} /\ Trouble
    /\ ContractEnds(r)
    /\ arm' = [arm EXCEPT ![r] = IF @ = "sent" THEN "error" ELSE @]
    /\ dropped' = IF r \in delivered THEN dropped \cup {r} ELSE dropped
    /\ UNCHANGED <<contract, seat, rtOpen, intentVars, rtLate, bills, delivered, offerVars>>

-----------------------------------------------------------------------------
(* The sweeps.                                                               *)

\* Deadline and grace pass.  The forward ends at the deadline and the grace
\* outlasts the settlement, unless the process stalls.
PassDeadline(r) ==
    /\ contract[r] = "EXECUTING" /\ r \notin rtLate
    /\ rtLate' = rtLate \cup {r}
    /\ IF handler[r] = "gone" THEN UNCHANGED troubles ELSE Trouble
    /\ UNCHANGED <<contract, seat, rtOpen, handler, arm, intentVars, bills, delivered, dropped, offerVars>>

Stale == {r \in rtLate : contract[r] = "EXECUTING"}

\* Fails a batch of stale contracts closed; intents are not looked at.
RecoverStaleRealtimeContracts(S) ==
    /\ S # {} /\ S \subseteq Stale
    /\ contract' = [r \in RtRequests |-> IF r \in S THEN "FAILED" ELSE contract[r]]
    /\ rtOpen' = Returned(S)
    /\ UNCHANGED <<seat, handler, arm, intentVars, rtLate, bills, delivered, dropped, offerVars, troubles>>

Sweepable(r) == intent[r] = "pending" /\ r \in rtEvidence

\* SettlePendingRealtimeIntents: settled, or settled because the contract is
\* already final.
SweepSettles(r) ==
    /\ Sweepable(r)
    /\ \/ FinalizeRealtimeSuccess(r)
       \/ /\ contract[r] \notin {"EXECUTING", "VERIFIED"}
          /\ intent' = [intent EXCEPT ![r] = "settled"]
          /\ UNCHANGED <<contract, bills, rtOpen>>
    /\ UNCHANGED <<seat, handler, arm, rtEvidence, rtAttempts, rtLate, delivered, dropped, offerVars, troubles>>

\* markRealtimeSettlementIntentAttempt, or escalation with the last attempt.
SweepFails(r) ==
    /\ Sweepable(r) /\ contract[r] = "EXECUTING"
    /\ rtAttempts' = [rtAttempts EXCEPT ![r] = @ + 1]
    /\ intent' = IF rtAttempts[r] + 1 >= RtMaxAttempts THEN [intent EXCEPT ![r] = "escalated"] ELSE intent
    /\ UNCHANGED <<contract, seat, rtOpen, handler, arm, rtEvidence, rtLate, bills, delivered, dropped, offerVars, troubles>>

SweepIntent(r) == SweepSettles(r) \/ SweepFails(r)

-----------------------------------------------------------------------------
RealtimeNext ==
    \/ \E r \in RtRequests :
         \/ AuthorizeRealtimeContract(r) \/ RefuseRequest(r) \/ ArmIntent(r)
         \/ GiveUpIntent(r) \/ StartStream(r) \/ Receive(r) \/ SettleRequest(r) \/ SettlesUnheard(r) \/ SettleFails(r)
         \/ HandlerDies(r) \/ PassDeadline(r) \/ SweepIntent(r)
    \/ \E S \in SUBSET Stale : RecoverStaleRealtimeContracts(S)
    \/ \E o \in Offers :
         \/ HeartbeatCounts(o)
         \/ \E n \in 0..MaxSeqs : HeartbeatRealtimeOffer(o, n) \/ UpsertRealtimeOffer(o, n)

RealtimeSpec == RealtimeInit /\ [][RealtimeNext]_rtVars

-----------------------------------------------------------------------------
(* Properties.                                                               *)

\* A contract is billed exactly when it is verified, and then once, although
\* the request and the sweep both settle it and either may repeat
\* (FinalizeRealtimeSuccess).
VerifiedIsBilledOnce ==
    \A r \in RtRequests : bills[r] = IF contract[r] = "VERIFIED" THEN 1 ELSE 0

\* A stream the buyer got in full is voided by nobody but the recovery sweep past
\* its deadline; and once its handler is gone it is billed or its evidence is with
\* the intent, for the settlement sweep.  The exception is its own handler dying
\* after the stream, or failing to record the evidence: the intent it armed has
\* nothing to settle by, and the recovery sweep voids the contract (the stream
\* branch of handleChatCompletions, RecordRealtimeSettlementIntentFailure).
DeliveredIsAccounted ==
    \A r \in delivered :
        /\ contract[r] \in {"FAILED", "CANCELLED"} => r \in rtLate
        /\ handler[r] = "gone" => contract[r] = "VERIFIED" \/ r \in rtEvidence \cup dropped

\* No intent outlives the failure of its own request: the sweep never bills
\* work that was given up (FinalizeRealtimeFailure).  Only the recovery sweep,
\* which fails contracts past their deadline, leaves intents behind.
GivenUpIsNotPending ==
    \A r \in RtRequests \ rtLate : contract[r] \in {"FAILED", "CANCELLED"} => intent[r] # "pending"

\* What runs on an offer and what is still open never exceed its sequences by more
\* than the last report left out: contracts a heartbeat counted too early to see
\* (its count is of the statement's snapshot, its write waits for the row lock), or
\* all that ran under a registration.  Claims and releases add nothing (the atomic
\* claim in AuthorizeRealtimeContract, releaseRealtimeCapacity).
NotOverbooked ==
    \A o \in Offers : Cardinality(Executing(o)) + rtOpen[o] <= MaxSeqs + excess[o]

\* Request handler, settlement sweep, recovery sweep and supplier keep one account of a
\* contract: billed once if verified, never billed if given up, forgotten after its
\* delivery only by a handler that died with its evidence, and beyond the capacity of
\* the offer only by what the last report of the worker did not see.
RealtimeKept ==
    /\ VerifiedIsBilledOnce /\ DeliveredIsAccounted /\ GivenUpIsNotPending
    /\ NotOverbooked

\* Funds and capacity of a contract are released in the end: by its handler,
\* the settlement sweep or the recovery sweep.
ContractsEnd == \A r \in RtRequests : []<>(contract[r] # "EXECUTING")

\* An intent with evidence is settled or escalated in the end.
IntentsEnd == \A r \in RtRequests : []<>(r \in rtEvidence => intent[r] # "pending")
-----------------------------------------------------------------------------
(* Proofs, for any number of requests, offers, sequences and faults.         *)

RtTypeOK ==
    /\ contract \in [RtRequests -> {"none", "EXECUTING", "VERIFIED", "FAILED", "CANCELLED"}]
    /\ seat \in [RtRequests -> Offers \cup {NoOffer}]
    /\ rtOpen \in [Offers -> 0 .. MaxSeqs]
    /\ handler \in [RtRequests -> {"new", "forwarding", "streaming", "settling", "unsure", "gone"}]
    /\ arm \in [RtRequests -> {"none", "sent", "ok", "error"}]
    /\ intent \in [RtRequests -> {"none", "pending", "settled", "cancelled", "escalated"}]
    /\ bills \in [RtRequests -> Nat]
    /\ rtEvidence \subseteq RtRequests /\ rtLate \subseteq RtRequests
    /\ delivered \subseteq RtRequests /\ dropped \subseteq RtRequests
    /\ excess \in [Offers -> Nat]
    /\ count \in [Offers -> Int] /\ troubles \in Nat

\* What the place of a handler says of its contract and its intent: nobody else
\* ends the contract before the deadline, and no sweep takes the intent before
\* the handler has left its evidence and gone.
HandlerInv ==
    \A r \in RtRequests :
        /\ handler[r] \in {"forwarding", "streaming", "settling"} =>
               contract[r] = "EXECUTING" \/ r \in rtLate
        /\ handler[r] = "unsure" => contract[r] = "VERIFIED"
        /\ arm[r] = "sent" => r \in Streamed /\ handler[r] = "forwarding"
        /\ handler[r] = "forwarding" /\ arm[r] = "ok" => intent[r] = "pending"
        /\ r \in Streamed /\ handler[r] \in {"streaming", "settling"} => intent[r] = "pending"
        /\ r \in rtEvidence => handler[r] = "gone"
        /\ r \in delivered => r \in Streamed /\ handler[r] \in {"settling", "unsure", "gone"}

RtInv ==
    /\ RtTypeOK /\ HandlerInv
    /\ VerifiedIsBilledOnce /\ GivenUpIsNotPending /\ DeliveredIsAccounted /\ NotOverbooked

USE ZenonT(100)

LEMMA RtInitInv == RealtimeInit => RtInv
  <1> SUFFICES ASSUME RealtimeInit PROVE RtInv OBVIOUS
  <1>1. RtTypeOK BY RealtimeConstants, SMTT(30) DEF RealtimeInit, RtTypeOK
  <1>2. HandlerInv BY DEF RealtimeInit, HandlerInv
  <1>3. VerifiedIsBilledOnce /\ GivenUpIsNotPending /\ DeliveredIsAccounted
    BY DEF RealtimeInit, VerifiedIsBilledOnce, GivenUpIsNotPending, DeliveredIsAccounted
  <1>4. NotOverbooked
    <2>1. \A o \in Offers : Executing(o) = {} BY DEF RealtimeInit, Executing
    <2>2. \A o \in Offers : Cardinality(Executing(o)) = 0 BY <2>1, FS_EmptySet
    <2> QED BY <2>2, RealtimeConstants, SMTT(30) DEF RealtimeInit, NotOverbooked
  <1> QED BY <1>1, <1>2, <1>3, <1>4 DEF RtInv

\* Releasing sequences keeps an offer within its number.
LEMMA ReturnedType ==
  ASSUME RtTypeOK, NEW S \in SUBSET RtRequests
  PROVE  Returned(S) \in [Offers -> 0 .. MaxSeqs]
  <1> SUFFICES ASSUME NEW o \in Offers
               PROVE  RtMin(MaxSeqs, rtOpen[o] + Cardinality({r \in S : seat[r] = o})) \in 0 .. MaxSeqs
    BY DEF Returned
  <1>1. IsFiniteSet({r \in S : seat[r] = o}) BY FS_Subset, RealtimeConstants
  <1>2. Cardinality({r \in S : seat[r] = o}) \in Nat BY <1>1, FS_CardinalityType
  <1> QED BY <1>2, RealtimeConstants, SMTT(30) DEF RtTypeOK, RtMin

\* Every way in which a step ends contracts or leaves them alone.
RtEnds(S) ==
    /\ S \in SUBSET RtRequests
    /\ \A r \in S : contract[r] = "EXECUTING"
    /\ contract' \in [RtRequests -> {"none", "EXECUTING", "VERIFIED", "FAILED", "CANCELLED"}]
    /\ \A r \in S : contract'[r] # "EXECUTING"
    /\ \A r \in RtRequests \ S : contract'[r] = contract[r]
    /\ rtOpen' = Returned(S)

LEMMA SuccessEnds ==
  ASSUME RtTypeOK, NEW r \in RtRequests, FinalizeRealtimeSuccess(r)
  PROVE  UNCHANGED <<contract, rtOpen>> \/ RtEnds({r})
  <1>1. CASE contract[r] = "VERIFIED" BY <1>1 DEF FinalizeRealtimeSuccess, Settles
  <1>2. CASE contract[r] = "EXECUTING"
    BY <1>2 DEF RtTypeOK, FinalizeRealtimeSuccess, Settles, RtEnds
  <1> QED BY <1>1, <1>2 DEF FinalizeRealtimeSuccess

LEMMA FailureEnds ==
  ASSUME RtTypeOK, NEW r \in RtRequests, NEW end \in {"FAILED", "CANCELLED"},
         FinalizeRealtimeFailure(r, end)
  PROVE  UNCHANGED <<contract, rtOpen>> \/ RtEnds({r})
  <1>1. CASE contract[r] # "EXECUTING" BY <1>1 DEF FinalizeRealtimeFailure
  <1>2. CASE contract[r] = "EXECUTING"
    BY <1>2, SMTT(20) DEF RtTypeOK, FinalizeRealtimeFailure, RtEnds
  <1> QED BY <1>1, <1>2

LEMMA RecoveryEnds ==
  ASSUME RtTypeOK, NEW S \in SUBSET Stale, RecoverStaleRealtimeContracts(S)
  PROVE  RtEnds(S)
  BY DEF RtTypeOK, RecoverStaleRealtimeContracts, RtEnds, Stale

LEMMA RtTypeStep == RtTypeOK /\ [RealtimeNext]_rtVars => RtTypeOK'
  <1> SUFFICES ASSUME RtTypeOK, [RealtimeNext]_rtVars PROVE RtTypeOK' OBVIOUS
  <1>0. /\ \A S \in SUBSET RtRequests : Returned(S) \in [Offers -> 0 .. MaxSeqs]
        /\ \A S : RtEnds(S) => /\ contract' \in [RtRequests -> {"none", "EXECUTING", "VERIFIED", "FAILED", "CANCELLED"}]
                               /\ rtOpen' \in [Offers -> 0 .. MaxSeqs]
    BY ReturnedType DEF RtEnds
  <1>1. ASSUME NEW r \in RtRequests, AuthorizeRealtimeContract(r) PROVE RtTypeOK'
    BY <1>1, RealtimeConstants, SMTT(30) DEF RtTypeOK, AuthorizeRealtimeContract, ClaimOffer, intentVars, offerVars
  <1>2. ASSUME NEW r \in RtRequests, RefuseRequest(r) PROVE RtTypeOK'
    BY <1>2 DEF RtTypeOK, RefuseRequest, ContractEnds, intentVars, offerVars
  <1>3. ASSUME NEW r \in RtRequests, ArmIntent(r) PROVE RtTypeOK'
    BY <1>3, SMTT(30) DEF RtTypeOK, ArmIntent, Trouble, offerVars
  <1>4. ASSUME NEW r \in RtRequests, GiveUpIntent(r) PROVE RtTypeOK'
    <2>1. /\ contract' \in [RtRequests -> {"none", "EXECUTING", "VERIFIED", "FAILED", "CANCELLED"}]
          /\ rtOpen' \in [Offers -> 0 .. MaxSeqs]
      BY <1>4, <1>0, FailureEnds DEF RtTypeOK, GiveUpIntent
    <2>2. /\ intent' \in [RtRequests -> {"none", "pending", "settled", "cancelled", "escalated"}]
          /\ troubles' \in Nat
      BY <1>4, SMTT(30) DEF RtTypeOK, GiveUpIntent, FinalizeRealtimeFailure, Trouble
    <2> QED BY <1>4, <2>1, <2>2 DEF RtTypeOK, GiveUpIntent, ContractEnds, offerVars
  <1>5. ASSUME NEW r \in RtRequests, StartStream(r) \/ Receive(r) PROVE RtTypeOK'
    BY <1>5 DEF RtTypeOK, StartStream, Receive, intentVars, offerVars
  <1>6. ASSUME NEW r \in RtRequests, FinalizeRealtimeSuccess(r)
        PROVE  /\ contract' \in [RtRequests -> {"none", "EXECUTING", "VERIFIED", "FAILED", "CANCELLED"}]
               /\ rtOpen' \in [Offers -> 0 .. MaxSeqs]
               /\ intent' \in [RtRequests -> {"none", "pending", "settled", "cancelled", "escalated"}]
               /\ bills' \in [RtRequests -> Nat]
    <2>1. /\ contract' \in [RtRequests -> {"none", "EXECUTING", "VERIFIED", "FAILED", "CANCELLED"}]
          /\ rtOpen' \in [Offers -> 0 .. MaxSeqs]
      BY <1>6, <1>0, SuccessEnds DEF RtTypeOK
    <2> QED BY <1>6, <2>1, SMTT(30) DEF RtTypeOK, FinalizeRealtimeSuccess, Settles
  <1>7. ASSUME NEW r \in RtRequests, SettleRequest(r) \/ SettlesUnheard(r) PROVE RtTypeOK'
    BY <1>6, <1>7, SMTT(30) DEF RtTypeOK, SettleRequest, SettlesUnheard, ContractEnds, Trouble, offerVars
  <1>8. ASSUME NEW r \in RtRequests, SettleFails(r) PROVE RtTypeOK'
    <2>1. /\ contract' \in [RtRequests -> {"none", "EXECUTING", "VERIFIED", "FAILED", "CANCELLED"}]
          /\ rtOpen' \in [Offers -> 0 .. MaxSeqs]
      BY <1>8, <1>0, FailureEnds DEF RtTypeOK, SettleFails
    <2>2. /\ intent' \in [RtRequests -> {"none", "pending", "settled", "cancelled", "escalated"}]
          /\ troubles' \in Nat /\ rtEvidence' \subseteq RtRequests
      BY <1>8, SMTT(30) DEF RtTypeOK, SettleFails, FinalizeRealtimeFailure, Trouble
    <2>3. handler' \in [RtRequests -> {"new", "forwarding", "streaming", "settling", "unsure", "gone"}]
      BY <1>8 DEF RtTypeOK, SettleFails, ContractEnds
    <2>4. dropped' \subseteq RtRequests BY <1>8 DEF RtTypeOK, SettleFails
    <2>5. UNCHANGED <<seat, arm, bills, rtLate, delivered, count, excess>>
      BY <1>8 DEF SettleFails, ContractEnds, FinalizeRealtimeFailure, offerVars
    <2> QED BY <2>1, <2>2, <2>3, <2>4, <2>5 DEF RtTypeOK
  <1>9. ASSUME NEW r \in RtRequests, HandlerDies(r) \/ PassDeadline(r) PROVE RtTypeOK'
    BY <1>9, SMTT(30) DEF RtTypeOK, HandlerDies, PassDeadline, ContractEnds, Trouble, intentVars, offerVars
  <1>10. ASSUME NEW r \in RtRequests, SweepIntent(r) PROVE RtTypeOK'
    BY <1>6, <1>10 DEF RtTypeOK, SweepIntent, SweepSettles, SweepFails, offerVars
  <1>11. ASSUME NEW S \in SUBSET Stale, RecoverStaleRealtimeContracts(S) PROVE RtTypeOK'
    BY <1>0, <1>11, RecoveryEnds DEF RtTypeOK, RecoverStaleRealtimeContracts, intentVars, offerVars
  <1>12. ASSUME NEW o \in Offers, HeartbeatCounts(o) PROVE RtTypeOK'
    <2>1. IsFiniteSet(Executing(o)) BY FS_Subset, RealtimeConstants DEF Executing
    <2>2. Cardinality(Executing(o)) \in Nat BY <2>1, FS_CardinalityType
    <2> QED BY <1>12, <2>2, SMTT(30) DEF RtTypeOK, HeartbeatCounts, intentVars
  <1>13. ASSUME NEW o \in Offers, NEW n \in 0 .. MaxSeqs,
                HeartbeatRealtimeOffer(o, n) \/ UpsertRealtimeOffer(o, n)
         PROVE  RtTypeOK'
    <2>1. Cardinality(Executing(o)) \in Nat
      BY FS_Subset, FS_CardinalityType, RealtimeConstants DEF Executing
    <2>2. count[o] \in Int BY DEF RtTypeOK
    <2>3. RtMax(0, Cardinality(Executing(o)) - RtMin(count[o], MaxSeqs)) \in Nat
      BY <2>1, <2>2, RealtimeConstants, SMTT(30) DEF RtMax, RtMin
    <2>4. excess' \in [Offers -> Nat]
      BY <1>13, <2>1, <2>3 DEF RtTypeOK, HeartbeatRealtimeOffer, UpsertRealtimeOffer
    <2>5. rtOpen' \in [Offers -> 0 .. MaxSeqs]
      BY <1>13, <2>2, RealtimeConstants, SMTT(30)
         DEF RtTypeOK, HeartbeatRealtimeOffer, UpsertRealtimeOffer, RtMin, RtMax
    <2>6. count' \in [Offers -> Int]
      BY <1>13, SMTT(30) DEF RtTypeOK, HeartbeatRealtimeOffer, UpsertRealtimeOffer
    <2> QED BY <1>13, <2>4, <2>5, <2>6 DEF RtTypeOK, HeartbeatRealtimeOffer, UpsertRealtimeOffer, intentVars
  <1>14. CASE UNCHANGED rtVars BY <1>14 DEF RtTypeOK, rtVars
  <1> QED
    BY <1>1, <1>2, <1>3, <1>4, <1>5, <1>7, <1>8, <1>9, <1>10, <1>11, <1>12, <1>13, <1>14 DEF RealtimeNext

\* Where a handler is, and what it may rely on there.
LEMMA RtHandlerStep ==
  RtTypeOK /\ HandlerInv /\ [RealtimeNext]_rtVars => HandlerInv'
  <1> SUFFICES ASSUME RtTypeOK, HandlerInv, [RealtimeNext]_rtVars PROVE HandlerInv' OBVIOUS
  <1>1. ASSUME NEW r \in RtRequests, AuthorizeRealtimeContract(r) PROVE HandlerInv'
    BY <1>1, SMTT(20) DEF RtTypeOK, HandlerInv, AuthorizeRealtimeContract, Unused, ClaimOffer, intentVars, offerVars
  <1>2. ASSUME NEW r \in RtRequests, RefuseRequest(r) PROVE HandlerInv'
    BY <1>2 DEF RtTypeOK, HandlerInv, RefuseRequest, ContractEnds, intentVars, offerVars
  <1>3. ASSUME NEW r \in RtRequests, ArmIntent(r) PROVE HandlerInv'
    BY <1>3, SMTT(20) DEF RtTypeOK, HandlerInv, ArmIntent, Trouble, offerVars
  <1>4. ASSUME NEW r \in RtRequests, GiveUpIntent(r) PROVE HandlerInv'
    BY <1>4, SMTT(20) DEF RtTypeOK, HandlerInv, GiveUpIntent, ContractEnds, FinalizeRealtimeFailure, Trouble, offerVars
  <1>5. ASSUME NEW r \in RtRequests, StartStream(r) \/ Receive(r) PROVE HandlerInv'
    BY <1>5, SMTT(30) DEF RtTypeOK, HandlerInv, StartStream, Receive, intentVars, offerVars
  <1>6. ASSUME NEW r \in RtRequests, SettleRequest(r) \/ SettlesUnheard(r) PROVE HandlerInv'
    BY <1>6, SMTT(30) DEF RtTypeOK, HandlerInv, SettleRequest, SettlesUnheard, FinalizeRealtimeSuccess, Settles, ContractEnds,
           Trouble, offerVars
  <1>7. ASSUME NEW r \in RtRequests, SettleFails(r) PROVE HandlerInv'
    BY <1>7, SMTT(30) DEF RtTypeOK, HandlerInv, SettleFails, FinalizeRealtimeFailure, ContractEnds, Trouble, offerVars
  <1>8. ASSUME NEW r \in RtRequests, HandlerDies(r) \/ PassDeadline(r) PROVE HandlerInv'
    BY <1>8, SMTT(30) DEF RtTypeOK, HandlerInv, HandlerDies, PassDeadline, ContractEnds, Trouble, intentVars, offerVars
  <1>9. ASSUME NEW r \in RtRequests, SweepIntent(r) PROVE HandlerInv'
    BY <1>9, SMTT(30) DEF RtTypeOK, HandlerInv, SweepIntent, SweepSettles, SweepFails, Sweepable, FinalizeRealtimeSuccess, Settles,
           offerVars
  <1>10. ASSUME NEW S \in SUBSET Stale, RecoverStaleRealtimeContracts(S) PROVE HandlerInv'
    BY <1>10 DEF RtTypeOK, HandlerInv, RecoverStaleRealtimeContracts, Stale, intentVars, offerVars
  <1>11. ASSUME NEW o \in Offers, HeartbeatCounts(o) PROVE HandlerInv'
    BY <1>11 DEF RtTypeOK, HandlerInv, HeartbeatCounts, intentVars
  <1>12. ASSUME NEW o \in Offers, NEW n \in 0 .. MaxSeqs,
                HeartbeatRealtimeOffer(o, n) \/ UpsertRealtimeOffer(o, n)
        PROVE HandlerInv'
    BY <1>12, SMTT(20) DEF RtTypeOK, HandlerInv, HeartbeatRealtimeOffer, UpsertRealtimeOffer, intentVars
  <1>13. CASE UNCHANGED rtVars BY <1>13 DEF RtTypeOK, HandlerInv, rtVars
  <1> QED
    BY <1>1, <1>2, <1>3, <1>4, <1>5, <1>6, <1>7, <1>8, <1>9, <1>10, <1>11, <1>12, <1>13 DEF RealtimeNext

\* Only FinalizeRealtimeSuccess bills, and it verifies what it bills.
LEMMA RtBilledStep ==
  RtTypeOK /\ VerifiedIsBilledOnce /\ [RealtimeNext]_rtVars => VerifiedIsBilledOnce'
  <1> SUFFICES ASSUME RtTypeOK, VerifiedIsBilledOnce, [RealtimeNext]_rtVars PROVE VerifiedIsBilledOnce' OBVIOUS
  <1>1. ASSUME NEW r \in RtRequests, AuthorizeRealtimeContract(r) PROVE VerifiedIsBilledOnce'
    BY <1>1 DEF RtTypeOK, VerifiedIsBilledOnce, AuthorizeRealtimeContract, Unused, ClaimOffer, intentVars, offerVars
  <1>2. ASSUME NEW r \in RtRequests, RefuseRequest(r) PROVE VerifiedIsBilledOnce'
    BY <1>2 DEF RtTypeOK, VerifiedIsBilledOnce, RefuseRequest, ContractEnds, intentVars, offerVars
  <1>3. ASSUME NEW r \in RtRequests, ArmIntent(r) PROVE VerifiedIsBilledOnce'
    BY <1>3 DEF RtTypeOK, VerifiedIsBilledOnce, ArmIntent, Trouble, offerVars
  <1>4. ASSUME NEW r \in RtRequests, GiveUpIntent(r) PROVE VerifiedIsBilledOnce'
    BY <1>4 DEF RtTypeOK, VerifiedIsBilledOnce, GiveUpIntent, ContractEnds, FinalizeRealtimeFailure, Trouble, offerVars
  <1>5. ASSUME NEW r \in RtRequests, StartStream(r) \/ Receive(r) PROVE VerifiedIsBilledOnce'
    BY <1>5 DEF RtTypeOK, VerifiedIsBilledOnce, StartStream, Receive, intentVars, offerVars
  <1>6. ASSUME NEW r \in RtRequests, SettleRequest(r) \/ SettlesUnheard(r) PROVE VerifiedIsBilledOnce'
    BY <1>6, SMTT(30) DEF RtTypeOK, VerifiedIsBilledOnce, SettleRequest, SettlesUnheard, FinalizeRealtimeSuccess, Settles, ContractEnds,
           Trouble, offerVars
  <1>7. ASSUME NEW r \in RtRequests, SettleFails(r) PROVE VerifiedIsBilledOnce'
    BY <1>7 DEF RtTypeOK, VerifiedIsBilledOnce, SettleFails, FinalizeRealtimeFailure, ContractEnds, Trouble, offerVars
  <1>8. ASSUME NEW r \in RtRequests, HandlerDies(r) \/ PassDeadline(r) PROVE VerifiedIsBilledOnce'
    BY <1>8 DEF RtTypeOK, VerifiedIsBilledOnce, HandlerDies, PassDeadline, ContractEnds, Trouble, intentVars, offerVars
  <1>9. ASSUME NEW r \in RtRequests, SweepIntent(r) PROVE VerifiedIsBilledOnce'
    BY <1>9, SMTT(30) DEF RtTypeOK, VerifiedIsBilledOnce, SweepIntent, SweepSettles, SweepFails, Sweepable, FinalizeRealtimeSuccess, Settles,
           offerVars
  <1>10. ASSUME NEW S \in SUBSET Stale, RecoverStaleRealtimeContracts(S) PROVE VerifiedIsBilledOnce'
    BY <1>10 DEF RtTypeOK, VerifiedIsBilledOnce, RecoverStaleRealtimeContracts, Stale, intentVars, offerVars
  <1>11. ASSUME NEW o \in Offers, HeartbeatCounts(o) PROVE VerifiedIsBilledOnce'
    BY <1>11 DEF RtTypeOK, VerifiedIsBilledOnce, HeartbeatCounts, intentVars
  <1>12. ASSUME NEW o \in Offers, NEW n \in 0 .. MaxSeqs,
                HeartbeatRealtimeOffer(o, n) \/ UpsertRealtimeOffer(o, n)
        PROVE VerifiedIsBilledOnce'
    BY <1>12 DEF RtTypeOK, VerifiedIsBilledOnce, HeartbeatRealtimeOffer, UpsertRealtimeOffer, intentVars
  <1>13. CASE UNCHANGED rtVars BY <1>13 DEF RtTypeOK, VerifiedIsBilledOnce, rtVars
  <1> QED
    BY <1>1, <1>2, <1>3, <1>4, <1>5, <1>6, <1>7, <1>8, <1>9, <1>10, <1>11, <1>12, <1>13 DEF RealtimeNext

\* An insertion under way belongs to a request that did not give up.
LEMMA RtGivenUpStep ==
  RtTypeOK /\ HandlerInv /\ GivenUpIsNotPending /\ [RealtimeNext]_rtVars => GivenUpIsNotPending'
  <1> SUFFICES ASSUME RtTypeOK, HandlerInv, GivenUpIsNotPending, [RealtimeNext]_rtVars PROVE GivenUpIsNotPending' OBVIOUS
  <1>1. ASSUME NEW r \in RtRequests, AuthorizeRealtimeContract(r) PROVE GivenUpIsNotPending'
    BY <1>1 DEF RtTypeOK, HandlerInv, GivenUpIsNotPending, AuthorizeRealtimeContract, Unused, ClaimOffer, intentVars, offerVars
  <1>2. ASSUME NEW r \in RtRequests, RefuseRequest(r) PROVE GivenUpIsNotPending'
    BY <1>2 DEF RtTypeOK, HandlerInv, GivenUpIsNotPending, RefuseRequest, ContractEnds, intentVars, offerVars
  <1>3. ASSUME NEW r \in RtRequests, ArmIntent(r) PROVE GivenUpIsNotPending'
    BY <1>3 DEF RtTypeOK, HandlerInv, GivenUpIsNotPending, ArmIntent, Trouble, offerVars
  <1>4. ASSUME NEW r \in RtRequests, GiveUpIntent(r) PROVE GivenUpIsNotPending'
    BY <1>4, SMTT(20) DEF RtTypeOK, HandlerInv, GivenUpIsNotPending, GiveUpIntent, ContractEnds, FinalizeRealtimeFailure, Trouble, offerVars
  <1>5. ASSUME NEW r \in RtRequests, StartStream(r) \/ Receive(r) PROVE GivenUpIsNotPending'
    BY <1>5 DEF RtTypeOK, HandlerInv, GivenUpIsNotPending, StartStream, Receive, intentVars, offerVars
  <1>6. ASSUME NEW r \in RtRequests, SettleRequest(r) \/ SettlesUnheard(r) PROVE GivenUpIsNotPending'
    BY <1>6, SMTT(30) DEF RtTypeOK, HandlerInv, GivenUpIsNotPending, SettleRequest, SettlesUnheard, FinalizeRealtimeSuccess, Settles, ContractEnds,
           Trouble, offerVars
  <1>7. ASSUME NEW r \in RtRequests, SettleFails(r) PROVE GivenUpIsNotPending'
    BY <1>7, SMTT(20) DEF RtTypeOK, HandlerInv, GivenUpIsNotPending, SettleFails, FinalizeRealtimeFailure, ContractEnds, Trouble, offerVars
  <1>8. ASSUME NEW r \in RtRequests, HandlerDies(r) \/ PassDeadline(r) PROVE GivenUpIsNotPending'
    BY <1>8 DEF RtTypeOK, HandlerInv, GivenUpIsNotPending, HandlerDies, PassDeadline, ContractEnds, Trouble, intentVars, offerVars
  <1>9. ASSUME NEW r \in RtRequests, SweepIntent(r) PROVE GivenUpIsNotPending'
    BY <1>9, SMTT(20) DEF RtTypeOK, HandlerInv, GivenUpIsNotPending, SweepIntent, SweepSettles, SweepFails, Sweepable, FinalizeRealtimeSuccess, Settles,
           offerVars
  <1>10. ASSUME NEW S \in SUBSET Stale, RecoverStaleRealtimeContracts(S) PROVE GivenUpIsNotPending'
    BY <1>10 DEF RtTypeOK, HandlerInv, GivenUpIsNotPending, RecoverStaleRealtimeContracts, Stale, intentVars, offerVars
  <1>11. ASSUME NEW o \in Offers, HeartbeatCounts(o) PROVE GivenUpIsNotPending'
    BY <1>11 DEF RtTypeOK, HandlerInv, GivenUpIsNotPending, HeartbeatCounts, intentVars
  <1>12. ASSUME NEW o \in Offers, NEW n \in 0 .. MaxSeqs,
                HeartbeatRealtimeOffer(o, n) \/ UpsertRealtimeOffer(o, n)
        PROVE GivenUpIsNotPending'
    BY <1>12 DEF RtTypeOK, HandlerInv, GivenUpIsNotPending, HeartbeatRealtimeOffer, UpsertRealtimeOffer, intentVars
  <1>13. CASE UNCHANGED rtVars BY <1>13 DEF RtTypeOK, HandlerInv, GivenUpIsNotPending, rtVars
  <1> QED
    BY <1>1, <1>2, <1>3, <1>4, <1>5, <1>6, <1>7, <1>8, <1>9, <1>10, <1>11, <1>12, <1>13 DEF RealtimeNext

\* A handler that settles a stream still has the intent its evidence goes to.
LEMMA RtDeliveredStep ==
  RtTypeOK /\ HandlerInv /\ DeliveredIsAccounted /\ [RealtimeNext]_rtVars => DeliveredIsAccounted'
  <1> SUFFICES ASSUME RtTypeOK, HandlerInv, DeliveredIsAccounted, [RealtimeNext]_rtVars PROVE DeliveredIsAccounted' OBVIOUS
  <1>1. ASSUME NEW r \in RtRequests, AuthorizeRealtimeContract(r) PROVE DeliveredIsAccounted'
    BY <1>1 DEF RtTypeOK, HandlerInv, DeliveredIsAccounted, AuthorizeRealtimeContract, Unused, ClaimOffer, intentVars, offerVars
  <1>2. ASSUME NEW r \in RtRequests, RefuseRequest(r) PROVE DeliveredIsAccounted'
    BY <1>2 DEF RtTypeOK, HandlerInv, DeliveredIsAccounted, RefuseRequest, ContractEnds, intentVars, offerVars
  <1>3. ASSUME NEW r \in RtRequests, ArmIntent(r) PROVE DeliveredIsAccounted'
    BY <1>3, SMTT(30) DEF RtTypeOK, HandlerInv, DeliveredIsAccounted, ArmIntent, Trouble, offerVars
  <1>4. ASSUME NEW r \in RtRequests, GiveUpIntent(r) PROVE DeliveredIsAccounted'
    BY <1>4, SMTT(30) DEF RtTypeOK, HandlerInv, DeliveredIsAccounted, GiveUpIntent, ContractEnds, FinalizeRealtimeFailure, Trouble, offerVars
  <1>5. ASSUME NEW r \in RtRequests, StartStream(r) \/ Receive(r) PROVE DeliveredIsAccounted'
    BY <1>5, SMTT(30) DEF RtTypeOK, HandlerInv, DeliveredIsAccounted, StartStream, Receive, intentVars, offerVars
  <1>6. ASSUME NEW r \in RtRequests, SettleRequest(r) \/ SettlesUnheard(r) PROVE DeliveredIsAccounted'
    BY <1>6, SMTT(30) DEF RtTypeOK, HandlerInv, DeliveredIsAccounted, SettleRequest, SettlesUnheard, FinalizeRealtimeSuccess, Settles, ContractEnds,
           Trouble, offerVars
  <1>7. ASSUME NEW r \in RtRequests, SettleFails(r) PROVE DeliveredIsAccounted'
    BY <1>7, SMTT(30) DEF RtTypeOK, HandlerInv, DeliveredIsAccounted, SettleFails, FinalizeRealtimeFailure, ContractEnds, Trouble, offerVars
  <1>8. ASSUME NEW r \in RtRequests, HandlerDies(r) \/ PassDeadline(r) PROVE DeliveredIsAccounted'
    BY <1>8, SMTT(30) DEF RtTypeOK, HandlerInv, DeliveredIsAccounted, HandlerDies, PassDeadline, ContractEnds, Trouble, intentVars, offerVars
  <1>9. ASSUME NEW r \in RtRequests, SweepIntent(r) PROVE DeliveredIsAccounted'
    BY <1>9, SMTT(20) DEF RtTypeOK, HandlerInv, DeliveredIsAccounted, SweepIntent, SweepSettles, SweepFails, Sweepable, FinalizeRealtimeSuccess, Settles,
           offerVars
  <1>10. ASSUME NEW S \in SUBSET Stale, RecoverStaleRealtimeContracts(S) PROVE DeliveredIsAccounted'
    BY <1>10 DEF RtTypeOK, HandlerInv, DeliveredIsAccounted, RecoverStaleRealtimeContracts, Stale, intentVars, offerVars
  <1>11. ASSUME NEW o \in Offers, HeartbeatCounts(o) PROVE DeliveredIsAccounted'
    BY <1>11 DEF RtTypeOK, HandlerInv, DeliveredIsAccounted, HeartbeatCounts, intentVars
  <1>12. ASSUME NEW o \in Offers, NEW n \in 0 .. MaxSeqs,
                HeartbeatRealtimeOffer(o, n) \/ UpsertRealtimeOffer(o, n)
        PROVE DeliveredIsAccounted'
    BY <1>12 DEF RtTypeOK, HandlerInv, DeliveredIsAccounted, HeartbeatRealtimeOffer, UpsertRealtimeOffer, intentVars
  <1>13. CASE UNCHANGED rtVars BY <1>13 DEF RtTypeOK, HandlerInv, DeliveredIsAccounted, rtVars
  <1> QED
    BY <1>1, <1>2, <1>3, <1>4, <1>5, <1>6, <1>7, <1>8, <1>9, <1>10, <1>11, <1>12, <1>13 DEF RealtimeNext

\* The sequences of an offer that run, as a finite number.
LEMMA ExecutingFinite ==
  ASSUME NEW o \in Offers
  PROVE  IsFiniteSet(Executing(o)) /\ Cardinality(Executing(o)) \in Nat
  BY FS_Subset, FS_CardinalityType, RealtimeConstants DEF Executing

\* releaseRealtimeCapacity gives back no more than what stopped running.
LEMMA CapacityReleased ==
  ASSUME RtTypeOK, NotOverbooked, NEW S, RtEnds(S), UNCHANGED <<seat, excess>>
  PROVE  NotOverbooked'
  <1> SUFFICES ASSUME NEW o \in Offers
               PROVE  Cardinality(Executing(o)') + rtOpen'[o] <= MaxSeqs + excess[o]
    BY DEF NotOverbooked
  <1> DEFINE Own == {r \in S : seat[r] = o}
  <1>1. IsFiniteSet(Executing(o)) /\ Cardinality(Executing(o)) \in Nat BY ExecutingFinite
  <1>2. Own \subseteq Executing(o) BY DEF RtEnds, Executing
  <1>3. Executing(o)' = Executing(o) \ Own BY DEF RtEnds, Executing
  <1>4. IsFiniteSet(Own) /\ Cardinality(Own) \in Nat BY <1>1, <1>2, FS_Subset, FS_CardinalityType
  <1>5. Executing(o) \cap Own = Own BY <1>2
  <1>6. Cardinality(Executing(o)') = Cardinality(Executing(o)) - Cardinality(Own)
    BY <1>1, <1>3, <1>5, FS_Difference
  <1>7. rtOpen'[o] = RtMin(MaxSeqs, rtOpen[o] + Cardinality(Own)) BY DEF RtEnds, Returned
  <1>8. Cardinality(Executing(o)) + rtOpen[o] <= MaxSeqs + excess[o] BY DEF NotOverbooked
  <1>9. rtOpen[o] \in Nat /\ excess[o] \in Nat BY RealtimeConstants, SMTT(30) DEF RtTypeOK
  <1> HIDE DEF Own
  <1> QED BY <1>1, <1>4, <1>6, <1>7, <1>8, <1>9, RealtimeConstants, SMTT(30) DEF RtMin

LEMMA CapacityKept ==
  ASSUME NotOverbooked, UNCHANGED <<contract, rtOpen, seat, excess>>
  PROVE  NotOverbooked'
  BY DEF NotOverbooked, Executing

LEMMA RtCapacityStep == RtTypeOK /\ NotOverbooked /\ [RealtimeNext]_rtVars => NotOverbooked'
  <1> SUFFICES ASSUME RtTypeOK, NotOverbooked, [RealtimeNext]_rtVars PROVE NotOverbooked' OBVIOUS
  <1>1. ASSUME NEW r \in RtRequests, AuthorizeRealtimeContract(r) PROVE NotOverbooked'
    <2>1. PICK o \in Offers : ClaimOffer(r, o) BY <1>1 DEF AuthorizeRealtimeContract
    <2>2. contract[r] = "none" BY <1>1 DEF AuthorizeRealtimeContract, Unused
    <2>3. r \notin Executing(o) BY <2>2 DEF Executing
    <2>4. Executing(o)' = Executing(o) \cup {r}
      BY <1>1, <2>1, SMTT(30) DEF RtTypeOK, AuthorizeRealtimeContract, ClaimOffer, Executing
    <2>5. Cardinality(Executing(o)') = Cardinality(Executing(o)) + 1
      BY <2>3, <2>4, ExecutingFinite, FS_AddElement
    <2>6. \A p \in Offers \ {o} : Executing(p)' = Executing(p)
      BY <1>1, <2>1, <2>2 DEF RtTypeOK, AuthorizeRealtimeContract, ClaimOffer, Executing
    <2>7. /\ rtOpen'[o] = rtOpen[o] - 1 /\ rtOpen[o] \in Nat
          /\ \A p \in Offers \ {o} : rtOpen'[p] = rtOpen[p]
      BY <2>1, RealtimeConstants, SMTT(30) DEF RtTypeOK, ClaimOffer
    <2>8. excess' = excess BY <1>1 DEF AuthorizeRealtimeContract, offerVars
    <2>9. Cardinality(Executing(o)) \in Nat /\ excess[o] \in Nat BY ExecutingFinite DEF RtTypeOK
    <2>10. Cardinality(Executing(o)') + rtOpen'[o] <= MaxSeqs + excess[o]
      BY <2>5, <2>7, <2>9, RealtimeConstants, SMTT(30) DEF NotOverbooked
    <2>11. \A p \in Offers \ {o} : Cardinality(Executing(p)') + rtOpen'[p] <= MaxSeqs + excess[p]
      BY <2>6, <2>7 DEF NotOverbooked
    <2> QED BY <2>8, <2>10, <2>11 DEF NotOverbooked
  <1>2. ASSUME NEW r \in RtRequests,
               \/ RefuseRequest(r) \/ ArmIntent(r) \/ StartStream(r) \/ Receive(r)
               \/ HandlerDies(r) \/ PassDeadline(r) \/ SweepFails(r)
        PROVE  NotOverbooked'
    BY <1>2, CapacityKept DEF RefuseRequest, ArmIntent, StartStream, Receive, HandlerDies,
           PassDeadline, SweepFails, offerVars
  <1>3. ASSUME NEW r \in RtRequests, GiveUpIntent(r) \/ SettleFails(r) PROVE NotOverbooked'
    <2>1. UNCHANGED <<contract, rtOpen>> \/ RtEnds({r})
      BY <1>3, FailureEnds DEF GiveUpIntent, SettleFails
    <2>2. UNCHANGED <<seat, excess>> BY <1>3 DEF GiveUpIntent, SettleFails, offerVars
    <2> QED BY <2>1, <2>2, CapacityKept, CapacityReleased
  <1>4. ASSUME NEW r \in RtRequests, SettleRequest(r) \/ SettlesUnheard(r) \/ SweepSettles(r)
        PROVE  NotOverbooked'
    <2>1. UNCHANGED <<contract, rtOpen>> \/ RtEnds({r})
      BY <1>4, SuccessEnds DEF SettleRequest, SettlesUnheard, SweepSettles
    <2>2. UNCHANGED <<seat, excess>> BY <1>4 DEF SettleRequest, SettlesUnheard, SweepSettles, offerVars
    <2> QED BY <2>1, <2>2, CapacityKept, CapacityReleased
  <1>5. ASSUME NEW S \in SUBSET Stale, RecoverStaleRealtimeContracts(S) PROVE NotOverbooked'
    <2>1. UNCHANGED <<seat, excess>> BY <1>5 DEF RecoverStaleRealtimeContracts, offerVars
    <2> QED BY <1>5, <2>1, RecoveryEnds, CapacityReleased
  <1>6. ASSUME NEW o \in Offers, HeartbeatCounts(o) PROVE NotOverbooked'
    BY <1>6, CapacityKept DEF HeartbeatCounts
  <1>7. ASSUME NEW o \in Offers, NEW n \in 0 .. MaxSeqs, HeartbeatRealtimeOffer(o, n)
        PROVE  NotOverbooked'
    <2>1. \A p \in Offers : Executing(p)' = Executing(p)
      BY <1>7 DEF HeartbeatRealtimeOffer, Executing
    <2>2. \A p \in Offers \ {o} : rtOpen'[p] = rtOpen[p] /\ excess'[p] = excess[p]
      BY <1>7 DEF RtTypeOK, HeartbeatRealtimeOffer
    <2>3. \A p \in Offers \ {o} : Cardinality(Executing(p)') + rtOpen'[p] <= MaxSeqs + excess'[p]
      BY <2>1, <2>2 DEF NotOverbooked
    <2>4. rtOpen'[o] = RtMax(0, RtMin(n, MaxSeqs - count[o])) BY <1>7 DEF RtTypeOK, HeartbeatRealtimeOffer
    <2>5. /\ excess'[o] = RtMax(0, Cardinality(Executing(o)) - RtMin(count[o], MaxSeqs))
          /\ count[o] \in Int /\ Cardinality(Executing(o)) \in Nat
      BY <1>7, ExecutingFinite DEF RtTypeOK, HeartbeatRealtimeOffer
    <2>6. Cardinality(Executing(o)) + rtOpen'[o] <= MaxSeqs + excess'[o]
      BY <2>4, <2>5, RealtimeConstants, SMTT(30) DEF RtMax, RtMin
    <2> QED BY <2>1, <2>3, <2>6 DEF NotOverbooked
  <1>8. ASSUME NEW o \in Offers, NEW n \in 0 .. MaxSeqs, UpsertRealtimeOffer(o, n)
        PROVE  NotOverbooked'
    <2>1. \A p \in Offers : Executing(p)' = Executing(p)
      BY <1>8 DEF UpsertRealtimeOffer, Executing
    <2>2. \A p \in Offers \ {o} : rtOpen'[p] = rtOpen[p] /\ excess'[p] = excess[p]
      BY <1>8 DEF RtTypeOK, UpsertRealtimeOffer
    <2>3. \A p \in Offers \ {o} : Cardinality(Executing(p)') + rtOpen'[p] <= MaxSeqs + excess'[p]
      BY <2>1, <2>2 DEF NotOverbooked
    <2>4. rtOpen'[o] = n BY <1>8 DEF RtTypeOK, UpsertRealtimeOffer
    <2>5. excess'[o] = Cardinality(Executing(o)) /\ Cardinality(Executing(o)) \in Nat
      BY <1>8, ExecutingFinite DEF RtTypeOK, UpsertRealtimeOffer
    <2>6. Cardinality(Executing(o)) + rtOpen'[o] <= MaxSeqs + excess'[o]
      BY <2>4, <2>5, RealtimeConstants, SMTT(30)
    <2> QED BY <2>1, <2>3, <2>6 DEF NotOverbooked
  <1>9. CASE UNCHANGED rtVars BY <1>9, CapacityKept DEF rtVars
  <1> QED
    BY <1>1, <1>2, <1>3, <1>4, <1>5, <1>6, <1>7, <1>8, <1>9 DEF RealtimeNext, SweepIntent

LEMMA RtInvariant == RealtimeSpec => []RtInv
  <1>1. RtInv /\ [RealtimeNext]_rtVars => RtInv'
    BY RtTypeStep, RtHandlerStep, RtBilledStep, RtGivenUpStep, RtDeliveredStep, RtCapacityStep
       DEF RtInv
  <1> QED BY RtInitInv, <1>1, PTL DEF RealtimeSpec

\* The settlement of a request and the sweep's, in any order and however often
\* they repeat, bill a contract once, and only a verified one
\* (FinalizeRealtimeSuccess).
THEOREM RealtimeBilledOnce == RealtimeSpec => []VerifiedIsBilledOnce
  BY RtInvariant, PTL DEF RtInv

\* A stream the buyer has in full is voided only past its deadline, and leaves a
\* bill or the evidence of one when its handler goes, unless that handler dies with
\* the evidence or cannot write it (the stream branch of handleChatCompletions).
THEOREM RealtimeAccounted == RealtimeSpec => []DeliveredIsAccounted
  BY RtInvariant, PTL DEF RtInv

\* A request that gives up waits for the insertion of its intent, so that none
\* is left for the sweep to bill (drainIntent, FinalizeRealtimeFailure).
THEOREM RealtimeGivenUp == RealtimeSpec => []GivenUpIsNotPending
  BY RtInvariant, PTL DEF RtInv

\* The claim of a sequence with the row and its release on each way a contract
\* ends keep an offer within max_active_sequences (AuthorizeRealtimeContract,
\* releaseRealtimeCapacity), but for what the last heartbeat or registration wrote
\* without counting it: that excess is bounded by its size and never grows.
THEOREM RealtimeCapacity == RealtimeSpec => []NotOverbooked
  BY RtInvariant, PTL DEF RtInv

\* The account of every contract is kept, for any number of requests, offers and faults,
\* with the two exceptions its conjuncts name: evidence its handler died with, and
\* contracts the last report of the worker did not count.
THEOREM RealtimeSafe == RealtimeSpec => []RealtimeKept
  <1>1. VerifiedIsBilledOnce /\ DeliveredIsAccounted /\ GivenUpIsNotPending /\ NotOverbooked
          => RealtimeKept
    BY DEF RealtimeKept
  <1> QED BY <1>1, RealtimeBilledOnce, RealtimeAccounted, RealtimeGivenUp, RealtimeCapacity, PTL
=============================================================================
