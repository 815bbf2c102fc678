--------------------------- MODULE PrepaidTopups ---------------------------
(***************************************************************************)
(* Cash into and out of a prepaid balance: top-ups charged to a card and    *)
(* credited by the request or by the provider's event, and refunds of the   *)
(* remainder by an operator (prepaid.go, store_prepaid.go) that the         *)
(* collection sweep finishes (recoverPrepaidRefunds in collect.go).         *)
(*                                                                         *)
(* A refund is cut into slices, one per top-up it is traced to.  A slice    *)
(* is a row of prepaid_refund_operations, named by the operator's reference *)
(* and the top-up.  The provider keeps the refunds made for a slice in the  *)
(* order they were made; an index into them stands for a refund id.  Every  *)
(* action is one transaction or one exchange with the provider.             *)
(***************************************************************************)
EXTENDS Integers, FiniteSets, FiniteSetsExt, Sequences, SequencesExt

CONSTANTS
    TopUps,        \* idempotency keys of top-ups
    Earlier,       \* top-ups credited before the first step
    Refs,          \* correlation references of refunds
    Operators,     \* requests that run refundPrepaidRemainder
    Recoverers,    \* runs of recoverPrepaidRefunds
    AmountCents,   \* amount of a top-up
    MicrosPerCent, \* MicrosPerMinorUnit
    MaxUses,       \* bound: micros the buyer spends
    MaxMishaps,    \* bound: lost answers, crashes and forgotten keys
    NoSlice

ASSUME TopUpConstants ==
    /\ IsFiniteSet(TopUps) /\ Earlier \subseteq TopUps /\ IsFiniteSet(Refs) /\ Operators \cap Recoverers = {}
    /\ AmountCents \in Nat \ {0} /\ MicrosPerCent \in Nat \ {0}
    /\ MaxUses \in Nat /\ MaxMishaps \in Nat /\ NoSlice \notin Refs \X TopUps

Slices == Refs \X TopUps
Actors == Operators \cup Recoverers

VARIABLES
    topup,     \* prepaid_topup_operations.status, "none" before the row
    ptBuyer,     \* where the buyer's request is
    paidBy,    \* provider: top-ups whose payment was taken
    told,      \* top-ups whose success event was handled
    credits,   \* credited top-ups, oldest first
    funds,     \* buyer_prepaid_balances.balance_micros
    used,      \* micros the buyer spent
    cents,     \* amount_cents of a slice, 0 before the row
    slice,     \* its status
    ptBound,     \* its stripe_refund_id, 0 for NULL
    made,      \* provider: the refunds made for a slice
    ptKeyed,     \* provider: slices whose idempotency key is remembered
    forgot,    \* provider: slices whose key it has forgotten once
    ptPlan,      \* slices an actor still has to go through, with the ids it read
    hand,      \* the slice, id and status an actor is working on
    ptWon,       \* an operator's slices that succeeded
    mishaps

topUpVars == <<topup, ptBuyer, paidBy, told, credits>>
sliceVars == <<cents, slice, ptBound>>
providerRefundVars == <<made, ptKeyed, forgot>>
actorVars == <<ptPlan, hand, ptWon>>
prepaidVars == <<topUpVars, funds, used, sliceVars, providerRefundVars, actorVars, mishaps>>

Empty == [slice |-> NoSlice, id |-> 0, status |-> "none", bound |-> FALSE]
NoPlan == [s \in {} |-> 0]

PrepaidInit ==
    /\ topup = [t \in TopUps |-> IF t \in Earlier THEN "succeeded" ELSE "none"]
    /\ ptBuyer = [t \in TopUps |-> IF t \in Earlier THEN "gone" ELSE "idle"]
    /\ paidBy = Earlier /\ told = Earlier /\ credits = SetToSeq(Earlier)
    /\ funds = Cardinality(Earlier) * AmountCents * MicrosPerCent /\ used = 0
    /\ cents = [s \in Slices |-> 0]
    /\ slice = [s \in Slices |-> "none"]
    /\ ptBound = [s \in Slices |-> 0]
    /\ made = [s \in Slices |-> << >>]
    /\ ptKeyed = {} /\ forgot = {}
    /\ ptPlan = [a \in Actors |-> NoPlan]
    /\ hand = [a \in Actors |-> Empty]
    /\ ptWon = [a \in Actors |-> NoPlan]
    /\ mishaps = 0

Mishap == mishaps < MaxMishaps /\ mishaps' = mishaps + 1

-----------------------------------------------------------------------------
(* Top-ups.                                                                  *)

\* handleBillingTopup up to the provider call: only the request that inserted
\* the row charges the card.  Any other finds it credited or in flight.
BeginPrepaidTopup(t) ==
    /\ topup[t] = "none"
    /\ topup' = [topup EXCEPT ![t] = "pending"]
    /\ ptBuyer' = [ptBuyer EXCEPT ![t] = "armed"]
    /\ UNCHANGED <<paidBy, told, credits, funds, used, sliceVars, providerRefundVars, actorVars, mishaps>>

ChargeTopup(t) ==
    /\ ptBuyer[t] = "armed"
    /\ paidBy' = paidBy \cup {t}
    /\ \/ ptBuyer' = [ptBuyer EXCEPT ![t] = "paid"] /\ UNCHANGED mishaps
       \/ ptBuyer' = [ptBuyer EXCEPT ![t] = "gone"] /\ Mishap
    /\ UNCHANGED <<topup, told, credits, funds, used, sliceVars, providerRefundVars, actorVars>>

\* The card is declined: the operation stays pending.
DeclineTopup(t) ==
    /\ ptBuyer[t] = "armed" /\ Mishap
    /\ ptBuyer' = [ptBuyer EXCEPT ![t] = "gone"]
    /\ UNCHANGED <<topup, paidBy, told, credits, funds, used, sliceVars, providerRefundVars, actorVars>>

\* CreditPrepaidTopup
\* Mutant: a completed operation is credited again.
Credit_Again(t) ==
    /\ topup' = [topup EXCEPT ![t] = "succeeded"]
    /\ credits' = IF topup[t] = "succeeded" THEN credits ELSE Append(credits, t)
    /\ funds' = funds + AmountCents * MicrosPerCent
Credit(t) ==
    IF topup[t] = "succeeded" THEN UNCHANGED <<topup, credits, funds>>
    ELSE /\ topup' = [topup EXCEPT ![t] = "succeeded"]
         /\ credits' = Append(credits, t)
         /\ funds' = funds + AmountCents * MicrosPerCent

CreditByRequest(t) ==
    /\ ptBuyer[t] = "paid"
    /\ ptBuyer' = [ptBuyer EXCEPT ![t] = "gone"]
    /\ Credit(t)
    /\ UNCHANGED <<paidBy, told, used, sliceVars, providerRefundVars, actorVars, mishaps>>

\* reconcilePrepaidTopup, for payment_intent.succeeded.
CreditByEvent(t) ==
    /\ t \in paidBy \ told
    /\ told' = told \cup {t}
    /\ Credit(t)
    /\ UNCHANGED <<ptBuyer, paidBy, used, sliceVars, providerRefundVars, actorVars, mishaps>>

\* A settled task or contract debits the balance.
Use ==
    /\ used < MaxUses /\ funds > 0
    /\ used' = used + 1
    /\ funds' = funds - 1
    /\ UNCHANGED <<topUpVars, sliceVars, providerRefundVars, actorVars, mishaps>>

-----------------------------------------------------------------------------
(* Planning a refund.                                                        *)

SlicesOf(r) == {s \in Slices : s[1] = r /\ cents[s] > 0}
Counts(s) == slice[s] \in {"pending", "succeeded"}

\* planPrepaidRefundSlicesTx: what is left of a top-up after earlier refunds.
Refundable(t) == AmountCents - SumFunctionOnSet(cents, {s \in Slices : s[2] = t /\ Counts(s)})

\* Newest top-up first: the cents of each that n cents are traced to.
Traced(n) ==
    LET room(i) == SumFunctionOnSet([k \in 1..Len(credits) |-> Refundable(credits[k])],
                                    (i + 1)..Len(credits))
        take(i) == LET left == n - room(i)
                   IN  IF left <= 0 THEN 0
                       ELSE IF left < Refundable(credits[i]) THEN left ELSE Refundable(credits[i])
    IN  [t \in TopUps |-> IF \E i \in 1..Len(credits) : credits[i] = t
                          THEN take(CHOOSE i \in 1..Len(credits) : credits[i] = t) ELSE 0]

TopUpIdle(a) == ptPlan[a] = NoPlan /\ hand[a] = Empty /\ ptWon[a] = NoPlan

\* BeginPrepaidRefund with a new reference; whole cents only.
BeginPrepaidRefund(a, r) ==
    LET n == funds \div MicrosPerCent
        share == Traced(n)
        mine == {s \in Slices : s[1] = r /\ share[s[2]] > 0}
    IN  /\ TopUpIdle(a) /\ SlicesOf(r) = {}
        /\ n > 0 /\ SumFunctionOnSet(share, TopUps) = n
        /\ funds' = funds - n * MicrosPerCent
        /\ cents' = [s \in Slices |-> IF s \in mine THEN share[s[2]] ELSE cents[s]]
        /\ slice' = [s \in Slices |-> IF s \in mine THEN "pending" ELSE slice[s]]
        /\ ptPlan' = [ptPlan EXCEPT ![a] = [s \in mine |-> 0]]
        /\ UNCHANGED <<topUpVars, used, ptBound, providerRefundVars, hand, ptWon, mishaps>>

\* The same reference again: the stored slices, unless one has failed.
ReplayPrepaidRefund(a, r) ==
    /\ TopUpIdle(a) /\ SlicesOf(r) # {}
    /\ \A s \in SlicesOf(r) : slice[s] # "failed"
    /\ ptPlan' = [ptPlan EXCEPT ![a] = [s \in {x \in SlicesOf(r) : slice[x] = "pending"} |-> ptBound[s]]]
    /\ ptPlan'[a] # NoPlan
    /\ UNCHANGED <<topUpVars, funds, used, sliceVars, providerRefundVars, hand, ptWon, mishaps>>

\* PendingPrepaidRefunds
ListPending(w) ==
    /\ TopUpIdle(w)
    /\ ptPlan' = [ptPlan EXCEPT ![w] = [s \in {x \in Slices : slice[x] = "pending"} |-> ptBound[s]]]
    /\ ptPlan'[w] # NoPlan
    /\ UNCHANGED <<topUpVars, funds, used, sliceVars, providerRefundVars, hand, ptWon, mishaps>>

-----------------------------------------------------------------------------
(* One slice after the other.                                                *)

Statuses == {"pending", "succeeded", "failed"}
Abandon(a) ==
    /\ ptPlan' = [ptPlan EXCEPT ![a] = NoPlan]
    /\ hand' = [hand EXCEPT ![a] = Empty]
    /\ ptWon' = [ptWon EXCEPT ![a] = NoPlan]
SliceWithout(f, s) == [x \in DOMAIN f \ {s} |-> f[x]]
\* An error ends an operator's request; the sweep goes on with the next slice.
GiveUpSlice(a) ==
    IF a \in Operators THEN Abandon(a)
    ELSE hand' = [hand EXCEPT ![a] = Empty] /\ UNCHANGED <<ptPlan, ptWon>>

\* The provider's side of resolveStripePrepaidRefund: a new refund, the one
\* the idempotency key stands for, or the one that is retrieved by its id.
\* A refund may fail only after it was accepted.
TopUpAnswers(s, seen, id, status) ==
    IF seen # 0
    THEN id = seen /\ status = made[s][id] /\ UNCHANGED providerRefundVars
    ELSE IF s \in ptKeyed
    THEN id = Len(made[s]) /\ status \in {"pending", made[s][id]} /\ UNCHANGED providerRefundVars
    ELSE /\ id = Len(made[s]) + 1 /\ status # "failed"
         /\ made' = [made EXCEPT ![s] = Append(@, status)]
         /\ ptKeyed' = ptKeyed \cup {s}
         /\ UNCHANGED forgot

ResolveTopUp(a) ==
    \E s \in DOMAIN ptPlan[a], id \in 1..(MaxMishaps + 1), status \in Statuses :
        /\ hand[a] = Empty
        /\ TopUpAnswers(s, ptPlan[a][s], id, status)
        /\ ptPlan' = [ptPlan EXCEPT ![a] = SliceWithout(@, s)]
        /\ hand' = [hand EXCEPT ![a] =
                      [slice |-> s, id |-> id, status |-> status, bound |-> FALSE]]
        /\ UNCHANGED <<topUpVars, funds, used, sliceVars, ptWon, mishaps>>

\* The answer is lost on the way.
ResolveLost(a) ==
    \E s \in DOMAIN ptPlan[a], id \in 1..(MaxMishaps + 1), status \in Statuses :
        /\ hand[a] = Empty /\ Mishap
        /\ TopUpAnswers(s, ptPlan[a][s], id, status)
        /\ IF a \in Operators THEN Abandon(a)
           ELSE ptPlan' = [ptPlan EXCEPT ![a] = SliceWithout(@, s)] /\ UNCHANGED <<hand, ptWon>>
        /\ UNCHANGED <<topUpVars, funds, used, sliceVars>>

\* RecordPrepaidRefundProviderID
TopUpBindable(s, id) == slice[s] = "pending" /\ ptBound[s] \in {0, id}
RecordProviderID(a) ==
    LET s == hand[a].slice
        id == hand[a].id
    IN  /\ s # NoSlice /\ ~hand[a].bound
        /\ IF TopUpBindable(s, id)
           THEN /\ ptBound' = [ptBound EXCEPT ![s] = id]
                /\ hand' = [hand EXCEPT ![a].bound = TRUE] /\ UNCHANGED <<ptPlan, ptWon>>
           ELSE /\ IF slice[s] = "succeeded" /\ ptBound[s] = id
                   THEN hand' = [hand EXCEPT ![a].bound = TRUE] /\ UNCHANGED <<ptPlan, ptWon>>
                   ELSE GiveUpSlice(a)
                /\ UNCHANGED ptBound
        /\ UNCHANGED <<topUpVars, funds, used, cents, slice, providerRefundVars, mishaps>>

\* FailPrepaidRefund: the debit is taken back once.
Compensate(s) ==
    IF slice[s] = "pending"
    THEN /\ slice' = [slice EXCEPT ![s] = "failed"]
         /\ funds' = funds + cents[s] * MicrosPerCent
    ELSE UNCHANGED <<slice, funds>>

FailPrepaidRefund(a) ==
    LET s == hand[a].slice
    IN  /\ hand[a].bound /\ hand[a].status = "failed"
        /\ IF slice[s] # "succeeded" /\ ptBound[s] = hand[a].id THEN Compensate(s)
           ELSE UNCHANGED <<slice, funds>>
        /\ GiveUpSlice(a)
        /\ UNCHANGED <<topUpVars, used, cents, ptBound, providerRefundVars, mishaps>>

StillPending(a) ==
    /\ hand[a].bound /\ hand[a].status = "pending"
    /\ GiveUpSlice(a)
    /\ UNCHANGED <<topUpVars, funds, used, sliceVars, providerRefundVars, mishaps>>

\* CompletePrepaidRefund for one slice.
CompleteTopUp(s, id) ==
    IF TopUpBindable(s, id)
    THEN slice' = [slice EXCEPT ![s] = "succeeded"] /\ ptBound' = [ptBound EXCEPT ![s] = id]
    ELSE UNCHANGED <<slice, ptBound>>
Conflicts(s, id) == ~TopUpBindable(s, id) /\ ~(slice[s] = "succeeded" /\ ptBound[s] = id)

\* The sweep completes a slice at once, an operator's request at its end.
Succeeded(a) ==
    LET s == hand[a].slice
    IN  /\ hand[a].bound /\ hand[a].status = "succeeded"
        /\ hand' = [hand EXCEPT ![a] = Empty]
        /\ IF a \in Operators
           THEN ptWon' = [ptWon EXCEPT ![a] = [x \in DOMAIN @ \cup {s} |->
                                              IF x = s THEN hand[a].id ELSE @[x]]]
                /\ UNCHANGED <<slice, ptBound>>
           ELSE CompleteTopUp(s, hand[a].id) /\ UNCHANGED ptWon
        /\ UNCHANGED <<topUpVars, funds, used, cents, providerRefundVars, ptPlan, mishaps>>

CompleteWon(a) ==
    \E s \in DOMAIN ptWon[a] :
        /\ ptPlan[a] = NoPlan /\ hand[a] = Empty
        /\ CompleteTopUp(s, ptWon[a][s])
        /\ IF Conflicts(s, ptWon[a][s]) THEN Abandon(a)
           ELSE ptWon' = [ptWon EXCEPT ![a] = SliceWithout(@, s)] /\ UNCHANGED <<ptPlan, hand>>
        /\ UNCHANGED <<topUpVars, funds, used, cents, providerRefundVars, mishaps>>

SweepDies(a) ==
    /\ ~TopUpIdle(a) /\ Mishap
    /\ Abandon(a)
    /\ UNCHANGED <<topUpVars, funds, used, sliceVars, providerRefundVars>>

\* The provider decides a refund that is pending.
SettleRefund(s) ==
    \E i \in 1..Len(made[s]), status \in {"succeeded", "failed"} :
        /\ made[s][i] = "pending"
        /\ made' = [made EXCEPT ![s][i] = status]
        /\ UNCHANGED <<topUpVars, funds, used, sliceVars, ptKeyed, forgot, actorVars, mishaps>>

\* It forgets an idempotency key after a day, longer than a request lasts.
ForgetRefundKey(s) ==
    /\ s \in ptKeyed /\ Mishap
    /\ \A a \in Actors : s \notin DOMAIN ptPlan[a] /\ hand[a].slice # s
    /\ ptKeyed' = ptKeyed \ {s}
    /\ forgot' = forgot \cup {s}
    /\ UNCHANGED <<topUpVars, funds, used, sliceVars, made, actorVars>>

WorkOn(a) ==
    \/ ResolveTopUp(a) \/ RecordProviderID(a) \/ FailPrepaidRefund(a)
    \/ StillPending(a) \/ Succeeded(a) \/ CompleteWon(a)

PrepaidNext ==
    \/ \E t \in TopUps :
         \/ BeginPrepaidTopup(t) \/ ChargeTopup(t) \/ DeclineTopup(t)
         \/ CreditByRequest(t) \/ CreditByEvent(t)
    \/ Use
    \/ \E a \in Operators, r \in Refs : BeginPrepaidRefund(a, r) \/ ReplayPrepaidRefund(a, r)
    \/ \E w \in Recoverers : ListPending(w)
    \/ \E a \in Actors : WorkOn(a) \/ ResolveLost(a) \/ SweepDies(a)
    \/ \E s \in Slices : SettleRefund(s) \/ ForgetRefundKey(s)

\* The provider repeats an event until it is handled and decides every refund;
\* the sweep runs again and again and goes on with what it has read.
PrepaidFairness ==
    /\ \A t \in TopUps : WF_prepaidVars(CreditByEvent(t))
    /\ \A w \in Recoverers : WF_prepaidVars(ListPending(w)) /\ WF_prepaidVars(WorkOn(w))
    /\ \A s \in Slices : WF_prepaidVars(SettleRefund(s))

PrepaidSpec == PrepaidInit /\ [][PrepaidNext]_prepaidVars /\ PrepaidFairness

-----------------------------------------------------------------------------
(* Properties.                                                               *)

\* The balance is what was credited, less what was used and what refunds that
\* are under way or done took: each top-up counts once however often it is
\* reported, and a refund that failed is returned once (store_prepaid.go).
FundsAccounted ==
    /\ funds = MicrosPerCent * AmountCents * Len(credits) - used
                 - MicrosPerCent * SumFunctionOnSet(cents, {s \in Slices : Counts(s)})
    /\ funds >= 0

\* No top-up is refunded beyond its amount, counting refunds under way.
TracedToTopUps == \A t \in TopUps : Refundable(t) >= 0

\* While the provider remembers the key of a slice it makes one refund for it,
\* whatever is lost or raced, and what the row says is what happened to it.
RowsMatchProvider ==
    \A s \in Slices :
        /\ Len(made[s]) > 1 => s \in forgot
        /\ slice[s] = "succeeded" => made[s][ptBound[s]] = "succeeded"
        /\ slice[s] = "failed" => made[s][ptBound[s]] = "failed"

\* Balance, top-ups, refund slices and the provider agree, whatever answer was lost and
\* whichever of webhook, operator and sweep came first.
TopUpsReconcile == FundsAccounted /\ TracedToTopUps /\ RowsMatchProvider

\* Every slice is decided in the end, by the sweep if not by the operator.
SlicesDecided == \A s \in Slices : []<>(slice[s] # "pending")
=============================================================================
