--------------------------- MODULE ProviderEvents ---------------------------
(***************************************************************************)
(* The payment provider's side of an account: the object the provider      *)
(* holds for a party (a Customer for a buyer, a connected account for a    *)
(* supplier), the one binding of it in the database, and the signed events *)
(* the provider sends about it, which arrive late, twice and in any order. *)
(*                                                                         *)
(* A fact event (saved card, payouts enabled) is applied only when its     *)
(* (created, id) is newer than the last applied one; every other event is  *)
(* recorded only.  The live-payment activation opens a value window and a  *)
(* longer recovery window: new objects and sessions need the first, events *)
(* are accepted through the second.                                        *)
(*                                                                         *)
(* The second part is the inbox of early-fraud warnings, whose checks and  *)
(* insert are one SQL statement: the statement reads the snapshot it took  *)
(* when it started, before it waited for its advisory locks.               *)
(***************************************************************************)
EXTENDS Naturals, FiniteSets

CONSTANTS
    Buyers, PeSuppliers,    \* the parties
    Askers,                 \* requests for a card setup or an onboarding link
    MaxObjects,             \* bound on provider objects created
    MaxEvents,              \* bound on events sent
    Stamps,                 \* the seconds events are created in
    RiskEvents,             \* warnings: [id, warning, charge, pi]
    RiskHandlers,           \* concurrent deliveries of warnings
    NoPI                    \* a warning without its PaymentIntent

VARIABLES
    peBound,    \* party -> the object bound to it in the database, 0 for none
    peIssued,   \* party -> the object its idempotency key still answers with
    peObjects,  \* objects created at the provider so far
    peAsk,      \* asker -> its request
    peSessions, \* objects a session (setup intent, onboarding link) exists for
    peWindow,   \* the payment activation: active, recovery, expired
    peSent,     \* events the provider has created
    peAcked,    \* events answered with 200, which the provider stops sending
    peStored,   \* events in the database
    peFact,     \* party -> the last applied fact
    peErased,   \* buyers whose account was deleted
    peRisk,     \* rows of stripe_risk_events
    peStmt,     \* handler -> its statement, with the snapshot it reads
    peCash,     \* charge -> the PaymentIntent its cash collection names
    peTill      \* charge -> the statement recording its cash, with its snapshot

inboxVars == <<peBound, peIssued, peObjects, peAsk, peSessions, peWindow, peSent,
               peAcked, peStored, peFact, peErased>>
riskVars == <<peRisk, peStmt, peCash, peTill>>
peVars == <<inboxVars, riskVars>>

Parties == Buyers \cup PeSuppliers
NoAsk == [step |-> "idle", who |-> 0, obj |-> 0]
NoFact == [created |-> 0, id |-> 0, value |-> FALSE]
Charges == {e.charge : e \in RiskEvents}
NoStmt == [open |-> FALSE]

PEInit ==
    /\ peBound = [p \in Parties |-> 0]
    /\ peIssued = [p \in Parties |-> 0]
    /\ peObjects = 0
    /\ peAsk = [a \in Askers |-> NoAsk]
    /\ peSessions = {}
    /\ peWindow = "active"
    /\ peSent = {} /\ peAcked = {} /\ peStored = {}
    /\ peFact = [p \in Parties |-> NoFact]
    /\ peErased = {}
    /\ peRisk = {}
    /\ peStmt = [h \in RiskHandlers |-> NoStmt]
    /\ peCash = [c \in Charges |-> NoPI]
    /\ peTill = [c \in Charges |-> NoStmt]

(***************************************************************************)
(* authorizePaymentOperation: setup needs the value window, a webhook is   *)
(* still accepted in the recovery window.                                  *)
(***************************************************************************)
Authorized(operation) ==
    \/ peWindow = "active"
    \/ peWindow = "recovery" /\ operation \in {"read", "webhook", "refund", "reversal"}

WindowEnds ==
    /\ peWindow # "expired"
    /\ peWindow' = IF peWindow = "active" THEN "recovery" ELSE "expired"
    /\ UNCHANGED <<peBound, peIssued, peObjects, peAsk, peSessions, peSent, peAcked,
                   peStored, peFact, peErased, riskVars>>

(***************************************************************************)
(* ensureStripeCustomer and ensureConnectAccount, then the setup intent or *)
(* the onboarding link: read the binding; without one create the object    *)
(* under the party's idempotency key; bind it unless another is bound.  A   *)
(* deleted buyer can make no request, but one under way goes on.           *)
(***************************************************************************)
Ask(a, p) ==
    /\ peAsk[a].step = "idle" /\ p \notin peErased
    /\ peAsk' = [peAsk EXCEPT ![a] =
                    [step |-> IF peBound[p] # 0 THEN "session" ELSE "create",
                     who |-> p, obj |-> peBound[p]]]
    /\ UNCHANGED <<peBound, peIssued, peObjects, peSessions, peWindow, peSent, peAcked,
                   peStored, peFact, peErased, riskVars>>

CreateObject(a) ==
    LET p == peAsk[a].who
        obj == IF peIssued[p] # 0 THEN peIssued[p] ELSE peObjects + 1
    IN  /\ peAsk[a].step = "create"
        /\ Authorized("setup")
        /\ obj <= MaxObjects
        /\ peObjects' = IF peIssued[p] # 0 THEN peObjects ELSE obj
        /\ peIssued' = [peIssued EXCEPT ![p] = obj]
        /\ peAsk' = [peAsk EXCEPT ![a].step = "bind", ![a].obj = obj]
        /\ UNCHANGED <<peBound, peSessions, peWindow, peSent, peAcked, peStored, peFact,
                       peErased, riskVars>>

\* The provider forgets an idempotency key after a day.
KeyLapses(p) ==
    /\ peIssued[p] # 0
    /\ peIssued' = [peIssued EXCEPT ![p] = 0]
    /\ UNCHANGED <<peBound, peObjects, peAsk, peSessions, peWindow, peSent, peAcked,
                   peStored, peFact, peErased, riskVars>>

\* UPDATE ... WHERE stripe_acct IS NULL OR stripe_acct = $2; INSERT ... ON
\* CONFLICT DO NOTHING followed by the identity check.
EventBindable(p, obj) == peBound[p] \in {0, obj}

\* SetSupplierStripeAcct, UpsertBillingCustomer.
BindObject(a) ==
    LET p == peAsk[a].who
        obj == peAsk[a].obj
    IN  /\ peAsk[a].step = "bind"
        /\ IF EventBindable(p, obj)
              THEN /\ peBound' = [peBound EXCEPT ![p] = obj]
                   /\ peAsk' = [peAsk EXCEPT ![a].step = "session"]
              ELSE /\ UNCHANGED peBound
                   /\ peAsk' = [peAsk EXCEPT ![a] = NoAsk]
        /\ UNCHANGED <<peIssued, peObjects, peSessions, peWindow, peSent, peAcked,
                       peStored, peFact, peErased, riskVars>>

OpenSession(a) ==
    /\ peAsk[a].step = "session"
    /\ Authorized("setup")
    /\ peSessions' = peSessions \cup {[who |-> peAsk[a].who, obj |-> peAsk[a].obj]}
    /\ peAsk' = [peAsk EXCEPT ![a] = NoAsk]
    /\ UNCHANGED <<peBound, peIssued, peObjects, peWindow, peSent, peAcked, peStored,
                   peFact, peErased, riskVars>>

\* The request fails: refused by the window, by the provider, or lost.
AskFails(a) ==
    /\ peAsk[a].step # "idle"
    /\ peAsk' = [peAsk EXCEPT ![a] = NoAsk]
    /\ UNCHANGED <<peBound, peIssued, peObjects, peSessions, peWindow, peSent, peAcked,
                   peStored, peFact, peErased, riskVars>>

\* What parseStripeConnectEvent and the saved-card references keep of a
\* payload: whose object it is about, its order, and the fact it carries, if
\* it is account.updated or a saved card.
Parsed(id, s, fact, created, value) ==
    [id |-> id, who |-> s.who, obj |-> s.obj, fact |-> fact, created |-> created,
     value |-> value]

(***************************************************************************)
(* The provider creates an event about an object a session exists for.    *)
(* Two events may share a second; ids are unordered in time.               *)
(***************************************************************************)
Emit(s, fact, created, value) ==
    LET id == Cardinality(peSent) + 1
    IN  /\ s \in peSessions
        /\ id <= MaxEvents
        /\ peSent' = peSent \cup {Parsed(id, s, fact, created, value)}
        /\ UNCHANGED <<peBound, peIssued, peObjects, peAsk, peSessions, peWindow, peAcked,
                       peStored, peFact, peErased, riskVars>>

\* Mutant: the order compares the second only, the later delivery wins a tie.
Newer_LaterWins(e, f) == e.created >= f.created
\* (created, id) of the event against that of the last applied fact.
Newer(e, f) ==
    \/ e.created > f.created
    \/ e.created = f.created /\ e.id > f.id

Applied(e) == [created |-> e.created, id |-> e.id, value |-> e.value]

Known(e) == peBound[e.who] = e.obj

\* handleStripeWebhook answers 200 for a customer it does not know;
\* handleConnectWebhook answers 400 for an account it does not know.
Acknowledged(e) == Known(e) \/ e.who \in Buyers

(***************************************************************************)
(* One statement of ApplyConnectWebhookEvent or                            *)
(* SetBillingPMByCustomerEvent: insert the event once, and apply a newer   *)
(* fact to the locked row.  A second delivery finds its row and changes    *)
(* nothing; a refused event is sent again.                                 *)
(***************************************************************************)
Deliver(e) ==
    /\ e \in peSent
    /\ Authorized("webhook")
    /\ Acknowledged(e)
    /\ peAcked' = peAcked \cup {e.id}
    /\ peStored' = IF Known(e) THEN peStored \cup {e.id} ELSE peStored
    /\ peFact' = IF Known(e) /\ e.id \notin peStored /\ e.fact /\ Newer(e, peFact[e.who])
                    THEN [peFact EXCEPT ![e.who] = Applied(e)]
                    ELSE peFact
    /\ UNCHANGED <<peBound, peIssued, peObjects, peAsk, peSessions, peWindow, peSent,
                   peErased, riskVars>>

(***************************************************************************)
(* enforceBuyerTombstone: the buyer's customer row goes, with the card it  *)
(* names and the order of the event that set it; recorded events stay.     *)
(***************************************************************************)
DropCustomer(p) ==
    /\ p \in Buyers
    /\ peErased' = peErased \cup {p}
    /\ peBound' = [peBound EXCEPT ![p] = 0]
    /\ peFact' = [peFact EXCEPT ![p] = NoFact]
    /\ UNCHANGED <<peIssued, peObjects, peAsk, peSessions, peWindow, peSent, peAcked,
                   peStored, riskVars>>

\* What happens for one party.
InboxOf(p) ==
    \/ WindowEnds
    \/ KeyLapses(p)
    \/ DropCustomer(p)
    \/ \E a \in Askers : \/ Ask(a, p) \/ CreateObject(a) \/ BindObject(a)
                         \/ OpenSession(a) \/ AskFails(a)
    \/ \E s \in peSessions, f \in BOOLEAN, c \in Stamps, v \in BOOLEAN : Emit(s, f, c, v)
    \/ \E e \in peSent : Deliver(e)

InboxNext == \E p \in Parties : InboxOf(p)

(***************************************************************************)
(* ApplyStripeRiskEvent.  The statement takes its snapshot (the rows and   *)
(* the cash bindings committed by then), waits for the charge's and the    *)
(* warning's advisory locks, checks the snapshot and inserts.  ON CONFLICT *)
(* sees every committed row, the checks do not.                            *)
(***************************************************************************)
RiskBegins(h, e) ==
    /\ ~peStmt[h].open
    /\ peStmt' = [peStmt EXCEPT ![h] =
                     [open |-> TRUE, ev |-> e, rows |-> peRisk, cash |-> peCash[e.charge]]]
    /\ UNCHANGED <<peRisk, peCash, peTill, inboxVars>>

ChargeConflict(e, rows) ==
    \E r \in rows : r.ev.warning = e.warning /\ r.ev.charge # e.charge

PaymentIntentConflict(e, rows) ==
    e.pi # NoPI /\ \E r \in rows : r.ev.warning = e.warning /\ r.ev.pi \notin {NoPI, e.pi}

CashConflict(e, cash) == e.pi # NoPI /\ cash \notin {NoPI, e.pi}

Repeated(e) == \E r \in peRisk : r.ev.id = e.id

RiskEnds(h) ==
    LET s == peStmt[h]
        refused == \/ ChargeConflict(s.ev, s.rows)
                   \/ PaymentIntentConflict(s.ev, s.rows)
                   \/ CashConflict(s.ev, s.cash)
    IN  /\ s.open
        /\ peRisk' = IF refused \/ Repeated(s.ev) THEN peRisk
                     ELSE peRisk \cup {[ev |-> s.ev, saw |-> {r.ev : r \in s.rows}]}
        /\ peStmt' = [peStmt EXCEPT ![h] = NoStmt]
        /\ UNCHANGED <<peCash, peTill, inboxVars>>

(***************************************************************************)
(* recordBuyerCashCollection: again one statement that takes its snapshot, *)
(* waits for the charge's lock, and records the charge's cash unless a     *)
(* warning it can see names another PaymentIntent.  A charge has one row.  *)
(***************************************************************************)
CashBegins(c, pi) ==
    /\ ~peTill[c].open
    /\ peTill' = [peTill EXCEPT ![c] = [open |-> TRUE, pi |-> pi, rows |-> peRisk]]
    /\ UNCHANGED <<peRisk, peStmt, peCash, inboxVars>>

BindingConflict(c, pi, rows) == \E r \in rows : r.ev.charge = c /\ r.ev.pi \notin {NoPI, pi}

CashEnds(c) ==
    LET s == peTill[c]
    IN  /\ s.open
        /\ peCash' = IF BindingConflict(c, s.pi, s.rows) \/ peCash[c] # NoPI THEN peCash
                     ELSE [peCash EXCEPT ![c] = s.pi]
        /\ peTill' = [peTill EXCEPT ![c] = NoStmt]
        /\ UNCHANGED <<peRisk, peStmt, inboxVars>>

RiskNext ==
    \/ \E h \in RiskHandlers : RiskEnds(h) \/ \E e \in RiskEvents : RiskBegins(h, e)
    \/ \E c \in Charges : CashEnds(c) \/ \E pi \in {e.pi : e \in RiskEvents} \ {NoPI} : CashBegins(c, pi)

PENext == InboxNext \/ RiskNext

(***************************************************************************)
(* The provider sends an unacknowledged event again and again.             *)
(***************************************************************************)
PEFairness == \A i \in 1 .. MaxEvents :
    WF_peVars(\E e \in peSent : e.id = i /\ e.id \notin peAcked /\ Deliver(e))

PESpec == PEInit /\ [][PENext]_peVars /\ PEFairness

-----------------------------------------------------------------------------
(***************************************************************************)
(* Properties                                                              *)
(***************************************************************************)

\* The applied fact is the newest recorded one, in whatever order and how
\* often the events arrived: the charge uses the latest saved card, the
\* supplier's status shows the latest payouts flag.  A deleted account has no
\* card to keep current.
FactIsNewest ==
    \A p \in Parties \ peErased :
        LET facts == {e \in peSent : e.who = p /\ e.fact /\ e.id \in peStored}
        IN  IF facts = {} THEN peFact[p] = NoFact
            ELSE \E e \in facts : /\ peFact[p] = Applied(e)
                                  /\ \A d \in facts \ {e} :
                                        \/ d.created < e.created
                                        \/ d.created = e.created /\ d.id < e.id

\* An acknowledged event is in the database, for the provider never sends it
\* again: acknowledging an unknown customer drops only events of a deleted
\* buyer's customer, and of objects no session of ours was ever opened for.
AcknowledgedIsRecorded ==
    \A e \in peSent : e.id \in peAcked => e.id \in peStored \/ e.who \in peErased

\* A warning row never contradicts a row its statement saw: same charge, and
\* the same PaymentIntent once both name one; and no event id has two rows.
\* Of two deliveries at once the later may have taken its snapshot before the
\* earlier committed, and then both stand whatever they name: the advisory lock
\* is taken inside the statement and does not renew its snapshot.
SeenIdentityHolds ==
    /\ \A r \in peRisk : \A e \in r.saw :
          e.warning = r.ev.warning =>
              /\ e.charge = r.ev.charge
              /\ e.pi = r.ev.pi \/ NoPI \in {e.pi, r.ev.pi}
    /\ \A r, q \in peRisk : r.ev.id = q.ev.id => r = q

\* Every event the provider created is recorded while events are accepted and
\* the account exists.
EventsLand ==
    \A i \in 1 .. MaxEvents :
        []<>(\A e \in peSent : e.id = i => \/ i \in peStored
                                          \/ peWindow = "expired" \/ e.who \in peErased)

-----------------------------------------------------------------------------
(***************************************************************************)
(* The notification of a buyer that a job ended: registration (store.go     *)
(* InsertWebhook), the leased claim, the POST, and the recording of its     *)
(* outcome (workers.go deliverPendingWebhooks), with the operator's pause,  *)
(* a sealing key that is rotated, deliverers that crash or stall past their *)
(* lease, and an endpoint that answers anything.                            *)
(*                                                                         *)
(* A deliverer is one delivery goroutine; the token of a lease is the name   *)
(* of the deliverer, which holds one lease at a time.                       *)
(***************************************************************************)
CONSTANTS Hooks,          \* registered URLs of one job
          Deliverers,
          HookLimit,      \* webhookRegistrationLimitPerJob
          MaxAttempts,    \* webhookDeliveryMaxAttempts
          MaxStalls,      \* leases that lapse under a live deliverer
          MaxDeliveryCrashes,
          MaxRotations    \* sealed secrets that become unreadable

NotSent == "none"

VARIABLES whJob,         \* "running" or "ended": the status is final once ended
          whRow,         \* hook -> row of webhooks
          whRun,         \* deliverer -> the delivery it is making
          whPaused, whStalls, whCrashes, whRotations
whVars == <<whJob, whRow, whRun, whPaused, whStalls, whCrashes, whRotations>>

NoHook == [state |-> "none", attempts |-> 0, due |-> TRUE, token |-> NotSent,
           lapsed |-> FALSE, secret |-> "readable"]
NoDelivery == [hook |-> NotSent, outcome |-> NotSent, secret |-> "readable"]

WHInit ==
  /\ whJob = "running"
  /\ whRow = [h \in Hooks |-> NoHook]
  /\ whRun = [d \in Deliverers |-> NoDelivery]
  /\ whPaused = FALSE /\ whStalls = 0 /\ whCrashes = 0 /\ whRotations = 0

Registered == {h \in Hooks : whRow[h].state # "none"}

\* InsertWebhook: a known URL keeps its row; only an unreadable secret is
\* replaced, and then the delivery starts over.
Reseal(row) == [row EXCEPT !.secret = "readable", !.attempts = 0, !.due = TRUE, !.token = NotSent,
                           !.lapsed = FALSE,
                           !.state = IF @ = "dead" THEN "pending" ELSE @]
InsertWebhook(h) ==
  /\ \/ /\ whRow[h].state = "none" /\ Cardinality(Registered) < HookLimit
        /\ whRow' = [whRow EXCEPT ![h] = [NoHook EXCEPT !.state = "pending"]]
     \/ /\ whRow[h].state # "none" /\ whRow[h].secret = "unreadable"
        /\ whRow' = [whRow EXCEPT ![h] = Reseal(@)]
  /\ UNCHANGED <<whJob, whRun, whPaused, whStalls, whCrashes, whRotations>>

\* The sealing key changed: openWebhookSigningSecret fails on rows sealed before.
RotateSealingKey ==
  /\ whRotations < MaxRotations /\ Registered # {}
  /\ whRotations' = whRotations + 1
  /\ whRow' = [h \in Hooks |-> IF h \in Registered THEN [whRow[h] EXCEPT !.secret = "unreadable"]
                               ELSE whRow[h]]
  /\ UNCHANGED <<whJob, whRun, whPaused, whStalls, whCrashes>>

JobTerminal ==
  /\ whJob = "running" /\ whJob' = "ended"
  /\ UNCHANGED <<whRow, whRun, whPaused, whStalls, whCrashes, whRotations>>

\* next_attempt_at passes.
BackoffPasses(h) ==
  /\ ~ whRow[h].due
  /\ whRow' = [whRow EXCEPT ![h].due = TRUE]
  /\ UNCHANGED <<whJob, whRun, whPaused, whStalls, whCrashes, whRotations>>

\* lease_expires_at passes: the lease outlasts a batch, so the holder is gone,
\* or stalled.
HeldBy(h, d) == whRow[h].token = d /\ whRun[d].hook = h
WebhookLeaseLapses(h) ==
  /\ whRow[h].token # NotSent /\ ~ whRow[h].lapsed
  /\ \/ /\ ~ \E d \in Deliverers : HeldBy(h, d)
        /\ UNCHANGED whStalls
     \/ /\ whStalls < MaxStalls /\ whStalls' = whStalls + 1
  /\ whRow' = [whRow EXCEPT ![h].lapsed = TRUE]
  /\ UNCHANGED <<whJob, whRun, whPaused, whCrashes, whRotations>>

\* OperationalControlPaused(webhooks), read at the start of a pass.
SetPaused(p) ==
  /\ whPaused # p /\ whPaused' = p
  /\ UNCHANGED <<whJob, whRow, whRun, whStalls, whCrashes, whRotations>>

\* ClaimPendingWebhooks.
HookClaimable(h) ==
  /\ whRow[h].state = "pending" /\ whRow[h].due /\ whJob = "ended"
  /\ whRow[h].token = NotSent \/ whRow[h].lapsed

ClaimWebhook(d, h) ==
  /\ ~ whPaused /\ whRun[d] = NoDelivery /\ HookClaimable(h)
  /\ whRow' = [whRow EXCEPT ![h].token = d, ![h].lapsed = FALSE]
  /\ whRun' = [whRun EXCEPT ![d] = [hook |-> h, outcome |-> NotSent, secret |-> whRow[h].secret]]
  /\ UNCHANGED <<whJob, whPaused, whStalls, whCrashes, whRotations>>

\* deliverWebhook: what the POST comes to.
Outcomes(d) == IF whRun[d].secret = "unreadable" THEN {"permanent"}
               ELSE {"ok", "retry", "permanent"}

Post(d, o) ==
  /\ whRun[d].hook # NotSent /\ whRun[d].outcome = NotSent /\ o \in Outcomes(d)
  /\ whRun' = [whRun EXCEPT ![d].outcome = o]
  /\ UNCHANGED <<whJob, whRow, whPaused, whStalls, whCrashes, whRotations>>

\* MarkWebhookFailed.
IsDead(row, o) == o = "permanent" \/ row.attempts + 1 >= MaxAttempts
HookFailed(row, o) ==
  [row EXCEPT !.attempts = @ + 1, !.token = NotSent, !.lapsed = FALSE,
              !.state = IF IsDead(row, o) THEN "dead" ELSE "pending",
              !.due = IF IsDead(row, o) THEN @ ELSE FALSE]

\* Mutant: whoever delivers last records, token or not.
Recordable_AnyToken(d) == whRow[whRun[d].hook].state = "pending"
\* DeliverWebhookTx and MarkWebhookFailed: both only with the lease token.
Recordable(d) == LET row == whRow[whRun[d].hook] IN row.state = "pending" /\ row.token = d

RecordOutcome(d) ==
  LET h == whRun[d].hook  o == whRun[d].outcome  row == whRow[h]
  IN  /\ o # NotSent
      /\ whRow' = IF ~ Recordable(d) THEN whRow
                  ELSE IF o = "ok"
                       THEN [whRow EXCEPT ![h].state = "delivered", ![h].token = NotSent, ![h].lapsed = FALSE]
                       ELSE [whRow EXCEPT ![h] = HookFailed(row, o)]
      /\ whRun' = [whRun EXCEPT ![d] = NoDelivery]
      /\ UNCHANGED <<whJob, whPaused, whStalls, whCrashes, whRotations>>

DelivererCrashes(d) ==
  /\ whCrashes < MaxDeliveryCrashes /\ whRun[d] # NoDelivery
  /\ whCrashes' = whCrashes + 1
  /\ whRun' = [whRun EXCEPT ![d] = NoDelivery]
  /\ UNCHANGED <<whJob, whRow, whPaused, whStalls, whRotations>>

WHNext ==
  \/ JobTerminal \/ RotateSealingKey \/ \E p \in BOOLEAN : SetPaused(p)
  \/ \E h \in Hooks : InsertWebhook(h) \/ BackoffPasses(h) \/ WebhookLeaseLapses(h)
  \/ \E d \in Deliverers :
       \/ \E h \in Hooks : ClaimWebhook(d, h)
       \/ \E o \in {"ok", "retry", "permanent"} : Post(d, o)
       \/ RecordOutcome(d) \/ DelivererCrashes(d)

\* The delivery ticker runs, an HTTP request ends within its timeout, clocks
\* advance; the operator's pause is lifted in the end.
WHFairness ==
  /\ SF_whVars(\E d \in Deliverers, h \in Hooks : ClaimWebhook(d, h))
  /\ \A d \in Deliverers : WF_whVars(\E o \in Outcomes(d) : Post(d, o)) /\ WF_whVars(RecordOutcome(d))
  /\ \A h \in Hooks : WF_whVars(BackoffPasses(h)) /\ WF_whVars(WebhookLeaseLapses(h))
  /\ WF_whVars(SetPaused(FALSE))

WHSpec == WHInit /\ [][WHNext]_whVars /\ WHFairness

\* A delivered row stays delivered, and its dead letter is lifted by nothing but
\* a registration with a fresh secret (InsertWebhook never revives a delivery).
DeliveredIsFinal ==
  \A h \in Hooks : /\ whRow[h].state = "delivered" => whRow'[h].state = "delivered"
                   /\ whRow[h].state = "dead" /\ whRow'[h].state # "dead" =>
                        whRow[h].secret = "unreadable"

\* An attempt under way is not ended by the late outcome of the one it took over from: a
\* lease that is given up was ended by its own holder's outcome, or by a registration
\* that starts the delivery over.
OutcomeIsTheHolders ==
  \A h \in Hooks : whRow[h].token # NotSent /\ whRow'[h].token = NotSent =>
    \/ HeldBy(h, whRow[h].token) /\ whRun[whRow[h].token].outcome # NotSent
    \/ whRow[h].secret = "unreadable" /\ whRow'[h].secret = "readable"

\* However deliverers stall, crash and answer late, a notification is retried
\* fewer than MaxAttempts times and given up at the last of them.
AttemptsBounded ==
  \A h \in Hooks : /\ whRow[h].attempts <= MaxAttempts
                   /\ whRow[h].state = "pending" => whRow[h].attempts < MaxAttempts

\* Every registered hook of an ended job is delivered or dead-lettered in the end.
WebhooksEnd ==
  \A h \in Hooks : []<>(whJob = "ended" => whRow[h].state # "pending")
=============================================================================
