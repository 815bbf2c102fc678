-------------------------- MODULE WorkerCredentials --------------------------
(***************************************************************************)
(* Enrolment of worker devices (enrollment.go, store_workers.go): a buyer   *)
(* account issues short-lived enrolment codes bound to one device key, the  *)
(* device exchanges its code once for a device-bound credential, a later    *)
(* code may rotate a credential (possibly onto another device), and the     *)
(* account revokes a credential with everything rotated from it.            *)
(*                                                                          *)
(* The exchange and the revocation are transactions of several statements   *)
(* under READ COMMITTED.  Their advisory fingerprint locks and row locks    *)
(* are explicit, so the statements of one interleave with whole             *)
(* transactions of the others wherever the locks let them.  One account and *)
(* one supplier; key parsing, origins and proofs are one bit of the input   *)
(* (does the request match the code?).  The partial unique index on active  *)
(* fingerprints is not modelled: what is shown rests on the locks alone.    *)
(***************************************************************************)
EXTENDS Naturals, FiniteSets

CONSTANTS Devices,
          MaxFailed,          \* workerEnrollmentMaxFailedAttempts
          MaxCodes, MaxCreds  \* bounds on the rows ever inserted

Codes  == 1..MaxCodes         \* in the order they are inserted
Creds  == 1..MaxCreds
NoCode == 0
NoCred == 0

VARIABLES wcCode,         \* worker_enrollment_codes
          wcCred,         \* worker_tokens
          wcExchange,     \* the codes whose exchange transaction is open
          wcRevoke,       \* the account revocation whose transaction is open
          wcSupplier,     \* suppliers.status and quarantined_at
          wcRevoked       \* targets of finished revocations, with the
                          \* exchanges open when the UPDATE took its snapshot
wcVars == <<wcCode, wcCred, wcExchange, wcRevoke, wcSupplier, wcRevoked>>

EnrollIdle == [pc |-> "idle"]

NoCodeRow == [state |-> "none", dev |-> CHOOSE d \in Devices : TRUE, from |-> NoCred,
              fails |-> 0]
NoCredRow == [state |-> "none", dev |-> CHOOSE d \in Devices : TRUE, from |-> NoCred,
              code |-> NoCode, worker |-> NoCred]

CredentialLive(c)  == wcCred[c].state = "live"
Issued     == {c \in Creds : wcCred[c].state # "none"}
NewCode(k) == wcCode[k].state = "none" /\ \A x \in 1..(k - 1) : wcCode[x].state # "none"
NewCred(c) == wcCred[c].state = "none" /\ \A x \in 1..(c - 1) : wcCred[x].state # "none"
OpenCodes  == {k \in Codes : wcCode[k].state = "open"}

WCInit ==
  /\ wcCode = [k \in Codes |-> NoCodeRow]
  /\ wcCred = [c \in Creds |-> NoCredRow]
  /\ wcExchange = {}
  /\ wcRevoke = EnrollIdle
  /\ wcSupplier = [status |-> "pending", quarantined |-> FALSE]
  /\ wcRevoked = {}

(***************************************************************************)
(* Locks.                                                                   *)
(***************************************************************************)

\* lockEnrollmentFingerprintTx: the advisory locks open transactions
\* hold until they commit.
LockedDevices ==
  {wcCode[k].dev : k \in wcExchange} \cup (IF wcRevoke.pc = "idle" THEN {} ELSE wcRevoke.devs)

\* Rows a transaction has updated or selected FOR UPDATE.
LockedCodes ==
  wcExchange \cup (IF wcRevoke.pc = "idle" THEN {} ELSE wcRevoke.codes)

HeldSources == {wcCode[k].from : k \in wcExchange} \ {NoCred}
LockedCreds == HeldSources \cup (IF wcRevoke.pc = "update" THEN wcRevoke.chain ELSE {})

(***************************************************************************)
(* Issuing and cancelling codes.                                            *)
(***************************************************************************)

\* revokePendingEnrollmentCodesTx: open codes of the device or of the source.
PendingFor(d, src) ==
  {k \in OpenCodes : wcCode[k].dev = d \/ (src # NoCred /\ wcCode[k].from = src)}

DeviceTaken(d, src) == \E c \in Creds : CredentialLive(c) /\ wcCred[c].dev = d /\ c # src

\* CreateWorkerEnrollmentCode: the code supersedes the pending ones.
CreateWorkerEnrollmentCode(k, d, src) ==
  /\ NewCode(k)
  /\ d \notin LockedDevices
  /\ src # NoCred => CredentialLive(src) /\ src \notin LockedCreds
  /\ ~ DeviceTaken(d, src)
  /\ PendingFor(d, src) \cap LockedCodes = {}
  /\ wcCode' = [x \in Codes |->
       IF x = k THEN [state |-> "open", dev |-> d, from |-> src, fails |-> 0]
       ELSE IF x \in PendingFor(d, src) THEN [wcCode[x] EXCEPT !.state = "revoked"]
       ELSE wcCode[x]]
  /\ UNCHANGED <<wcCred, wcExchange, wcRevoke, wcSupplier, wcRevoked>>

\* RevokeWorkerEnrollmentCodeForBuyer.
RevokeWorkerEnrollmentCode(k) ==
  /\ wcCode[k].state = "open" /\ k \notin LockedCodes
  /\ wcCode' = [wcCode EXCEPT ![k].state = "revoked"]
  /\ UNCHANGED <<wcCred, wcExchange, wcRevoke, wcSupplier, wcRevoked>>

(***************************************************************************)
(* Exchanging a code: EnrollWorkerTx.                                       *)
(***************************************************************************)

\* What the request and the clock decide: it matches the code within
\* workerEnrollmentCodeTTL, it comes later, or it does not match.
Enrollments == {"good", "expired", "mismatch"}

\* The refusals: a code already used, revoked or expired, a request that does
\* not match the code, a rotation source or a device no longer available.
Refusal(k, request) ==
  IF wcCode[k].state = "consumed" THEN "replay"
  ELSE IF wcCode[k].state = "revoked" THEN "revoked"
  ELSE IF request # "good" THEN request
  ELSE IF wcCode[k].from # NoCred /\ ~ CredentialLive(wcCode[k].from) THEN "source"
  ELSE IF DeviceTaken(wcCode[k].dev, wcCode[k].from) THEN "device"
  ELSE "none"

CodeTerminal(reason) == reason # "mismatch"

\* EnrollWorkerTx up to its checks: the fingerprint lock, the code row FOR
\* UPDATE, the rotation source FOR UPDATE.
EnrollBegin(k) ==
  /\ wcCode[k].state # "none"
  /\ wcCode[k].dev \notin LockedDevices /\ k \notin LockedCodes
  /\ wcCode[k].from \notin LockedCreds
  /\ Refusal(k, "good") = "none"
  /\ wcExchange' = wcExchange \cup {k}
  /\ UNCHANGED <<wcCode, wcCred, wcRevoke, wcSupplier, wcRevoked>>

\* reject: counts the attempt, closes the code on a terminal reason or at the
\* limit; a closed code records its first refused attempt only.
EnrollReject(k, request) ==
  LET why == Refusal(k, request)
      shut == wcCode[k].state \in {"consumed", "revoked"}
      n    == IF wcCode[k].fails + 1 > MaxFailed THEN MaxFailed ELSE wcCode[k].fails + 1
  IN  /\ wcCode[k].state # "none"
      /\ wcCode[k].dev \notin LockedDevices /\ k \notin LockedCodes
      /\ why \in {"source", "device"} => wcCode[k].from \notin LockedCreds
      /\ why # "none"
      /\ ~ (shut /\ wcCode[k].fails >= 1)
      /\ wcCode' = [wcCode EXCEPT ![k].fails = n,
                                  ![k].state = IF ~ shut /\ (CodeTerminal(why) \/ n >= MaxFailed)
                                               THEN "revoked" ELSE @]
      /\ UNCHANGED <<wcCred, wcExchange, wcRevoke, wcSupplier, wcRevoked>>

\* The supplier's first credential activates it; a suspended one stays so.
Activated == IF wcSupplier.status = "pending" THEN [wcSupplier EXCEPT !.status = "active"]
             ELSE wcSupplier

\* EnrollWorkerTx from the checks to the commit, for the fresh credential c.
EnrollCommit(k, c) ==
  LET src == wcCode[k].from  gone == PendingFor(wcCode[k].dev, src) \ {k}
  IN  /\ k \in wcExchange /\ NewCred(c)
      /\ gone \cap LockedCodes = {}
      /\ wcCred' = [x \in Creds |->
           IF x = c THEN [state |-> "live", dev |-> wcCode[k].dev, from |-> src, code |-> k,
                          worker |-> IF src = NoCred THEN c ELSE wcCred[src].worker]
           ELSE IF x = src THEN [wcCred[x] EXCEPT !.state = "rotated"]
           ELSE wcCred[x]]
      /\ wcCode' = [x \in Codes |->
           IF x = k THEN [wcCode[x] EXCEPT !.state = "consumed"]
           ELSE IF x \in gone THEN [wcCode[x] EXCEPT !.state = "revoked"]
           ELSE wcCode[x]]
      /\ wcSupplier' = Activated
      /\ wcExchange' = wcExchange \ {k}
      /\ UNCHANGED <<wcRevoke, wcRevoked>>

(***************************************************************************)
(* RevokeWorkerCredentialForBuyer, statement by statement.                  *)
(***************************************************************************)

Children(S) == {c \in Issued : wcCred[c].from \in S}

\* The recursive chain CTE: c and all that was rotated from it.
Chain(c) ==
  LET grow[n \in 0..Cardinality(Creds)] ==
        IF n = 0 THEN {c} ELSE grow[n - 1] \cup Children(grow[n - 1])
  IN  grow[Cardinality(Creds)]

\* The fingerprint lock of the target and its pending codes.
RevokeStart(c) ==
  /\ wcRevoke.pc = "idle" /\ c \in Issued
  /\ ~ \E r \in wcRevoked : r.target = c
  /\ wcCred[c].dev \notin LockedDevices
  /\ PendingFor(wcCred[c].dev, c) \cap LockedCodes = {}
  /\ wcRevoke' = [pc |-> "started", target |-> c, devs |-> {wcCred[c].dev},
                  codes |-> PendingFor(wcCred[c].dev, c), chain |-> {}, late |-> {}]
  /\ UNCHANGED <<wcCode, wcCred, wcExchange, wcSupplier, wcRevoked>>

\* The first read of the chain.
RevokeReadChain ==
  /\ wcRevoke.pc = "started"
  /\ wcRevoke' = [wcRevoke EXCEPT !.pc = "read", !.chain = Chain(wcRevoke.target)]
  /\ UNCHANGED <<wcCode, wcCred, wcExchange, wcSupplier, wcRevoked>>

\* The fingerprint locks of the others in the chain and their pending codes.
RevokeLockChain ==
  LET devs == {wcCred[c].dev : c \in wcRevoke.chain} \ wcRevoke.devs
      more == UNION {PendingFor(wcCred[c].dev, c) : c \in wcRevoke.chain \ {wcRevoke.target}}
  IN  /\ wcRevoke.pc = "read"
      /\ \A k \in wcExchange : wcCode[k].dev \notin devs /\ k \notin more
      /\ wcRevoke' = [wcRevoke EXCEPT !.pc = "locked", !.devs = @ \cup devs,
                                      !.codes = @ \cup more]
      /\ UNCHANGED <<wcCode, wcCred, wcExchange, wcSupplier, wcRevoked>>

\* The UPDATE's snapshot: the chain is read again.
\* Mutant: the UPDATE uses the chain read before the locks.
ReReadChain_Stale == wcRevoke.chain
ReReadChain == Chain(wcRevoke.target)

RevokeUpdate ==
  /\ wcRevoke.pc = "locked"
  /\ wcRevoke' = [wcRevoke EXCEPT !.pc = "update", !.chain = ReReadChain,
                                  !.late = wcExchange]
  /\ UNCHANGED <<wcCode, wcCred, wcExchange, wcSupplier, wcRevoked>>

\* The UPDATE waits for the rows an exchange holds and skips those no longer
\* active; then the commit publishes it and the codes.
RevokeCommit ==
  /\ wcRevoke.pc = "update"
  /\ wcRevoke.chain \cap HeldSources = {}
  /\ wcCred' = [c \in Creds |-> IF c \in wcRevoke.chain /\ CredentialLive(c)
                                THEN [wcCred[c] EXCEPT !.state = "revoked"] ELSE wcCred[c]]
  /\ wcCode' = [k \in Codes |-> IF k \in wcRevoke.codes
                                THEN [wcCode[k] EXCEPT !.state = "revoked"] ELSE wcCode[k]]
  /\ wcRevoked' = wcRevoked \cup {[target |-> wcRevoke.target, late |-> wcRevoke.late]}
  /\ wcRevoke' = EnrollIdle
  /\ UNCHANGED <<wcExchange, wcSupplier>>

\* The connection is lost before the commit: nothing was written.
RevokeAborts ==
  /\ wcRevoke.pc # "idle"
  /\ wcRevoke' = EnrollIdle
  /\ UNCHANGED <<wcCode, wcCred, wcExchange, wcSupplier, wcRevoked>>

(***************************************************************************)
(* The supplier's standing: SuspendWorker, ReinstateWorker and              *)
(* QuarantineSupplier.                                                      *)
(***************************************************************************)

SuspendWorker ==
  /\ wcSupplier.status # "suspended"
  /\ wcSupplier' = [wcSupplier EXCEPT !.status = "suspended"]
  /\ UNCHANGED <<wcCode, wcCred, wcExchange, wcRevoke, wcRevoked>>

ReinstateWorker ==
  /\ wcSupplier.status = "suspended"
  /\ wcSupplier' = [status |-> "active", quarantined |-> FALSE]
  /\ UNCHANGED <<wcCode, wcCred, wcExchange, wcRevoke, wcRevoked>>

QuarantineSupplier ==
  /\ ~ wcSupplier.quarantined
  /\ wcSupplier' = [status |-> "suspended", quarantined |-> TRUE]
  /\ UNCHANGED <<wcCode, wcCred, wcExchange, wcRevoke, wcRevoked>>

WCNext ==
  \/ \E k \in Codes :
       \/ \E d \in Devices, src \in Creds \cup {NoCred} : CreateWorkerEnrollmentCode(k, d, src)
       \/ RevokeWorkerEnrollmentCode(k)
       \/ EnrollBegin(k)
       \/ \E request \in Enrollments : EnrollReject(k, request)
       \/ \E c \in Creds : EnrollCommit(k, c)
  \/ \E c \in Creds : RevokeStart(c)
  \/ RevokeReadChain \/ RevokeLockChain \/ RevokeUpdate \/ RevokeCommit \/ RevokeAborts
  \/ SuspendWorker \/ ReinstateWorker \/ QuarantineSupplier

WCSpec == WCInit /\ [][WCNext]_wcVars

(***************************************************************************)
(* Properties.                                                              *)
(***************************************************************************)

\* A device holds at most one active credential: the exchange checks under
\* the fingerprint lock (EnrollWorkerTx), with rotations between devices and
\* two codes racing for one device.
OneCredentialPerDevice ==
  \A c, e \in Creds : CredentialLive(c) /\ CredentialLive(e) /\ wcCred[c].dev = wcCred[e].dev => c = e

\* Rotation replaces: a worker never has two active credentials, even when two
\* codes rotate the same source onto two devices.
OneCredentialPerWorker ==
  \A c, e \in Creds : CredentialLive(c) /\ CredentialLive(e) /\ wcCred[c].worker = wcCred[e].worker => c = e

\* Once RevokeWorkerCredentialForBuyer has committed, nothing rotated from its
\* target is active or can become active, except by an exchange that already
\* held the rotation source when the UPDATE took its snapshot: that exchange
\* used a code issued while the revocation ran, and its credential survives.
RevocationReachesTheChain ==
  \A r \in wcRevoked : \A c \in Chain(r.target) :
    CredentialLive(c) => \E e \in Chain(r.target) : wcCred[e].code \in r.late

\* A quarantined supplier does not work: enrolment, suspension and
\* reinstatement keep quarantined_at and status in step.
QuarantineHolds == wcSupplier.quarantined => wcSupplier.status = "suspended"

\* Enrolment, rotation and revocation keep one credential per device and worker, and
\* none of those revoked.
CredentialsHold ==
    /\ OneCredentialPerDevice /\ OneCredentialPerWorker /\ RevocationReachesTheChain
    /\ QuarantineHolds

\* Nobody but an operator lifts a suspension (EnrollWorkerTx activates pending
\* suppliers only).
SuspensionLifted ==
  wcSupplier.status = "suspended" /\ wcSupplier'.status # "suspended" => ReinstateWorker
=============================================================================
