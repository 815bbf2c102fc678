------------------------------ MODULE LiveIndex -----------------------------
(***************************************************************************)
(* LiveDeviceIndex and the table that guards it: the in-process record of  *)
(* which realtime offers are alive.  A slot has an epoch, a place on a     *)
(* timing wheel, and the fingerprint of the offer that owns it.  Epochs,   *)
(* memberships and owners are atomic words; a wheel bucket is a slice      *)
(* under a mutex, and slots of a bucket are removed by moving the last one *)
(* into the gap.  Heartbeats of one offer may run at the same time.        *)
(***************************************************************************)
EXTENDS Naturals, Sequences, FiniteSets

CONSTANTS
    LiOffers,       \* offers; TrueSlot gives each its own slot
    LiSlots,        \* dense slots 0 .. n-1
    LiBuckets,      \* liveDeviceWheelBuckets
    LiWindow,       \* liveDeviceWindowEpochs
    Beats,          \* concurrent heartbeat handlers
    LiHorizon,      \* bound on the clock
    MaxBeats        \* bound on heartbeats

VARIABLES
    liNow,      \* seconds
    liEpoch,    \* slot -> last seen, 0 for never
    liMember,   \* slot -> <<bucket, position>>, <<>> for absent
    liWheel,    \* bucket -> the slots in it, in order
    liLock,     \* bucket -> the handler holding its mutex, "free" otherwise
    liOwner,    \* slot -> "unclaimed", "conflict" or the owning offer
    liCache,    \* offer -> the slot offerSlotCache names, NoSlot for none
    liBeat,     \* handler -> its heartbeat
    liBeats,    \* heartbeats so far
    liSeen      \* offer -> the newest observation of its own heartbeats

liVars == <<liNow, liEpoch, liMember, liWheel, liLock, liOwner, liCache, liBeat,
            liBeats, liSeen>>

Buckets == 0 .. LiBuckets - 1
TrueSlot == CHOOSE f \in [LiOffers -> LiSlots] : \A o, p \in LiOffers : f[o] = f[p] => o = p
NoBeat == [step |-> "idle"]
NoSlot == LiBuckets + LiHorizon

LIInit ==
    /\ liNow = LiWindow
    /\ liEpoch = [s \in LiSlots |-> 0]
    /\ liMember = [s \in LiSlots |-> <<>>]
    /\ liWheel = [b \in Buckets |-> <<>>]
    /\ liLock = [b \in Buckets |-> "free"]
    /\ liOwner = [s \in LiSlots |-> "unclaimed"]
    /\ liCache = [o \in LiOffers |-> NoSlot]
    /\ liBeat = [h \in Beats |-> NoBeat]
    /\ liBeats = 0
    /\ liSeen = [o \in LiOffers |-> 0]

LiTick ==
    /\ liNow < LiHorizon
    /\ liNow' = liNow + 1
    /\ UNCHANGED <<liEpoch, liMember, liWheel, liLock, liOwner, liCache, liBeat,
                   liBeats, liSeen>>

\* claimSlotOwner: the first claim wins, another one poisons the slot.
Claimed(slot, o) ==
    [liOwner EXCEPT ![slot] = CASE @ = "unclaimed" -> o
                                [] @ = o -> o
                                [] OTHER -> "conflict"]

\* slotOwnedBy.
OwnedBy(slot, o) == liOwner[slot] = o

\* lookupOfferBinding: the cached slot, or the row's with a claim on it.
Lookup(o) ==
    IF liCache[o] # NoSlot
       THEN UNCHANGED <<liCache, liOwner>>
       ELSE /\ liCache' = [liCache EXCEPT ![o] = TrueSlot[o]]
            /\ liOwner' = Claimed(TrueSlot[o], o)

\* Fault: a binding in the cache names another offer's slot (the case
\* admitIndexHeartbeat guards against), between two heartbeats.
CacheCorrupted(o, slot) ==
    /\ liCache[o] = TrueSlot[o] /\ slot # TrueSlot[o]
    /\ \A h \in Beats : liBeat[h] = NoBeat
    /\ liCache' = [liCache EXCEPT ![o] = slot]
    /\ UNCHANGED <<liNow, liEpoch, liMember, liWheel, liLock, liOwner, liBeat,
                   liBeats, liSeen>>

\* forgetOfferBinding, when the offer is registered again (here between
\* two heartbeats).
ForgetBinding(o) ==
    /\ liCache[o] # NoSlot
    /\ \A h \in Beats : liBeat[h] = NoBeat
    /\ liCache' = [liCache EXCEPT ![o] = NoSlot]
    /\ UNCHANGED <<liNow, liEpoch, liMember, liWheel, liLock, liOwner, liBeat,
                   liBeats, liSeen>>

(***************************************************************************)
(* A heartbeat: admitIndexHeartbeat resolves the binding; then             *)
(* indexHeartbeatSlot checks the owner and Heartbeat stores the epoch and  *)
(* moves the slot to the bucket of its observation.                        *)
(***************************************************************************)
BeatBegins(h, o, obs) ==
    /\ liBeat[h].step = "idle"
    /\ liBeats < MaxBeats
    /\ obs <= liNow /\ liNow - obs <= LiWindow
    /\ liBeats' = liBeats + 1
    /\ Lookup(o)
    /\ liBeat' = [liBeat EXCEPT ![h] =
                     [step |-> "admit", o |-> o, slot |-> liCache'[o], obs |-> obs,
                      old |-> LiBuckets, pos |-> 0]]
    /\ liSeen' = [liSeen EXCEPT ![o] = IF obs > @ THEN obs ELSE @]
    /\ UNCHANGED <<liNow, liEpoch, liMember, liWheel, liLock>>

StoreEpoch(h) ==
    LET t == liBeat[h]
    IN  /\ t.step = "admit"
        /\ IF OwnedBy(t.slot, t.o)
              THEN /\ liEpoch' = [liEpoch EXCEPT ![t.slot] = t.obs]
                   /\ liBeat' = [liBeat EXCEPT ![h].step = "load"]
              ELSE /\ UNCHANGED liEpoch
                   /\ liBeat' = [liBeat EXCEPT ![h] = NoBeat]
        /\ UNCHANGED <<liNow, liMember, liWheel, liLock, liOwner, liCache, liBeats,
                       liSeen>>

BucketOf(epoch) == epoch % LiBuckets
Home(slot) == IF liMember[slot] = <<>> THEN LiBuckets ELSE liMember[slot][1]

\* moveToBucket reads the membership without a lock.
LoadMember(h) ==
    LET t == liBeat[h]
        old == Home(t.slot)
    IN  /\ t.step = "load"
        /\ liBeat' = [liBeat EXCEPT ![h] =
                         IF old = BucketOf(t.obs) THEN NoBeat
                         ELSE [t EXCEPT !.step = "lock", !.old = old]]
        /\ UNCHANGED <<liNow, liEpoch, liMember, liWheel, liLock, liOwner, liCache,
                       liBeats, liSeen>>

\* Mutant: the old bucket is locked first.
LockOrder_OldFirst(t) == IF t.old \in Buckets THEN <<t.old, BucketOf(t.obs)>> ELSE <<BucketOf(t.obs)>>
\* The mutexes the move needs, in the order it takes them: the lower bucket first.
LockOrder(t) ==
    LET new == BucketOf(t.obs)
    IN  IF t.old \notin Buckets THEN <<new>>
        ELSE IF t.old < new THEN <<t.old, new>> ELSE <<new, t.old>>

HoldsSlot(h) == {b \in Buckets : liLock[b] = h}
Wanted(h) == IF liBeat[h].step # "lock" THEN {}
             ELSE {LockOrder(liBeat[h])[Cardinality(HoldsSlot(h)) + 1]}

\* It takes its mutexes; with the last one it reads the membership again, and
\* starts over if that changed.
LockBucket(h) ==
    LET t == liBeat[h]
        last == Cardinality(HoldsSlot(h)) + 1 = Len(LockOrder(t))
    IN  /\ t.step = "lock"
        /\ \A b \in Wanted(h) : liLock[b] = "free"
        /\ IF ~last
              THEN /\ liLock' = [b \in Buckets |-> IF b \in Wanted(h) THEN h ELSE liLock[b]]
                   /\ UNCHANGED liBeat
              ELSE IF Home(t.slot) = t.old
              THEN /\ liLock' = [b \in Buckets |-> IF b \in Wanted(h) THEN h ELSE liLock[b]]
                   /\ liBeat' = [liBeat EXCEPT ![h] =
                        IF t.old \in Buckets
                           THEN [t EXCEPT !.step = "remove", !.pos = liMember[t.slot][2]]
                           ELSE [t EXCEPT !.step = "append"]]
              ELSE /\ liLock' = [b \in Buckets |-> IF liLock[b] = h THEN "free" ELSE liLock[b]]
                   /\ liBeat' = [liBeat EXCEPT ![h].step = "load"]
        /\ UNCHANGED <<liNow, liEpoch, liMember, liWheel, liOwner, liCache, liBeats,
                       liSeen>>

\* The memberships after removeLocked filled position pos of bucket b.
MovedMember(b, pos) ==
    IF pos < Len(liWheel[b])
       THEN [liMember EXCEPT ![liWheel[b][Len(liWheel[b])]] = <<b, pos>>]
       ELSE liMember

\* Bucket b after removeLocked.
Compacted(b, pos) ==
    LET last == Len(liWheel[b])
    IN  SubSeq([liWheel[b] EXCEPT ![pos] = liWheel[b][last]], 1, last - 1)

\* removeLocked: until the append that follows, the slot reads as absent.
RemoveSlot(h) ==
    LET t == liBeat[h]
    IN  /\ t.step = "remove"
        /\ liWheel' = [liWheel EXCEPT ![t.old] = Compacted(t.old, t.pos)]
        /\ liMember' = [MovedMember(t.old, t.pos) EXCEPT ![t.slot] = <<>>]
        /\ liBeat' = [liBeat EXCEPT ![h].step = "append"]
        /\ UNCHANGED <<liNow, liEpoch, liLock, liOwner, liCache, liBeats, liSeen>>

AppendSlot(h) ==
    LET t == liBeat[h]
        new == BucketOf(t.obs)
    IN  /\ t.step = "append"
        /\ liWheel' = [liWheel EXCEPT ![new] = Append(@, t.slot)]
        /\ liMember' = [liMember EXCEPT ![t.slot] = <<new, Len(liWheel'[new])>>]
        /\ liLock' = [b \in Buckets |-> IF liLock[b] = h THEN "free" ELSE liLock[b]]
        /\ liBeat' = [liBeat EXCEPT ![h] = NoBeat]
        /\ UNCHANGED <<liNow, liEpoch, liOwner, liCache, liBeats, liSeen>>

\* IsLive: an epoch of the future reads dead.
IsLive(slot, now) == liEpoch[slot] <= now /\ now - liEpoch[slot] < LiWindow

\* offerIndexLive, which resolves the slot as a heartbeat does.
OfferLive(o) ==
    LET cached == liCache[o] # NoSlot
        slot == IF cached THEN liCache[o] ELSE TrueSlot[o]
        owner == IF cached THEN liOwner[slot] ELSE Claimed(slot, o)[slot]
    IN  owner = o /\ IsLive(slot, liNow)

(***************************************************************************)
(* expireBucket, which Tick calls: live slots are kept and packed, others  *)
(* leave the wheel.  Tick picks the bucket of the second that left the     *)
(* window; here any bucket may be expired at any time.                     *)
(***************************************************************************)
ExpireBucket(b) ==
    LET keep == SelectSeq(liWheel[b], LAMBDA s : IsLive(s, liNow))
        dead == {s \in LiSlots : \E i \in DOMAIN liWheel[b] : liWheel[b][i] = s} \
                   {keep[i] : i \in DOMAIN keep}
        shifted == {i \in DOMAIN keep : liWheel[b][i] # keep[i]}
    IN  /\ liLock[b] = "free"
        /\ Len(keep) < Len(liWheel[b])
        /\ liWheel' = [liWheel EXCEPT ![b] = keep]
        /\ liMember' = [s \in LiSlots |->
              IF s \in dead THEN <<>>
              ELSE IF \E i \in shifted : keep[i] = s
                   THEN <<b, CHOOSE i \in shifted :
                             /\ keep[i] = s
                             /\ \A j \in shifted : keep[j] = s => j <= i>>
                   ELSE liMember[s]]
        /\ UNCHANGED <<liNow, liEpoch, liLock, liOwner, liCache, liBeat, liBeats,
                       liSeen>>

LINext ==
    \/ LiTick
    \/ \E o \in LiOffers : ForgetBinding(o) \/ \E s \in LiSlots : CacheCorrupted(o, s)
    \/ \E h \in Beats : \/ StoreEpoch(h) \/ LoadMember(h) \/ LockBucket(h)
                        \/ RemoveSlot(h) \/ AppendSlot(h)
                        \/ \E o \in LiOffers, obs \in 1 .. LiHorizon : BeatBegins(h, o, obs)
    \/ \E b \in Buckets : ExpireBucket(b)

LISpec == LIInit /\ [][LINext]_liVars

-----------------------------------------------------------------------------
(***************************************************************************)
(* Properties                                                              *)
(***************************************************************************)

\* An offer that reads live has itself been observed within the window, even
\* when the cache names another offer's slot: losing or corrupting the index
\* only ever takes offers away.
OwnLiveness ==
    \A o \in LiOffers : OfferLive(o) => liNow - liSeen[o] < LiWindow

\* A membership names a position that holds its slot, so that removeLocked
\* never removes another slot nor indexes past the end of a bucket.
MemberPointsHome ==
    \A s \in LiSlots :
        liMember[s] # <<>> =>
            LET b == liMember[s][1]
                pos == liMember[s][2]
            IN  pos <= Len(liWheel[b]) /\ liWheel[b][pos] = s

\* Concurrent moves of a slot never wait for each other in a circle.
NoCircularWait ==
    ~ \E g, h \in Beats :
        /\ g # h
        /\ \E b \in Wanted(g) : liLock[b] = h
        /\ \E b \in Wanted(h) : liLock[b] = g

\* The index of live offers may lose offers but never invents one, damages a bucket or
\* stops.
IndexKept == OwnLiveness /\ MemberPointsHome /\ NoCircularWait
=============================================================================
