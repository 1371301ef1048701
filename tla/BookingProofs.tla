---------------------------- MODULE BookingProofs ----------------------------
(***************************************************************************)
(* Proofs about what is handed out to one of many: hosts to claims, and    *)
(* slots to busy hosts, for any claims, hosts, policies, workers, limits   *)
(* and bounds.                                                             *)
(***************************************************************************)
EXTENDS Subresources, FiniteSetTheorems, TLAPS

(***************************************************************************)
(* ClaimedHostIsBooked.  The invariant is Inv of HostClaim: the copy of a  *)
(* host that is not outdated equals the host, so that a booking that is    *)
(* accepted was decided on what the host really is.                        *)
(***************************************************************************)
\* What the constants must satisfy: an empty consumerRef is no claim, an
\* empty status.bareMetalHost is no host.
ClaimConstantsFit ==
    /\ Nobody \notin Claims /\ NoHost \notin Hosts
    /\ MaxHostEdits \in Nat /\ MaxLost \in Nat

\* A host that chooseBMH returns is a host, and its copy names no other claim.
LEMMA ChosenHostIsFree ==
    ASSUME NEW c \in Claims, NEW h \in Claim!ChooseBMH(c)
    PROVE  h \in Hosts /\ listed[h].consumer \in {c, Nobody}
  BY DEF Claim!ChooseBMH, Claim!PickHost, Claim!Selected, Claim!ConsumerRefMatches, Claim!Available

\* An update of a host keeps the copies that are not outdated exact.
LEMMA WriteKeepsCacheExact ==
    ASSUME Claim!TypeOK, Claim!CacheIsExact, NEW h \in Hosts, NEW new \in Claim!HostRecords,
           Claim!Write(h, new), listed' = listed
    PROVE  /\ bmhs' \in [Hosts -> Claim!HostRecords]
           /\ outdated' \subseteq Hosts
           /\ Claim!CacheIsExact'
           /\ bmhs'[h] = new
           /\ \A g \in Hosts \ {h} : bmhs'[g] = bmhs[g]
  BY DEF Claim!TypeOK, Claim!CacheIsExact, Claim!Write

\* Associate: the booking is accepted only if the copy is exact, and an exact copy
\* that is free or the claim's own cannot be booked by another claim.
LEMMA AssociateKeeps ==
    ASSUME ClaimConstantsFit, Claim!Inv, NEW c \in Claims, Claim!Associate(c)
    PROVE  Claim!Inv'
  <1>1. PICK h \in Claim!ChooseBMH(c) : Claim!Book(c, h) /\ Claim!SaveClaim(c, h)
    BY DEF Claim!Associate
  <1>2. h \in Hosts /\ listed[h].consumer \in {c, Nobody}
    BY <1>1, ChosenHostIsFree
  <1>3. listed[h] = bmhs[h] /\ listed[h] \in Claim!HostRecords
    BY <1>1, <1>2 DEF Claim!Book, Claim!Fresh, Claim!Inv, Claim!CacheIsExact, Claim!TypeOK
  <1> DEFINE new == [listed[h] EXCEPT !.consumer = c]
  <1>4. new \in Claim!HostRecords /\ new.consumer = c
    BY <1>3 DEF Claim!HostRecords
  <1>5. Claim!Write(h, new) /\ listed' = listed /\ policies' = policies
    BY <1>1 DEF Claim!Book, Claim!Associate
  <1> HIDE DEF new
  <1>6. /\ bmhs' \in [Hosts -> Claim!HostRecords] /\ outdated' \subseteq Hosts
        /\ Claim!CacheIsExact'
        /\ bmhs'[h] = new /\ \A g \in Hosts \ {h} : bmhs'[g] = bmhs[g]
    BY <1>2, <1>4, <1>5, WriteKeepsCacheExact DEF Claim!Inv
  <1>7. /\ claims' = claims \/ claims' = [claims EXCEPT ![c] = h]
        /\ claimBudget' \in [edits : 0 .. MaxHostEdits, lost : 0 .. MaxLost]
    BY <1>1 DEF Claim!SaveClaim, Claim!Lose, Claim!Inv, Claim!TypeOK, ClaimConstantsFit
  <1>8. Claim!TypeOK'
    BY <1>2, <1>5, <1>6, <1>7 DEF Claim!Inv, Claim!TypeOK
  <1>9. Claim!ClaimedHostIsBooked'
    <2> SUFFICES ASSUME NEW d \in Claims, claims'[d] # NoHost
                 PROVE  bmhs'[claims'[d]].consumer = d
      BY DEF Claim!ClaimedHostIsBooked
    <2>1. CASE claims'[d] = h
      <3>1. CASE d = c
        BY <2>1, <3>1, <1>4, <1>6
      <3>2. CASE d # c
        \* Then d had recorded h before, and the exact copy names d.
        BY <2>1, <3>2, <1>2, <1>3, <1>7 DEF Claim!Inv, Claim!TypeOK, Claim!ClaimedHostIsBooked, ClaimConstantsFit
      <3> QED BY <3>1, <3>2
    <2>2. CASE claims'[d] # h
      BY <2>2, <1>6, <1>7 DEF Claim!Inv, Claim!TypeOK, Claim!ClaimedHostIsBooked
    <2> QED BY <2>1, <2>2
  <1> QED BY <1>6, <1>8, <1>9 DEF Claim!Inv

\* Sync copies a host: nothing but the copy changes.
LEMMA SyncKeeps ==
    ASSUME Claim!Inv, NEW h \in Hosts, Claim!Sync(h)
    PROVE  Claim!Inv'
  BY DEF Claim!Inv, Claim!Sync, Claim!TypeOK, Claim!ClaimedHostIsBooked, Claim!CacheIsExact

\* Other consumers take hosts without consumer only, which no claim records.
LEMMA OtherConsumerKeeps ==
    ASSUME ClaimConstantsFit, Claim!Inv, NEW h \in Hosts, Claim!OtherConsumer(h)
    PROVE  Claim!Inv'
  <1> DEFINE new == [bmhs[h] EXCEPT !.consumer = Other]
  <1>0. bmhs[h] \in Claim!HostRecords
    BY DEF Claim!Inv, Claim!TypeOK
  <1>1. new \in Claim!HostRecords
    BY <1>0 DEF Claim!HostRecords
  <1>2. Claim!Write(h, new) /\ listed' = listed
    BY DEF Claim!OtherConsumer
  <1> HIDE DEF new
  <1>3. /\ bmhs' \in [Hosts -> Claim!HostRecords] /\ outdated' \subseteq Hosts
        /\ Claim!CacheIsExact'
        /\ \A g \in Hosts \ {h} : bmhs'[g] = bmhs[g]
    BY <1>1, <1>2, WriteKeepsCacheExact DEF Claim!Inv
  <1>4. Claim!TypeOK'
    BY <1>3 DEF Claim!OtherConsumer, Claim!Edit, Claim!Inv, Claim!TypeOK, ClaimConstantsFit
  <1>5. \A c \in Claims : claims[c] # h
    BY DEF Claim!OtherConsumer, Claim!Inv, Claim!ClaimedHostIsBooked, ClaimConstantsFit
  <1>6. Claim!ClaimedHostIsBooked'
    BY <1>3, <1>5 DEF Claim!OtherConsumer, Claim!Inv, Claim!TypeOK, Claim!ClaimedHostIsBooked
  <1> QED BY <1>3, <1>4, <1>6 DEF Claim!Inv

\* The host's own changes leave its consumer alone.
LEMMA HostChangesKeeps ==
    ASSUME ClaimConstantsFit, Claim!Inv, NEW h \in Hosts, Claim!HostChanges(h)
    PROVE  Claim!Inv'
  <1>0. bmhs[h] \in Claim!HostRecords
    BY DEF Claim!Inv, Claim!TypeOK
  <1> DEFINE record == bmhs[h]
             toggled == [record EXCEPT !.state =
                            IF @ = "available" THEN "inspecting" ELSE "available"]
             changes == {toggled, [record EXCEPT !.deleting = TRUE],
                         [record EXCEPT !.paused = ~@], [record EXCEPT !.error = ~@]}
                        \cup {[record EXCEPT !.labels = l] : l \in SUBSET Labels}
  <1>a. PICK new \in changes : Claim!Write(h, new)
    BY DEF Claim!HostChanges
  <1>b. \A n \in changes : n \in Claim!HostRecords /\ n.consumer = record.consumer
    <2> HIDE DEF record
    <2>0. record \in Claim!HostRecords
      BY <1>0 DEF record
    <2>1. toggled \in Claim!HostRecords /\ toggled.consumer = record.consumer
      BY <2>0 DEF Claim!HostRecords
    <2>2. /\ [record EXCEPT !.deleting = TRUE] \in Claim!HostRecords
          /\ [record EXCEPT !.paused = ~@] \in Claim!HostRecords
          /\ [record EXCEPT !.error = ~@] \in Claim!HostRecords
      BY <2>0 DEF Claim!HostRecords
    <2>3. /\ [record EXCEPT !.deleting = TRUE].consumer = record.consumer
          /\ [record EXCEPT !.paused = ~@].consumer = record.consumer
          /\ [record EXCEPT !.error = ~@].consumer = record.consumer
      BY <2>0 DEF Claim!HostRecords
    <2>4. ASSUME NEW l \in SUBSET Labels
          PROVE  /\ [record EXCEPT !.labels = l] \in Claim!HostRecords
                 /\ [record EXCEPT !.labels = l].consumer = record.consumer
      BY <2>0 DEF Claim!HostRecords
    <2> HIDE DEF toggled
    <2> QED BY <2>1, <2>2, <2>3, <2>4
  <1>1. new \in Claim!HostRecords /\ Claim!Write(h, new) /\ new.consumer = bmhs[h].consumer
    BY <1>a, <1>b
  <1>2. listed' = listed
    BY DEF Claim!HostChanges
  <1>3. /\ bmhs' \in [Hosts -> Claim!HostRecords] /\ outdated' \subseteq Hosts
        /\ Claim!CacheIsExact'
        /\ bmhs'[h] = new /\ \A g \in Hosts \ {h} : bmhs'[g] = bmhs[g]
    BY <1>1, <1>2, WriteKeepsCacheExact DEF Claim!Inv
  <1>4. Claim!TypeOK'
    BY <1>3 DEF Claim!HostChanges, Claim!Edit, Claim!Inv, Claim!TypeOK, ClaimConstantsFit
  <1>5. Claim!ClaimedHostIsBooked'
    BY <1>1, <1>3 DEF Claim!HostChanges, Claim!Inv, Claim!TypeOK, Claim!ClaimedHostIsBooked
  <1> QED BY <1>3, <1>4, <1>5 DEF Claim!Inv

\* The policies matter to a claim only until it has a host.
LEMMA PolicyChangesKeeps ==
    ASSUME ClaimConstantsFit, Claim!Inv, Claim!PolicyChanges
    PROVE  Claim!Inv'
  BY DEF Claim!PolicyChanges, Claim!Edit, Claim!Inv, Claim!TypeOK, Claim!ClaimedHostIsBooked, Claim!CacheIsExact, ClaimConstantsFit

\* The invariant holds for every behaviour: conflicts alone keep two claims, and
\* other consumers, from sharing a host.
THEOREM ClaimInvariant ==
    ASSUME ClaimConstantsFit
    PROVE  Spec => []Claim!Inv
  <1>1. Claim!Init => Claim!Inv
    <2> DEFINE newHost(l) == [consumer |-> Nobody, state |-> "available", deleting |-> FALSE,
                              paused |-> FALSE, error |-> FALSE, labels |-> l]
    <2>1. \A l \in SUBSET Labels : newHost(l) \in Claim!HostRecords
      BY DEF Claim!HostRecords
    <2>2. ASSUME Claim!Init PROVE bmhs \in [Hosts -> Claim!HostRecords]
      <3>1. bmhs \in [Hosts -> {newHost(l) : l \in SUBSET Labels}]
        BY <2>2 DEF Claim!Init
      <3> HIDE DEF newHost
      <3> QED BY <2>1, <3>1
    <2> QED BY <2>2 DEF ClaimConstantsFit, Claim!Init, Claim!Inv, Claim!TypeOK, Claim!ClaimedHostIsBooked,
                        Claim!CacheIsExact
  <1>2. Claim!Inv /\ [Next]_vars => Claim!Inv'
    <2> SUFFICES ASSUME Claim!Inv, Claim!Next \/ UNCHANGED claimVars PROVE Claim!Inv'
      BY DEF Next, vars
    <2>1. CASE \E c \in Claims : Claim!Associate(c)
      BY <2>1, AssociateKeeps
    <2>2. CASE \E h \in Hosts : Claim!Sync(h)
      BY <2>2, SyncKeeps
    <2>3. CASE \E h \in Hosts : Claim!OtherConsumer(h)
      BY <2>3, OtherConsumerKeeps
    <2>4. CASE \E h \in Hosts : Claim!HostChanges(h)
      BY <2>4, HostChangesKeeps
    <2>5. CASE Claim!PolicyChanges
      BY <2>5, PolicyChangesKeeps
    <2>6. CASE UNCHANGED claimVars
      BY <2>6 DEF claimVars, Claim!Inv, Claim!TypeOK, Claim!ClaimedHostIsBooked, Claim!CacheIsExact
    <2> QED BY <2>1, <2>2, <2>3, <2>4, <2>5, <2>6 DEF Claim!Next
  <1>3. Init => Claim!Init
    BY DEF Init
  <1> QED BY <1>1, <1>2, <1>3, PTL DEF Spec

\* Associate: a host in the status of a claim is booked by that claim, for any
\* number of claims, hosts and other consumers, stale copies and lost saves.
THEOREM ClaimedHostIsBookedAlways ==
    ASSUME ClaimConstantsFit
    PROVE  Spec => []ClaimedHostIsBooked
  <1>1. Claim!Inv => ClaimedHostIsBooked
    BY DEF Claim!Inv, ClaimedHostIsBooked
  <1> QED BY <1>1, ClaimInvariant, PTL

-----------------------------------------------------------------------------
(***************************************************************************)
(* BusyBound.  Not inductive by itself: a pass that found a slot will make *)
(* its node busy, so the bound has to hold for the busy hosts and the      *)
(* granted ones together (Committed). At the last grant fewer than         *)
(* MaxBusyHosts were busy, and at most HostWorkers passes are granted;     *)
(* after that, hosts only move from granted to busy, or leave.             *)
(***************************************************************************)
\* What the constants must satisfy.
BusyConstantsFit ==
    /\ IsFiniteSet(BusyHosts)
    /\ MaxBusyHosts \in Nat /\ HostWorkers \in Nat \ {0} /\ MaxJobs \in Nat

\* The hosts that count, or will count, against the limit.
Committed == Slots!LimitedBusy \cup (granted \ VirtualMedia)

BusyTypeOK ==
    /\ hostPhase \in [BusyHosts -> {"rest", "preparing", "limited"}]
    /\ delayed \subseteq BusyHosts /\ granted \subseteq BusyHosts
    /\ nodeBusy \subseteq BusyHosts
    /\ jobs \in [BusyHosts -> Nat]

\* A host at rest has an idle node, one in a granted pass is in a limited
\* state and its node idle.
PhasesAgree ==
    /\ \A h \in nodeBusy : hostPhase[h] # "rest"
    /\ \A h \in granted : hostPhase[h] = "limited" /\ h \notin nodeBusy

BusyInv ==
    /\ BusyTypeOK /\ PhasesAgree
    /\ Cardinality(granted) <= HostWorkers
    /\ Cardinality(Committed) <= MaxBusyHosts + HostWorkers - 1

\* The module counts as FiniteSets does.
LEMMA SameCount == \A S : Slots!Cardinality(S) = Cardinality(S)
  BY DEF Slots!Cardinality, Cardinality

\* All the sets that are counted are finite.
LEMMA FiniteHosts ==
    ASSUME BusyConstantsFit, NEW S \in SUBSET BusyHosts
    PROVE  IsFiniteSet(S) /\ Cardinality(S) \in Nat
  BY FS_Subset, FS_CardinalityType DEF BusyConstantsFit

\* A part of a set of hosts is no larger than the set.
LEMMA FewerHosts ==
    ASSUME BusyConstantsFit, NEW S \in SUBSET BusyHosts, NEW T \in SUBSET S
    PROVE  Cardinality(T) \in Nat /\ Cardinality(S) \in Nat /\ Cardinality(T) <= Cardinality(S)
  BY FiniteHosts, FS_Subset, FS_CardinalityType

\* Steps that grant nothing and commit no further host keep the invariant.
LEMMA NoNewCommitment ==
    ASSUME BusyConstantsFit, BusyInv, BusyTypeOK', PhasesAgree',
           granted' \subseteq granted, Committed' \subseteq Committed
    PROVE  BusyInv'
  <1>1. Committed \in SUBSET BusyHosts /\ granted \in SUBSET BusyHosts
    BY DEF BusyInv, BusyTypeOK, Committed, Slots!LimitedBusy
  <1>2. /\ Cardinality(Committed') <= Cardinality(Committed)
        /\ Cardinality(Committed') \in Nat /\ Cardinality(Committed) \in Nat
    BY <1>1, FewerHosts
  <1>3. /\ Cardinality(granted') <= Cardinality(granted)
        /\ Cardinality(granted') \in Nat /\ Cardinality(granted) \in Nat
    BY <1>1, FewerHosts
  <1> QED BY <1>2, <1>3 DEF BusyInv, BusyConstantsFit

\* updateHostStateFrom: the host has an idle node, so its new state does not count yet.
LEMMA EnterLimitedKeeps ==
    ASSUME BusyConstantsFit, BusyInv, NEW h \in BusyHosts, Slots!EnterLimited(h)
    PROVE  BusyInv'
  <1>1. BusyTypeOK' /\ PhasesAgree'
    BY DEF Slots!EnterLimited, BusyInv, BusyTypeOK, PhasesAgree
  <1>2. granted' \subseteq granted /\ Committed' \subseteq Committed
    BY DEF Slots!EnterLimited, BusyInv, BusyTypeOK, PhasesAgree, Committed, Slots!LimitedBusy
  <1> QED BY <1>1, <1>2, NoNewCommitment

\* checkDelayedHost of a delayed host only clears its status.
LEMMA CheckDelayedKeeps ==
    ASSUME BusyConstantsFit, BusyInv, NEW h \in BusyHosts, Slots!CheckDelayed(h)
    PROVE  BusyInv'
  <1>1. BusyTypeOK' /\ PhasesAgree'
    BY DEF Slots!CheckDelayed, Slots!Undelay, BusyInv, BusyTypeOK, PhasesAgree
  <1>2. granted' \subseteq granted /\ Committed' \subseteq Committed
    BY DEF Slots!CheckDelayed, Committed, Slots!LimitedBusy
  <1> QED BY <1>1, <1>2, NoNewCommitment

\* checkDelayedHost that grants a slot: HasCapacity has just counted fewer than
\* MaxBusyHosts nodes, and the workers bound the grants.
LEMMA CheckAgainKeeps ==
    ASSUME BusyConstantsFit, BusyInv, NEW h \in BusyHosts, Slots!CheckAgain(h)
    PROVE  BusyInv'
  <1>1. BusyTypeOK' /\ PhasesAgree'
    BY DEF Slots!CheckAgain, BusyInv, BusyTypeOK, PhasesAgree
  <1>2. CASE granted' = granted
    <2>1. Committed' = Committed
      BY <1>2 DEF Slots!CheckAgain, Committed, Slots!LimitedBusy
    <2> QED BY <1>1, <1>2, <2>1, NoNewCommitment
  <1>3. CASE granted' # granted
    <2>1. /\ granted' = granted \cup {h} /\ Slots!HasCapacity(h) /\ h \notin nodeBusy
          /\ Cardinality(granted) < HostWorkers
          /\ nodeBusy' = nodeBusy /\ hostPhase' = hostPhase
      BY <1>3, SameCount DEF Slots!CheckAgain
    <2>2. /\ Cardinality(granted) \in Nat /\ IsFiniteSet(granted)
          /\ Cardinality(granted') \in Nat /\ IsFiniteSet(granted')
      BY <1>1, FiniteHosts DEF BusyInv, BusyTypeOK
    <2>3. Cardinality(granted') <= HostWorkers
      BY <2>1, <2>2, FS_AddElement DEF BusyConstantsFit
    <2>4. CASE h \in VirtualMedia
      <3>1. Committed' = Committed
        BY <2>1, <2>4 DEF Committed, Slots!LimitedBusy
      <3> QED BY <1>1, <2>3, <3>1 DEF BusyInv
    <2>5. CASE h \notin VirtualMedia
      <3>1. Cardinality(Slots!LoadBusyHosts) < MaxBusyHosts
        BY <2>1, <2>5, SameCount DEF Slots!HasCapacity, Slots!LoadBusyHosts
      <3>2. Slots!LimitedBusy \in SUBSET Slots!LoadBusyHosts /\ Slots!LoadBusyHosts \in SUBSET BusyHosts
        BY DEF Slots!LimitedBusy, Slots!LoadBusyHosts, BusyInv, BusyTypeOK
      <3>3. /\ Cardinality(Slots!LimitedBusy) <= Cardinality(Slots!LoadBusyHosts)
            /\ Cardinality(Slots!LimitedBusy) \in Nat /\ Cardinality(Slots!LoadBusyHosts) \in Nat
            /\ IsFiniteSet(Slots!LimitedBusy)
        BY <3>2, FewerHosts, FiniteHosts
      <3>4. Cardinality(Slots!LimitedBusy \cup granted') <= Cardinality(Slots!LimitedBusy) + Cardinality(granted')
        <4>1. /\ Cardinality(Slots!LimitedBusy \cup granted') =
                   Cardinality(Slots!LimitedBusy) + Cardinality(granted')
                     - Cardinality(Slots!LimitedBusy \cap granted')
          BY <2>2, <3>3, FS_Union
        <4>2. Cardinality(Slots!LimitedBusy \cap granted') \in Nat
          BY <1>1, FiniteHosts DEF BusyTypeOK
        <4> QED BY <2>2, <3>3, <4>1, <4>2
      <3>5. /\ Committed' \in SUBSET (Slots!LimitedBusy \cup granted')
            /\ Slots!LimitedBusy \cup granted' \in SUBSET BusyHosts
        BY <1>1, <2>1, <3>2 DEF Committed, Slots!LimitedBusy, BusyTypeOK
      <3>6. /\ Cardinality(Committed') <= Cardinality(Slots!LimitedBusy \cup granted')
            /\ Cardinality(Committed') \in Nat
            /\ Cardinality(Slots!LimitedBusy \cup granted') \in Nat
        BY <3>5, FewerHosts
      <3>7. Cardinality(Committed') <= MaxBusyHosts + HostWorkers - 1
        BY <2>2, <2>3, <3>1, <3>3, <3>4, <3>6 DEF BusyConstantsFit
      <3> QED BY <1>1, <2>3, <3>7 DEF BusyInv
    <2> QED BY <2>4, <2>5
  <1> QED BY <1>2, <1>3

\* A granted pass makes its node busy: the host was committed before.
LEMMA StartOperationKeeps ==
    ASSUME BusyConstantsFit, BusyInv, NEW h \in BusyHosts, Slots!StartOperation(h)
    PROVE  BusyInv'
  <1>1. BusyTypeOK' /\ PhasesAgree'
    BY DEF Slots!StartOperation, Slots!InPass, BusyInv, BusyTypeOK, PhasesAgree
  <1>2. granted' \subseteq granted /\ Committed' \subseteq Committed
    BY DEF Slots!StartOperation, Slots!InPass, Committed, Slots!LimitedBusy
  <1> QED BY <1>1, <1>2, NoNewCommitment

\* A granted pass fails: the host is committed no longer.
LEMMA FailOperationKeeps ==
    ASSUME BusyConstantsFit, BusyInv, NEW h \in BusyHosts, Slots!FailOperation(h)
    PROVE  BusyInv'
  <1>1. BusyTypeOK' /\ PhasesAgree'
    <2>1. jobs' \in [BusyHosts -> Nat]
      BY DEF Slots!FailOperation, BusyInv, BusyTypeOK
    <2> QED BY <2>1 DEF Slots!FailOperation, BusyInv, BusyTypeOK, PhasesAgree
  <1>2. granted' \subseteq granted /\ Committed' \subseteq Committed
    BY DEF Slots!FailOperation, Committed, Slots!LimitedBusy
  <1> QED BY <1>1, <1>2, NoNewCommitment

\* The cleaning of Preparing is not counted.
LEMMA StartCleaningKeeps ==
    ASSUME BusyConstantsFit, BusyInv, NEW h \in BusyHosts, Slots!StartCleaning(h)
    PROVE  BusyInv'
  <1>1. BusyTypeOK' /\ PhasesAgree'
    <2>1. jobs' \in [BusyHosts -> Nat]
      BY DEF Slots!StartCleaning, BusyInv, BusyTypeOK
    <2> QED BY <2>1 DEF Slots!StartCleaning, BusyInv, BusyTypeOK, PhasesAgree
  <1>2. granted' \subseteq granted /\ Committed' \subseteq Committed
    BY DEF Slots!StartCleaning, BusyInv, BusyTypeOK, Committed, Slots!LimitedBusy
  <1> QED BY <1>1, <1>2, NoNewCommitment

\* Ironic is done: the host counts no longer. It is not in a granted pass,
\* whose node would be idle.
LEMMA FinishKeeps ==
    ASSUME BusyConstantsFit, BusyInv, NEW h \in BusyHosts, Slots!Finish(h)
    PROVE  BusyInv'
  <1>1. BusyTypeOK' /\ PhasesAgree'
    <2>1. jobs' \in [BusyHosts -> Nat]
      BY DEF Slots!Finish, BusyInv, BusyTypeOK
    <2> QED BY <2>1 DEF Slots!Finish, BusyInv, BusyTypeOK, PhasesAgree
  <1>2. granted' \subseteq granted /\ Committed' \subseteq Committed
    BY DEF Slots!Finish, BusyInv, BusyTypeOK, Committed, Slots!LimitedBusy
  <1> QED BY <1>1, <1>2, NoNewCommitment

\* The strengthened bound holds in every state.
THEOREM CommittedBound ==
    ASSUME BusyConstantsFit
    PROVE  Spec => []BusyInv
  <1>1. Slots!Init => BusyInv
    <2> SUFFICES ASSUME Slots!Init PROVE BusyInv
      OBVIOUS
    <2>1. BusyTypeOK /\ PhasesAgree
      BY DEF Slots!Init, BusyTypeOK, PhasesAgree, BusyConstantsFit
    <2>2. granted = {} /\ Committed = {}
      BY DEF Slots!Init, Committed, Slots!LimitedBusy
    <2> QED BY <2>1, <2>2, FS_EmptySet DEF BusyInv, BusyConstantsFit
  <1>2. BusyInv /\ [Next]_vars => BusyInv'
    <2> SUFFICES ASSUME BusyInv, Slots!Next \/ UNCHANGED capacityVars PROVE BusyInv'
      BY DEF Next, vars
    <2>1. CASE UNCHANGED capacityVars
      BY <2>1 DEF capacityVars, BusyInv, BusyTypeOK, PhasesAgree, Committed, Slots!LimitedBusy
    <2>2. CASE \E h \in BusyHosts : Slots!ReconcileBusyHost(h)
      BY <2>2, EnterLimitedKeeps, CheckDelayedKeeps, CheckAgainKeeps, StartOperationKeeps
         DEF Slots!ReconcileBusyHost
    <2>3. CASE \E h \in BusyHosts : Slots!FailOperation(h) \/ Slots!StartCleaning(h) \/ Slots!Finish(h)
      BY <2>3, FailOperationKeeps, StartCleaningKeeps, FinishKeeps
    <2> QED BY <2>1, <2>2, <2>3 DEF Slots!Next
  <1>3. Init => Slots!Init
    BY DEF Init
  <1> QED BY <1>1, <1>2, <1>3, PTL DEF Spec

\* HasCapacity: however many hosts are reconciled at once, the hosts that Ironic
\* works on in limited states exceed the limit by fewer than the workers.
THEOREM BusyBoundAlways ==
    ASSUME BusyConstantsFit
    PROVE  Spec => []BusyBound
  <1>1. BusyInv => BusyBound
    <2> SUFFICES ASSUME BusyInv PROVE Slots!BusyBound
      BY DEF BusyBound
    <2>1. Slots!LimitedBusy \in SUBSET Committed /\ Committed \in SUBSET BusyHosts
      BY DEF BusyInv, BusyTypeOK, Committed, Slots!LimitedBusy
    <2>2. /\ Cardinality(Slots!LimitedBusy) <= Cardinality(Committed)
          /\ Cardinality(Slots!LimitedBusy) \in Nat /\ Cardinality(Committed) \in Nat
      BY <2>1, FewerHosts
    <2> QED BY <2>2, SameCount DEF BusyInv, Slots!BusyBound, BusyConstantsFit
  <1> QED BY <1>1, CommittedBound, PTL

==============================================================================
