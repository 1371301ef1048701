------------------------------ MODULE HostClaim ------------------------------
(***************************************************************************)
(* Claims that book bare metal hosts.                                      *)
(*                                                                         *)
(* HostManager.Associate lists the hosts its cache knows in the namespaces *)
(* whose HostDeployPolicy admits the claim, picks one, writes its          *)
(* consumerRef, and leaves the host in the status of the claim, which its  *)
(* caller saves afterwards. Claims are reconciled concurrently, the cache  *)
(* lags behind, hosts are taken by other consumers too, and either write   *)
(* may be lost.                                                            *)
(*                                                                         *)
(* HostClaimReconciler.Reconcile is still empty at this commit: that its   *)
(* caller retries and saves the status is taken from Associate's contract. *)
(***************************************************************************)
EXTENDS Integers, FiniteSets

CONSTANTS
    Claims, Hosts,
    Labels,         \* labels a host may carry, failure domains included
    HostNamespace,  \* the namespace of each host
    ClaimSpec,      \* each claim: its namespace, inNamespace, labels, failureDomain
    PolicySets,     \* the sets of HostDeployPolicies an administrator installs
    BadRegexp,      \* nameMatches that is not a regular expression
    NoHost, Nobody, \* an empty status.bareMetalHost, an empty consumerRef
    Other,          \* a consumer that is not a HostClaim
    AnyNamespace,            \* an empty inNamespace
    MaxHostEdits, MaxLost

VARIABLES
    bmhs,      \* the BareMetalHosts
    listed,    \* the cache's copies of them
    outdated,  \* hosts whose copy has an old resource version
    claims,    \* status.bareMetalHost of each claim
    policies,  \* the HostDeployPolicies
    claimBudget

claimVars == <<bmhs, listed, outdated, claims, policies, claimBudget>>

HostRecords ==
    [consumer : Claims \cup {Nobody, Other}, state : {"available", "inspecting"},
     deleting : BOOLEAN, paused : BOOLEAN, error : BOOLEAN, labels : SUBSET Labels]

Init ==
    /\ bmhs \in [Hosts -> {[consumer |-> Nobody, state |-> "available", deleting |-> FALSE,
                            paused |-> FALSE, error |-> FALSE, labels |-> l] : l \in SUBSET Labels}]
    /\ listed = bmhs
    /\ outdated = {}
    /\ claims = [c \in Claims |-> NoHost]
    /\ policies \in PolicySets
    /\ claimBudget = [edits |-> MaxHostEdits, lost |-> MaxLost]

\* Update with the resource version of the copy it was made from.
Fresh(h) == h \notin outdated

Write(h, new) ==
    /\ bmhs' = [bmhs EXCEPT ![h] = new]
    /\ outdated' = IF new = bmhs[h] THEN outdated ELSE outdated \cup {h}

(***************************************************************************)
(* acceptableNamespaces. A policy admits a namespace when all constraints  *)
(* it has are met. A bad expression fails the whole search, unless another *)
(* policy, listed earlier, has admitted the same namespace already; the    *)
(* order of the list is the cache's.                                       *)
(***************************************************************************)
Considered(c) ==
    {p \in policies : ClaimSpec[c].inNamespace \in {AnyNamespace, p.namespace}}

Admits(p, c) ==
    /\ p.constrained
    /\ ClaimSpec[c].namespace \in p.names
    /\ p.nameMatches # BadRegexp /\ ClaimSpec[c].namespace \in p.nameMatches
    /\ ClaimSpec[c].namespace \in p.hasLabels

Breaks(p, c) ==
    p.constrained /\ ClaimSpec[c].namespace \in p.names /\ p.nameMatches = BadRegexp

AcceptableNamespaces(c) == {p.namespace : p \in {q \in Considered(c) : Admits(q, c)}}

SearchMayFail(c) == \E p \in Considered(c) : Breaks(p, c)

SearchMustFail(c) ==
    \E p \in Considered(c) : Breaks(p, c) /\ p.namespace \notin AcceptableNamespaces(c)

(***************************************************************************)
(* chooseBMH, selectBMH and pickHost.                                      *)
(***************************************************************************)
Selected(c) ==
    {h \in Hosts : /\ HostNamespace[h] \in AcceptableNamespaces(c)
                   /\ ClaimSpec[c].labels \subseteq listed[h].labels}

ConsumerRefMatches(h, c) == listed[h].consumer = c

AvailableBooked(h) ==
    /\ ~listed[h].deleting /\ ~listed[h].paused
    /\ listed[h].state = "available" /\ ~listed[h].error

Available(h) ==
    /\ listed[h].consumer = Nobody
    /\ ~listed[h].deleting /\ ~listed[h].paused
    /\ listed[h].state = "available" /\ ~listed[h].error

PickHost(c, hosts) ==
    LET inDomain == {h \in hosts : ClaimSpec[c].failureDomain \in listed[h].labels}
    IN  IF inDomain # {} THEN inDomain ELSE hosts

ChooseAnew(c) == PickHost(c, {h \in Selected(c) : Available(h)})

\* A host that the claim has marked before is taken, whatever its state.
ChooseBMH(c) ==
    LET marked == {h \in Selected(c) : ConsumerRefMatches(h, c)}
    IN  IF marked # {} THEN marked ELSE PickHost(c, {h \in Selected(c) : Available(h)})

(***************************************************************************)
(* Associate: book the host, then record it. A booking of an outdated copy *)
(* is refused with a conflict.                                             *)
(***************************************************************************)
Lose ==
    /\ claimBudget.lost > 0
    /\ claimBudget' = [claimBudget EXCEPT !.lost = @ - 1]

BookBlindly(c, h) == Write(h, [listed[h] EXCEPT !.consumer = c])

Book(c, h) == Fresh(h) /\ Write(h, [listed[h] EXCEPT !.consumer = c])

\* The caller's save of the status. It is lost as well when the booking was made
\* and answered with an error.
SaveClaim(c, h) ==
    \/ claims' = [claims EXCEPT ![c] = h] /\ UNCHANGED claimBudget
    \/ Lose /\ UNCHANGED claims

Associate(c) ==
    /\ claims[c] = NoHost
    /\ ~SearchMustFail(c)
    /\ \E h \in ChooseBMH(c) : Book(c, h) /\ SaveClaim(c, h)
    /\ UNCHANGED <<listed, policies>>

(***************************************************************************)
(* The cache, the other consumers, the host controller and the users.      *)
(***************************************************************************)
Sync(h) ==
    /\ h \in outdated
    /\ listed' = [listed EXCEPT ![h] = bmhs[h]]
    /\ outdated' = outdated \ {h}
    /\ UNCHANGED <<bmhs, claims, policies, claimBudget>>

Edit ==
    /\ claimBudget.edits > 0
    /\ claimBudget' = [claimBudget EXCEPT !.edits = @ - 1]

OtherConsumer(h) ==
    /\ Edit
    /\ bmhs[h].consumer = Nobody
    /\ Write(h, [bmhs[h] EXCEPT !.consumer = Other])
    /\ UNCHANGED <<listed, claims, policies>>

HostChanges(h) ==
    /\ Edit
    /\ \E new \in {[bmhs[h] EXCEPT !.state = IF @ = "available" THEN "inspecting" ELSE "available"],
                   [bmhs[h] EXCEPT !.deleting = TRUE], [bmhs[h] EXCEPT !.paused = ~@],
                   [bmhs[h] EXCEPT !.error = ~@]}
                  \cup {[bmhs[h] EXCEPT !.labels = l] : l \in SUBSET Labels} :
        new # bmhs[h] /\ Write(h, new)
    /\ UNCHANGED <<listed, claims, policies>>

PolicyChanges ==
    /\ Edit
    /\ policies' \in PolicySets \ {policies}
    /\ UNCHANGED <<bmhs, listed, outdated, claims>>

Next ==
    \/ \E c \in Claims : Associate(c)
    \/ \E h \in Hosts : Sync(h) \/ OtherConsumer(h) \/ HostChanges(h)
    \/ PolicyChanges

Spec == Init /\ [][Next]_claimVars

(***************************************************************************)
(* Properties.                                                             *)
(***************************************************************************)
TypeOK ==
    /\ bmhs \in [Hosts -> HostRecords] /\ listed \in [Hosts -> HostRecords]
    /\ outdated \subseteq Hosts
    /\ claims \in [Claims -> Hosts \cup {NoHost}]
    /\ policies \in PolicySets
    /\ claimBudget \in [edits : 0 .. MaxHostEdits, lost : 0 .. MaxLost]

\* "From here the hostClaim is definitely associated": a host that is recorded
\* in the status of a claim is booked by this claim and by nobody else, however
\* many claims and other consumers go for it at the same time.
ClaimedHostIsBooked == \A c \in Claims : claims[c] # NoHost => bmhs[claims[c]].consumer = c

\* The inductive form: also, a copy that is not outdated is exact.
CacheIsExact == \A h \in Hosts \ outdated : listed[h] = bmhs[h]
Inv == TypeOK /\ ClaimedHostIsBooked /\ CacheIsExact

\* "If an error prevents the update of the status of the claim [...] the choice
\* logic will ensure that the BareMetalHost already marked is chosen": a claim
\* never books two hosts.
OneHostPerClaim ==
    \A c \in Claims : Cardinality({h \in Hosts : bmhs[h].consumer = c}) <= 1

\* Hosts the claim could take, if nothing were cached.
Eligible(c) ==
    {h \in Hosts : /\ HostNamespace[h] \in AcceptableNamespaces(c)
                   /\ ClaimSpec[c].labels \subseteq bmhs[h].labels
                   /\ \/ bmhs[h].consumer = c
                      \/ /\ bmhs[h].consumer = Nobody
                         /\ ~bmhs[h].deleting /\ ~bmhs[h].paused
                         /\ bmhs[h].state = "available" /\ ~bmhs[h].error}

\* A claim for which hosts stay eligible gets one, unless the policies hold an
\* expression that can fail the search.
ClaimsGetHosts(c) ==
    []<>(claims[c] # NoHost \/ Eligible(c) = {} \/ SearchMayFail(c))
=============================================================================
