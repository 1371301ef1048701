--------------------------- MODULE MCSubresources ---------------------------
(***************************************************************************)
(* An instance of the smaller controllers. Fairness is stated here, with   *)
(* what justifies it: a controller's queue hands out every key in it, a    *)
(* reconcile that failed is queued again, a cache catches up, and Ironic   *)
(* finishes what it has begun.                                             *)
(***************************************************************************)
EXTENDS Subresources, TLC

CONSTANTS c1, c2, h1, h2, h3, h4, s1, s2,   \* claims, hosts, switches
          a                                 \* a data image

(***************************************************************************)
(* HostClaim: two claims, two hosts in two namespaces.                     *)
(***************************************************************************)
Tenants == {"t1", "t2"}
Policy(namespace, names, matches, labels) ==
    [namespace |-> namespace, constrained |-> TRUE, names |-> names,
     nameMatches |-> matches, hasLabels |-> labels]
MCPolicySets ==
    { {Policy("n1", Tenants, Tenants, Tenants), Policy("n2", {"t1"}, Tenants, Tenants)},
      {Policy("n1", {"t1"}, Tenants, Tenants), Policy("n1", Tenants, Tenants, {"t2"}),
       Policy("n2", Tenants, BadRegexp, Tenants)},
      {Policy("n2", Tenants, {"t1"}, Tenants),
       [Policy("n1", Tenants, Tenants, Tenants) EXCEPT !.constrained = FALSE]} }
MCHostNamespace == h1 :> "n1" @@ h2 :> "n2"
MCClaimSpec ==
    c1 :> [namespace |-> "t1", inNamespace |-> AnyNamespace, labels |-> {}, failureDomain |-> "zone"]
    @@ c2 :> [namespace |-> "t2", inNamespace |-> "n1", labels |-> {"zone"}, failureDomain |-> "none"]

(***************************************************************************)
(* PreprovisioningImage: wanted images of every kind.                      *)
(***************************************************************************)
Wanted(arch, formats, network) == [arch |-> arch, formats |-> formats, network |-> network]
MCWantedSpecs ==
    {Wanted("x86_64", <<"initrd", "iso">>, TRUE), Wanted("x86_64", <<"iso">>, FALSE),
     Wanted("bad", <<"iso">>, TRUE), Wanted("other", <<"iso">>, FALSE),
     Wanted("x86_64", <<"initrd">>, TRUE), Wanted("x86_64", <<>>, FALSE)}

\* What is not looked at starts in one state only.
MCInit ==
    /\ focus \in Foci
    /\ Claim!Init
    /\ focus # "claim" =>
         policies = (CHOOSE p \in MCPolicySets : TRUE) /\ \A h \in {h1, h2} : bmhs[h].labels = {}
    /\ Image!Init
    /\ focus # "image" => networkSecret.version = 0 /\ wanted = Wanted("x86_64", <<>>, FALSE)
    /\ Data!Init
    /\ focus # "data" => di.url = a
    /\ Subscription!Init
    /\ focus # "subscription" => cluster = [host |-> TRUE, secret |-> TRUE]
    /\ Secrets!Init
    /\ focus # "secret" => use = "bmc"
    /\ Switch!Init
    /\ credentials[s1].kind = "key" /\ credentials[s2].kind = "missing"
    /\ Slots!Init

\* The variables of the controller that is looked at.
own ==
    CASE focus = "claim" -> claimVars
      [] focus = "image" -> imgVars
      [] focus = "data" -> dataVars
      [] focus = "subscription" -> subVars
      [] focus = "secret" -> secretVars
      [] focus = "switch" -> switchVars
      [] focus = "capacity" -> capacityVars

\* The processes of a controller that are scheduled on their own, by number.
Process(i) ==
    \/ focus = "claim" /\ \/ i = 1 /\ Claim!Associate(c1)
                          \/ i = 2 /\ Claim!Associate(c2)
                          \/ i = 3 /\ Claim!Sync(h1)
                          \/ i = 4 /\ Claim!Sync(h2)
    \/ focus = "image" /\ \/ i = 1 /\ Image!HostSteps
                          \/ i = 2 /\ Image!ImageSteps
                          \/ i = 3 /\ Image!SyncImage
    \/ focus = "data" /\ \/ i = 1 /\ Data!HostSteps
                         \/ i = 2 /\ Data!ReconcileDataImage
                         \/ i = 3 /\ Data!SyncDataImage
                         \/ i = 4 /\ Data!IronicFinishes
    \/ focus = "subscription" /\ \/ i = 1 /\ Subscription!ReconcileSubscription
                                 \/ i = 2 /\ Subscription!SyncSubscription
    \/ focus = "secret" /\ \/ i = 1 /\ Secrets!ReconcileHost(h1)
                           \/ i = 2 /\ Secrets!ReconcileHost(h2)
                           \/ i = 3 /\ Secrets!SyncSecret
    \/ focus = "switch" /\ \/ i = 1 /\ Switch!ReconcileSwitch(s1)
                           \/ i = 2 /\ Switch!ReconcileSwitch(s2)
                           \/ i = 3 /\ Switch!SyncGenerated("config")
                           \/ i = 4 /\ Switch!SyncGenerated("keys")
    \/ focus = "capacity" /\ LET h == <<h1, h2, h3, h4>>[i]
                             IN  Slots!ReconcileBusyHost(h) \/ Slots!Finish(h)

MCSpec ==
    /\ MCInit /\ [][Next]_vars
    /\ \A i \in 1 .. 4 : WF_own(UNCHANGED focus /\ Process(i))

(***************************************************************************)
(* Liveness, each of the controller it is about.                           *)
(***************************************************************************)
\* Associate: while hosts stay eligible for a claim, the claim gets one.
ClaimsGetHosts == focus = "claim" => \A c \in {c1, c2} : Claim!ClaimsGetHosts(c)

\* getPreprovImage: a host that wants an image that can be built gets it.
HostGetsImage == focus = "image" => Image!HostGetsImage

\* manageHostPower: a DataImage does not keep the host powered off for ever.
HostPowersOn == focus = "data" => Data!HostPowersOn

\* DataImage controller: a deletion ends once nothing is attached any more.
DataImageDeletionEnds == focus = "data" => Data!DeletionEnds

\* createSubscription: a subscription is created in the BMC and its ID recorded.
SubscriptionRecorded == focus = "subscription" => Subscription!SubscriptionRecorded

\* deleteSubscription: the recorded subscription of a deleted resource is removed.
DeletedSubscriptionLeavesBMC ==
    focus = "subscription" => Subscription!DeletedSubscriptionLeavesBMC

\* actionDeleting: a host's deletion ends, whatever became of its secret.
HostDeletionEnds == focus = "secret" => Secrets!HostDeletionEnds

\* Reconcile: the conditions come to say which switches can be configured.
ConditionsConverge == focus = "switch" => Switch!ConditionsConverge

\* updateSwitchConfigSecret: with the resync, the two secrets come to describe the
\* switches as they are.
ConfigConverges == focus = "switch" => Switch!ConfigConverges

\* checkDelayedHost: a delayed host gets its turn.
DelayedHostsProceed == focus = "capacity" => Slots!DelayedHostsProceed
=============================================================================
