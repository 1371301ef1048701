---------------------------- MODULE Subresources ----------------------------
(***************************************************************************)
(* The smaller controllers side by side. They share no state in the model: *)
(* a behaviour picks one of them (focus) and only that one moves, so its   *)
(* properties are those of the controllers themselves, for every choice of *)
(* their constants.                                                        *)
(***************************************************************************)
EXTENDS Integers

CONSTANTS
    Foci,               \* the controllers to look at
    \* HostClaim
    Claims, Hosts, Labels, HostNamespace, ClaimSpec, PolicySets,
    BadRegexp, NoHost, Nobody, Other, AnyNamespace, MaxHostEdits, MaxLost,
    \* PreprovisioningImage
    WantedSpecs, SupportedFormats, Unsupported, Unbuildable, NoConfig,
    MaxImageEdits, MaxImageFaults,
    \* DataImage
    Urls, NoUrl, DataOps, MaxDataEdits, MaxDataFaults,
    \* BMCEventSubscription
    HeaderChoices, MaxSubEdits, MaxSubFaults,
    \* SecretManager
    SharingHosts, Uses, MaxSecretEdits, MaxSecretFaults,
    \* BareMetalSwitch
    Switches, SwitchWorkers, MaxSwitchEdits, MaxSwitchFaults,
    \* Capacity
    BusyHosts, VirtualMedia, MaxBusyHosts, HostWorkers, MaxJobs

VARIABLES focus,
          bmhs, listed, outdated, claims, policies, claimBudget,
          wanted, img, seenImg, imgFresh, networkSecret, built, imgBudget,
          di, seenDi, diFresh, reading, power, media, queued, dataBudget,
          sub, seenSub, subFresh, pass, bmc, created, cluster, subBudget,
          use, secret, cachedSecret, secretFresh, hostStage, holders, secretBudget,
          switches, credentials, valid, switchQueue, work, generated, cached, switchBudget,
          hostPhase, delayed, granted, nodeBusy, jobs

claimVars == <<bmhs, listed, outdated, claims, policies, claimBudget>>
imgVars == <<wanted, img, seenImg, imgFresh, networkSecret, built, imgBudget>>
dataVars == <<di, seenDi, diFresh, reading, power, media, queued, dataBudget>>
subVars == <<sub, seenSub, subFresh, pass, bmc, created, cluster, subBudget>>
secretVars == <<use, secret, cachedSecret, secretFresh, hostStage, holders, secretBudget>>
switchVars ==
    <<switches, credentials, valid, switchQueue, work, generated, cached, switchBudget>>
capacityVars == <<hostPhase, delayed, granted, nodeBusy, jobs>>

vars == <<focus, claimVars, imgVars, dataVars, subVars, secretVars, switchVars, capacityVars>>

Claim == INSTANCE HostClaim
Image == INSTANCE PreprovisioningImage WITH secret <- networkSecret
Data == INSTANCE DataImage
Subscription == INSTANCE BMCEventSubscription
Secrets == INSTANCE SecretManager
Switch == INSTANCE BareMetalSwitch
Slots == INSTANCE Capacity

Init ==
    /\ focus \in Foci
    /\ Claim!Init
    /\ Image!Init
    /\ Data!Init
    /\ Subscription!Init
    /\ Secrets!Init
    /\ Switch!Init
    /\ Slots!Init

Next ==
    /\ UNCHANGED focus
    /\ IF focus = "claim" THEN Claim!Next ELSE UNCHANGED claimVars
    /\ IF focus = "image" THEN Image!Next ELSE UNCHANGED imgVars
    /\ IF focus = "data" THEN Data!Next ELSE UNCHANGED dataVars
    /\ IF focus = "subscription" THEN Subscription!Next ELSE UNCHANGED subVars
    /\ IF focus = "secret" THEN Secrets!Next ELSE UNCHANGED secretVars
    /\ IF focus = "switch" THEN Switch!Next ELSE UNCHANGED switchVars
    /\ IF focus = "capacity" THEN Slots!Next ELSE UNCHANGED capacityVars

Spec == Init /\ [][Next]_vars

(***************************************************************************)
(* Safety, each of the controller it is about.                             *)
(***************************************************************************)
\* Associate: the host that the status of a claim names has this claim as its
\* consumer, although several claims and other consumers go for one host.
ClaimedHostIsBooked == Claim!ClaimedHostIsBooked

\* update of the PreprovisioningImage: the provider never holds an image that the
\* status does not describe, so that every image is discarded in the end.
ImageCacheCannotLeak == Image!ImageCacheCannotLeak

\* preprovImageAvailable: what the host accepts is still held by the provider.
HostBootsExistingImage == Image!HostBootsExistingImage

\* handleDataImageActions: no host is powered on while Ironic still attaches or
\* detaches, with any image left of a DataImage that is being deleted, or with an
\* empty drive although an image is asked for.
PowerOnWithSettledDrive == [][Data!PowerOnStep]_dataVars

\* deleteSubscription: a resource disappears only once the ID it records is gone
\* from the BMC.
RecordedSubscriptionIsRemoved == [][Subscription!RemovalStep]_subVars

\* claimSecret: a secret that a host holds does not go before one of the hosts
\* that share it is deleted.
SecretIsKept == [][Secrets!RemovalStep]_secretVars

\* HasCapacity: the hosts being (de)provisioned exceed the limit by fewer than
\* the concurrent reconciles.
BusyBound == Slots!BusyBound
=============================================================================
