------------------------- MODULE BMCEventSubscription -------------------------
(***************************************************************************)
(* A subscription to the events of a host's BMC.                           *)
(*                                                                         *)
(* The controller adds a finalizer, has Ironic create the subscription in  *)
(* the BMC, and then records its ID in the status; a deleted resource has  *)
(* the recorded ID removed from the BMC before its finalizer goes. Calls   *)
(* fail, saves conflict or are lost, the operator restarts in between, and *)
(* the cache lags behind the controller's own writes. The webhook sees     *)
(* every update of the resource, the controller's included.                *)
(*                                                                         *)
(* The BMC refuses to remove an ID that it does not know: the controller   *)
(* passes on whatever the status holds, an empty ID too, and treats every  *)
(* error alike.                                                            *)
(***************************************************************************)
EXTENDS Integers

CONSTANTS
    HeaderChoices,     \* do the subscriptions refer to a secret with HTTP headers?
    MaxSubEdits,       \* bound on the users' steps
    MaxSubFaults       \* bound on failed calls, lost saves and creations from a stale copy

VARIABLES
    sub,       \* the BMCEventSubscription
    seenSub,   \* the cache's copy
    subFresh,  \* is it the latest?
    pass,      \* a reconcile that has created a subscription and not saved it
    bmc,       \* IDs of the subscriptions in the BMC
    created,   \* how many were ever created
    cluster,   \* does the host exist, does the headers' secret?
    subBudget

subVars == <<sub, seenSub, subFresh, pass, bmc, created, cluster, subBudget>>

NoSub == [exists |-> FALSE, deleting |-> FALSE, finalizer |-> FALSE, headers |-> FALSE, id |-> 0]
NoPass == [active |-> FALSE, fresh |-> FALSE, id |-> 0]

Init ==
    /\ \E h \in HeaderChoices : sub = [NoSub EXCEPT !.exists = TRUE, !.headers = h]
    /\ seenSub = NoSub /\ subFresh = FALSE
    /\ pass = NoPass
    /\ bmc = {} /\ created = 0
    /\ cluster \in [host : BOOLEAN, secret : BOOLEAN]
    /\ subBudget = [edits |-> MaxSubEdits, faults |-> MaxSubFaults]

Fault ==
    /\ subBudget.faults > 0
    /\ subBudget' = [subBudget EXCEPT !.faults = @ - 1]

\* ValidateUpdate refuses a changed spec, and compares the specs with !=: two
\* decoded specs with a reference to a secret never have equal pointers.
ValidateUpdate(new) == ~new.headers

Stored(new) == IF new.deleting /\ ~new.finalizer THEN NoSub ELSE new

(***************************************************************************)
(* Reconcile of a subscription that is not being deleted.                  *)
(***************************************************************************)
HostFound == seenSub.exists /\ cluster.host /\ ~pass.active

\* addFinalizer: after its update the pass goes on with the new version.
AddFinalizer ==
    IF seenSub.finalizer
    THEN UNCHANGED <<sub, subFresh>>
    ELSE /\ subFresh /\ ValidateUpdate(seenSub)
         /\ sub' = [sub EXCEPT !.finalizer = TRUE]
         /\ subFresh' = FALSE

FinalizerMeansCreated == seenSub.finalizer

AlreadyExists == seenSub.id # 0

\* createSubscription up to the answer of the BMC.
CreateSubscription ==
    /\ HostFound /\ ~seenSub.deleting
    /\ ~AlreadyExists
    /\ seenSub.headers => cluster.secret
    /\ AddFinalizer
    /\ created' = created + 1
    /\ bmc' = bmc \cup {created'}
    /\ pass' = [active |-> TRUE, fresh |-> subFresh,
                id |-> created']
    /\ IF subFresh THEN UNCHANGED subBudget ELSE Fault
    /\ UNCHANGED <<seenSub, cluster>>

\* The secret is missing or the call fails: the finalizer stays, and
\* createSubscription or handleError writes the error into the status, which
\* makes the copies of the resource stale.
CreationFails ==
    /\ HostFound /\ ~seenSub.deleting /\ ~AlreadyExists
    /\ IF seenSub.headers /\ ~cluster.secret THEN UNCHANGED subBudget ELSE Fault
    /\ \/ AddFinalizer
       \/ /\ seenSub.finalizer /\ subFresh
          /\ subFresh' = FALSE /\ UNCHANGED sub
    /\ UNCHANGED <<seenSub, pass, bmc, created, cluster>>

SaveID == [sub EXCEPT !.id = pass.id]

\* The status is saved. After a conflict handleError saves it again, the ID
\* included, and meets the same conflict; a lost save or a restart loses the ID.
SaveSubscription ==
    /\ pass.active
    /\ pass' = NoPass
    /\ \/ /\ pass.fresh
          /\ sub' = SaveID /\ subFresh' = FALSE
          /\ UNCHANGED subBudget
       \/ /\ ~pass.fresh
          /\ UNCHANGED <<sub, subFresh, subBudget>>
       \/ /\ pass.fresh /\ Fault
          /\ UNCHANGED <<sub, subFresh>>
    /\ UNCHANGED <<seenSub, bmc, created, cluster>>

(***************************************************************************)
(* Reconcile of a subscription that is being deleted.                      *)
(***************************************************************************)
ToDeleteUnrecorded == seenSub.deleting /\ seenSub.finalizer /\ ~AlreadyExists

ToDelete == seenSub.deleting /\ seenSub.finalizer

RemoveNothing == bmc

\* RemoveBMCEventSubscriptionForNode, whatever ID the status holds.
RemoveFromBMC == bmc \ {seenSub.id}

DeleteSubscription ==
    /\ HostFound /\ ToDelete
    /\ seenSub.id \in bmc
    /\ bmc' = RemoveFromBMC
    /\ \/ /\ subFresh /\ ValidateUpdate(seenSub)
          /\ sub' = Stored([sub EXCEPT !.finalizer = FALSE]) /\ subFresh' = FALSE
          /\ UNCHANGED subBudget
       \/ /\ ~subFresh
          /\ UNCHANGED <<sub, subFresh, subBudget>>
       \/ /\ subFresh /\ Fault
          /\ UNCHANGED <<sub, subFresh>>
    /\ UNCHANGED <<seenSub, pass, created, cluster>>

\* The BMC does not know the ID, or the call fails: handleError writes the error
\* into the status, unless it is there already, and the finalizer stays.
RemovalFails ==
    /\ HostFound /\ ToDelete
    /\ IF seenSub.id \in bmc THEN Fault ELSE UNCHANGED subBudget
    /\ subFresh' \in {subFresh, FALSE}
    /\ UNCHANGED <<sub, seenSub, pass, bmc, created, cluster>>

(***************************************************************************)
(* The cache and the users.                                                *)
(***************************************************************************)
SyncSubscription ==
    /\ ~subFresh
    /\ seenSub' = sub /\ subFresh' = TRUE
    /\ UNCHANGED <<sub, pass, bmc, created, cluster, subBudget>>

EditSub == subBudget.edits > 0 /\ subBudget' = [subBudget EXCEPT !.edits = @ - 1]

\* Deleting the resource; an annotation, which the webhook lets pass or not.
EditSubscription ==
    /\ EditSub /\ sub.exists
    /\ \/ ~sub.deleting /\ sub' = Stored([sub EXCEPT !.deleting = TRUE])
       \/ ValidateUpdate(sub) /\ sub' = sub
    /\ subFresh' = FALSE
    /\ pass' = [pass EXCEPT !.fresh = FALSE]
    /\ UNCHANGED <<seenSub, bmc, created, cluster>>

EditCluster ==
    /\ EditSub
    /\ cluster' \in {[cluster EXCEPT !.host = ~@], [cluster EXCEPT !.secret = ~@]}
    /\ UNCHANGED <<sub, seenSub, subFresh, pass, bmc, created>>

ReconcileSubscription ==
    \/ CreateSubscription \/ CreationFails \/ SaveSubscription
    \/ DeleteSubscription \/ RemovalFails

Next == ReconcileSubscription \/ SyncSubscription \/ EditSubscription \/ EditCluster

Spec == Init /\ [][Next]_subVars

(***************************************************************************)
(* Properties.                                                             *)
(***************************************************************************)
\* "block delete operations until the subscription is removed from the BMC": a
\* resource disappears only once the ID it records is gone from the BMC.
RemovalStep == (sub.exists /\ ~sub'.exists) => sub.id \notin bmc'
RecordedSubscriptionIsRemoved == [][RemovalStep]_subVars

\* No subscription is left in the BMC without a resource that records it.
NoLeakedSubscription ==
    bmc \subseteq {sub.id} \cup (IF pass.active THEN {pass.id} ELSE {})

\* A subscription is created and recorded, while its host and secret are there.
SubscriptionRecorded ==
    []<>(\/ ~sub.exists \/ sub.deleting \/ sub.id # 0
         \/ ~cluster.host \/ (sub.headers /\ ~cluster.secret))

\* A subscription that the resource records leaves the BMC once the resource is
\* deleted, while its host is there. The resource itself may stay for ever: when
\* its finalizer could not be removed in the same reconcile, or no ID was ever
\* recorded, every later removal is of an ID that the BMC does not know.
DeletedSubscriptionLeavesBMC == []<>(~(sub.deleting /\ sub.id \in bmc) \/ ~cluster.host)
=============================================================================
