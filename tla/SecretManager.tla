---------------------------- MODULE SecretManager ----------------------------
(***************************************************************************)
(* The secrets that hosts refer to.                                        *)
(*                                                                         *)
(* SecretManager labels a secret so that the filtered cache holds it, and  *)
(* may make a host its owner and put a finalizer on it; a host releases    *)
(* the finalizer at the end of its own deletion. The module follows one    *)
(* secret, of BMC credentials or of preprovisioning network data, that     *)
(* several hosts may share. Other controllers claim it without finalizer,  *)
(* users delete, recreate and break it, updates meet conflicts, and the    *)
(* cache lags behind.                                                      *)
(***************************************************************************)
EXTENDS Integers

CONSTANTS
    SharingHosts,    \* the hosts that refer to the secret
    Uses,            \* what for: subset of {"bmc", "network"}
    MaxSecretEdits,  \* bound on the users' steps
    MaxSecretFaults  \* bound on failed updates and reads

VARIABLES
    use,          \* what the secret is for
    secret,       \* the secret
    cachedSecret, \* the filtered cache's copy
    secretFresh,  \* is it the latest?
    hostStage,    \* the hosts: managed, deleting (State deleting), gone
    holders,      \* hosts whose claim of this secret with a finalizer was accepted
    secretBudget

secretVars == <<use, secret, cachedSecret, secretFresh, hostStage, holders, secretBudget>>

NoSecret == [exists |-> FALSE, label |-> FALSE, owners |-> {}, finalizer |-> FALSE,
             deleting |-> FALSE, valid |-> FALSE]

Init ==
    /\ use \in Uses
    /\ secret = [NoSecret EXCEPT !.exists = TRUE, !.valid = TRUE]
    /\ cachedSecret = NoSecret /\ secretFresh = TRUE
    /\ hostStage = [h \in SharingHosts |-> "managed"]
    /\ holders = {}
    /\ secretBudget = [edits |-> MaxSecretEdits, faults |-> MaxSecretFaults]

SecretFault ==
    /\ secretBudget.faults > 0
    /\ secretBudget' = [secretBudget EXCEPT !.faults = @ - 1]

\* The API server drops a deleted object once nothing finalizes it.
Stored(s) == IF s.deleting /\ ~s.finalizer THEN NoSecret ELSE s

StoreSecret(s) ==
    /\ secret' = Stored(s)
    /\ secretFresh' = FALSE

(***************************************************************************)
(* findSecret: the cache has labelled secrets only; the API server is      *)
(* asked for the others, and its answer is never old.                      *)
(***************************************************************************)
FindSecret == IF cachedSecret.exists THEN cachedSecret ELSE secret

UpToDate == secretFresh \/ ~cachedSecret.exists

\* claimSecret of copy s: label, owner and finalizer; owner is {} for none.
ClaimWithoutFinalizer(s, owner, addFinalizer) ==
    [s EXCEPT !.label = TRUE, !.owners = @ \cup owner,
              !.finalizer = @ \/ (addFinalizer /\ ~s.label)]

Claimed(s, owner, addFinalizer) ==
    [s EXCEPT !.label = TRUE, !.owners = @ \cup owner, !.finalizer = @ \/ addFinalizer]

\* A claim succeeds when it has nothing to write, or what it writes is accepted.
ClaimSucceeds(s, owner, addFinalizer) ==
    s.exists /\ (Claimed(s, owner, addFinalizer) = s \/ UpToDate)

\* The claims of Reconcile make the host an owner of its BMC secret only. (The
\* images' code makes hosts and images owners of network data as well; all this
\* adds is that the garbage collector may remove what any user may remove.)
OwnerRef(h) == IF use = "bmc" THEN {h} ELSE {}

(***************************************************************************)
(* Every reconcile of a managed host claims the secret. A failure is       *)
(* reported (bmc) or only logged (network), and the next pass tries again. *)
(***************************************************************************)
ClaimForHost(h) ==
    /\ hostStage[h] = "managed"
    /\ ClaimSucceeds(FindSecret, OwnerRef(h), TRUE)
    /\ IF Claimed(FindSecret, OwnerRef(h), TRUE) = FindSecret
       THEN UNCHANGED <<secret, secretFresh>>
       ELSE StoreSecret(Claimed(FindSecret, OwnerRef(h), TRUE))
    /\ holders' = holders \cup {h}
    /\ UNCHANGED <<use, cachedSecret, hostStage, secretBudget>>

\* The PreprovisioningImage, switch and image-auth code claim it without finalizer.
ClaimElsewhere ==
    /\ ClaimSucceeds(FindSecret, {}, FALSE)
    /\ ~FindSecret.label
    /\ StoreSecret(Claimed(FindSecret, {}, FALSE))
    /\ UNCHANGED <<use, cachedSecret, hostStage, holders, secretBudget>>

(***************************************************************************)
(* The last pass of a host that is being deleted, once prov.Delete is      *)
(* done. With State deleting the claim asks for no finalizer.              *)
(***************************************************************************)
\* buildAndValidateBMCCredentials fails on a missing or invalid secret and on
\* any failed claim; the deletion goes on with an empty secret instead.
\* Network data may be missing; any other failure is returned and retried.
ProceedsWhenFound(h) == ClaimSucceeds(FindSecret, OwnerRef(h), FALSE)

ProceedsWithout(h) ==
    \/ use = "bmc" /\ ~(ClaimSucceeds(FindSecret, OwnerRef(h), FALSE) /\ FindSecret.valid)
    \/ ~FindSecret.exists

\* ReleaseSecret of the copy that was claimed.
Release(s) == [s EXCEPT !.finalizer = FALSE]

\* Claim, release and removal of the host's finalizer, where nothing fails.
ReleaseForHost(h) ==
    LET s == Claimed(FindSecret, OwnerRef(h), FALSE)
    IN  /\ hostStage[h] = "deleting"
        /\ ProceedsWhenFound(h) /\ (use = "bmc" => FindSecret.valid)
        /\ s.finalizer => UpToDate
        /\ IF Release(s) = FindSecret
           THEN UNCHANGED <<secret, secretFresh>>
           ELSE StoreSecret(Release(s))
        /\ \/ hostStage' = [hostStage EXCEPT ![h] = "gone"] /\ UNCHANGED secretBudget
           \/ SecretFault /\ UNCHANGED hostStage
        /\ UNCHANGED <<use, cachedSecret, holders>>

DeletionNeedsSecret(h) == FALSE

\* The deletion goes on without the secret: ReleaseSecret gets an empty one.
DeleteWithoutSecret(h) == ProceedsWithout(h)

\* A read or a claim that fails for any other reason counts as a fault.
FinishWithoutSecret(h) ==
    /\ hostStage[h] = "deleting"
    /\ \/ DeleteWithoutSecret(h) /\ UNCHANGED secretBudget
       \/ use = "bmc" /\ SecretFault
    /\ hostStage' = [hostStage EXCEPT ![h] = "gone"]
    /\ UNCHANGED <<use, secret, cachedSecret, secretFresh, holders>>

(***************************************************************************)
(* The cache, the users and the garbage collector.                         *)
(***************************************************************************)
SyncSecret ==
    /\ ~secretFresh
    /\ cachedSecret' = IF secret.label THEN secret ELSE NoSecret
    /\ secretFresh' = TRUE
    /\ UNCHANGED <<use, secret, hostStage, holders, secretBudget>>

EditSecret ==
    /\ secretBudget.edits > 0
    /\ secretBudget' = [secretBudget EXCEPT !.edits = @ - 1]

DeleteHost(h) ==
    /\ hostStage[h] = "managed"
    /\ hostStage' = [hostStage EXCEPT ![h] = "deleting"]
    /\ UNCHANGED <<use, secret, cachedSecret, secretFresh, holders, secretBudget>>

DeleteSecret ==
    /\ EditSecret /\ secret.exists /\ ~secret.deleting
    /\ StoreSecret([secret EXCEPT !.deleting = TRUE])
    /\ UNCHANGED <<use, cachedSecret, hostStage, holders>>

CreateSecret ==
    /\ EditSecret /\ ~secret.exists
    /\ StoreSecret([NoSecret EXCEPT !.exists = TRUE, !.valid = TRUE])
    /\ holders' = {}
    /\ UNCHANGED <<use, cachedSecret, hostStage>>

\* The credentials are emptied or filled in again.
ChangeSecret ==
    /\ EditSecret /\ secret.exists
    /\ StoreSecret([secret EXCEPT !.valid = ~@])
    /\ UNCHANGED <<use, cachedSecret, hostStage, holders>>

\* The garbage collector deletes a secret whose owners are all gone.
CollectGarbage ==
    /\ secret.exists /\ ~secret.deleting
    /\ secret.owners # {} /\ \A h \in secret.owners : hostStage[h] = "gone"
    /\ StoreSecret([secret EXCEPT !.deleting = TRUE])
    /\ UNCHANGED <<use, cachedSecret, hostStage, holders, secretBudget>>

ReconcileHost(h) == ClaimForHost(h) \/ ReleaseForHost(h) \/ FinishWithoutSecret(h)

Next ==
    \/ \E h \in SharingHosts : ReconcileHost(h) \/ DeleteHost(h)
    \/ ClaimElsewhere \/ SyncSecret
    \/ DeleteSecret \/ CreateSecret \/ ChangeSecret \/ CollectGarbage

Spec == Init /\ [][Next]_secretVars

(***************************************************************************)
(* Properties.                                                             *)
(***************************************************************************)
\* "claims the Secret [...] with a finalizer so it is not removed before the
\* host finishes deletion": as long as none of the hosts that share it is being
\* deleted, a secret that a managed host holds cannot go.
RemovalStep ==
    (secret.exists /\ ~secret'.exists /\ holders # {})
        => \E h \in SharingHosts : hostStage[h] # "managed"
SecretIsKept == [][RemovalStep]_secretVars

\* The same for each host, whatever the others that share its secret do.
SecretIsKeptForAll ==
    [][(secret.exists /\ ~secret'.exists)
        => \A h \in holders : hostStage[h] # "managed"]_secretVars

\* A host's deletion ends, whatever became of its secret: missing, invalid,
\* deleted and recreated, or claimed by others at the same time.
HostDeletionEnds == \A h \in SharingHosts : hostStage[h] = "deleting" ~> hostStage[h] = "gone"

\* "Remove finalizer to allow deletion": the last host leaves no finalizer behind.
SecretIsReleased ==
    []<>(secret.finalizer => \E h \in SharingHosts : hostStage[h] # "gone")
=============================================================================
