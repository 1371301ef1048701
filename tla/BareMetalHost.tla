---------------------------- MODULE BareMetalHost ----------------------------
(***************************************************************************)
(* The BareMetalHost controller (internal/controller/metal3.io): one       *)
(* BareMetalHost object, the reconciler that moves it through its          *)
(* provisioning states, the Ironic node that represents it and the         *)
(* machine behind it.                                                      *)
(*                                                                         *)
(* One Reconcile is one step.  It reads the object from the informer cache *)
(* (`cache', which may lag behind `host'), calls the provisioner, and      *)
(* writes the object back at its end.  The write is refused when the cache *)
(* was stale (resourceVersion conflict) and can be lost (API failure, or   *)
(* the operator stops before it); what was done to Ironic stays done.      *)
(***************************************************************************)
EXTENDS Ironic

CONSTANTS
    UserOps,      \* the edits users may make
    Faults,       \* the kinds of fault that may happen
    MaxEdits,     \* bound: user edits in a behaviour
    MaxFaults     \* bound: faults in a behaviour

ASSUME BoundsAssumption == MaxEdits \in Nat /\ MaxFaults \in Nat

VARIABLES
    host,       \* the object in the API server
    cache,      \* the copy of it the controller's cache holds
    node,       \* its node in Ironic
    machine,    \* the machine
    secret,     \* version of the BMC credentials secret, 0 when there is none
    slot,       \* some busy slot is left by the other hosts (MaxBusyHosts)
    edits, faults

vars == <<host, cache, node, machine, secret, slot, edits, faults>>

retryCount == 3

States == {"none", "unmanaged", "registering", "inspecting", "preparing", "available",
           "provisioning", "provisioned", "externally provisioned", "deprovisioning",
           "powering off before delete", "deleting"}

ErrorTypes == {"none", "registration error", "inspection error", "preparation error",
               "provisioning error", "provisioned registration error",
               "power management error"}

OperationalStatuses == {"", "OK", "error", "delayed", "detached", "discovered"}

\* The states whose operations count against the busy limit.
Limited == {"inspecting", "provisioning", "deprovisioning"}

\* Values of the detached annotation: absent, plain, forced, delaying deletion.
Detachments == {"absent", "plain", "force", "delay"}

(***************************************************************************)
(* The object.  Metadata: exists, fin (our finalizer), deleting            *)
(* (deletionTimestamp), detach and refresh (annotations).  Spec: bmc       *)
(* (BMC details are set), image, ext (externallyProvisioned), inspect      *)
(* (inspection is not disabled), online, raid (the volumes asked for).     *)
(* Status: the rest; pimage and praid are the image and the RAID           *)
(* configuration of status.provisioning, id is the UUID of the Ironic node,*)
(* tried and good are the credentials last tried and last accepted,        *)
(* profile: the hardware profile and its root device hints are recorded,   *)
(* open: the operation history has a registration that did not end.        *)
(***************************************************************************)
Hosts == [exists: BOOLEAN, fin: BOOLEAN, deleting: BOOLEAN, detach: Detachments,
          refresh: BOOLEAN, bmc: BOOLEAN, image: MaybeImage, ext: BOOLEAN,
          inspect: BOOLEAN, online: BOOLEAN, raid: RAIDs,
          state: States, op: OperationalStatuses, errType: ErrorTypes,
          errCount: 0..retryCount + 1, id: Nat, pimage: MaybeImage, praid: RecordedRAIDs,
          powered: BOOLEAN, tried: Nat, good: Nat, profile: BOOLEAN, open: BOOLEAN]

TypeOK ==
    /\ host \in Hosts
    /\ cache \in Hosts
    /\ node \in Nodes
    /\ machine \in Machines
    /\ secret \in Nat
    /\ slot \in BOOLEAN
    /\ edits \in 0..MaxEdits
    /\ faults \in 0..MaxFaults

NewHost(bmc, image, ext, inspect) ==
    [exists |-> TRUE, fin |-> FALSE, deleting |-> FALSE, detach |-> "absent",
     refresh |-> FALSE, bmc |-> bmc, image |-> image, ext |-> ext,
     inspect |-> inspect, online |-> TRUE, raid |-> "none",
     state |-> "none", op |-> "", errType |-> "none",
     errCount |-> 0, id |-> 0, pimage |-> NoImage, praid |-> "none",
     powered |-> FALSE, tried |-> 0, good |-> 0, profile |-> FALSE, open |-> FALSE]

Init ==
    /\ \E bmc \in (IF "bmc" \in UserOps THEN BOOLEAN ELSE {TRUE}),
          image \in MaybeImage,
          ext \in (IF "ext" \in UserOps THEN BOOLEAN ELSE {FALSE}),
          inspect \in (IF "inspect" \in UserOps THEN BOOLEAN ELSE {TRUE}) :
             /\ host = NewHost(bmc, image, ext, inspect)
             /\ machine = [disk |-> IF ext THEN Foreign ELSE Blank,
                           power |-> IF ext THEN "on" ELSE "off",
                           raid |-> "none"]
    /\ cache = host
    /\ node = FreshNode("absent", 0)
    /\ secret = 1
    /\ slot = TRUE
    /\ edits = 0
    /\ faults = 0

-----------------------------------------------------------------------------
(***************************************************************************)
(* Status helpers.                                                         *)
(***************************************************************************)
\* Mutant of ClearError: the error type survives.
ClearErrorStatus(h) == [h EXCEPT !.op = "OK"]

ClearError(h) == [h EXCEPT !.op = "OK", !.errType = "none"]

\* recordActionFailure; errCount stops at the first value above retryCount.
Fail(h, type) ==
    [h EXCEPT !.op = "error", !.errType = type,
              !.errCount = IF @ > retryCount THEN @ ELSE @ + 1]

ResetErrors(h) == [h EXCEPT !.errCount = 0]

\* clearHostProvisioningSettings forgets the software volumes and the root device
\* hints, and keeps the hardware volumes "to avoid configuring the same hardware RAID
\* repeatedly".
Cleared(r) ==
    CASE r = "none" -> "none"
      [] Volumes(r) = "hardware" -> "hardware"
      [] OTHER -> "cleared"

\* Mutant of ClearSettings: the software volumes stay on record too.
ClearHintsOnly(h) == [h EXCEPT !.profile = FALSE]

ClearSettings(h) == [h EXCEPT !.praid = Cleared(@), !.profile = FALSE]

\* What saveHostProvisioningSettings records: without spec.raid the hardware volumes
\* are kept and the software volumes go.
TargetRAID(h) ==
    CASE h.raid # "none" -> h.raid
      [] h.raid = "none" /\ h.praid = "none" -> "none"
      [] h.raid = "none" /\ Volumes(h.praid) = "hardware" -> "kept"
      [] OTHER -> "empty"

SettingsDirty(h) == TargetRAID(h) # h.praid

\* After a failed cleaning actionPreparing takes the RAID of the machine for unknown.
ActualRAID(h) == IF h.errType = "preparation error" THEN "none" ELSE h.praid

NeedsProvisioning(h) == h.online /\ h.image # NoImage /\ h.pimage = NoImage

\* Mutant of ProvisioningCancelled: an image that was removed is not noticed.
ImageReplaced(h) == h.pimage # NoImage /\ h.image # h.pimage

ProvisioningCancelled(h) ==
    \/ h.image = NoImage
    \/ h.pimage # NoImage /\ h.image # h.pimage

HasCapacity(n) == slot \/ n.ps \in Busy

(***************************************************************************)
(* updateHostStateFrom: the state changes at the end of the reconcile,     *)
(* unless it needs a busy slot and there is none: then the host is delayed *)
(* and stays in its state.  Entering and leaving Registering begins and    *)
(* ends a registration on record.                                          *)
(***************************************************************************)
MoveTo(h, state, n) ==
    IF state \in Limited /\ ~HasCapacity(n)
      THEN [h EXCEPT !.op = "delayed"]
      ELSE [h EXCEPT !.state = state,
                     !.open = state = "registering" \/ (@ /\ h.state # "registering")]

(***************************************************************************)
(* The end of a reconcile whose provisioner calls had the outcome `o'.     *)
(* Commit writes h (the result is Dirty); Discard writes nothing (the      *)
(* result is an error, or has nothing to save).                            *)
(***************************************************************************)
Spend(f) == faults + f <= MaxFaults /\ faults' = faults + f

CallFaults(o) == o.f = 0 \/ "call" \in Faults

Commit(o, h) ==
    /\ CallFaults(o)
    /\ node' = o.n
    /\ \/ cache = host /\ host' = h /\ Spend(o.f)
       \/ cache # host /\ host' = host /\ Spend(o.f)
       \/ "save" \in Faults /\ cache = host /\ host' = host /\ Spend(o.f + 1)
    /\ UNCHANGED <<cache, machine, secret, slot, edits>>

Discard(o) ==
    /\ CallFaults(o)
    /\ node' = o.n
    /\ host' = host
    /\ Spend(o.f)
    /\ UNCHANGED <<cache, machine, secret, slot, edits>>

\* A reconcile that goes on waiting: what it did not think worth saving is saved all
\* the same when computeConditions finds a condition changed (the health or the power
\* fault that Ironic reports).
CommitIfChanged(o, h, old) ==
    \/ h = old /\ Discard(o)
    \/ (h # old \/ h # cache) /\ Commit(o, h)

\* A reconcile that does not call the provisioner.
NoCall == Out(node, "complete")

-----------------------------------------------------------------------------
(***************************************************************************)
(* Reconcile, in the order of the code: each guard below says that the     *)
(* steps before it had nothing to do.                                      *)
(***************************************************************************)
AddFinalizer ==
    /\ cache.exists /\ ~cache.deleting /\ ~cache.fin
    /\ Commit(NoCall, [cache EXCEPT !.fin = TRUE])

Reconciling == cache.exists /\ cache.fin

HaveCreds == secret # 0 /\ cache.state \notin {"none", "unmanaged"}

\* credentialsErrorResult: the secret is missing.
CredentialsError ==
    /\ Reconciling
    /\ secret = 0 /\ ~cache.deleting /\ cache.state \notin {"none", "unmanaged"}
    /\ Commit(NoCall, Fail(cache, "registration error"))

\* Mutant of CredentialsResolved: a host that is deleted still needs its secret.
CredentialsRequired ==
    Reconciling /\ (secret # 0 \/ cache.state \in {"none", "unmanaged"})

CredentialsResolved ==
    Reconciling /\ (secret # 0 \/ cache.deleting \/ cache.state \in {"none", "unmanaged"})

\* checkDelayedHost.
Undelayed ==
    /\ CredentialsResolved
    /\ cache.op # "delayed"
    /\ cache.state \in Limited => HasCapacity(node)

CheckDelayedHost ==
    /\ CredentialsResolved
    /\ ~Undelayed
    /\ Commit(NoCall, IF HasCapacity(node) THEN ClearError(cache)
                                           ELSE [cache EXCEPT !.op = "delayed"])

\* checkInitiateDelete: the state a host that is being deleted goes to next.
DelayDelete == cache.op = "detached" /\ cache.detach \in {"absent", "delay"}

DeletionState ==
    LET s == cache.state
        givenUp == cache.errType = "registration error" /\ cache.errCount > 3
    IN CASE ~cache.deleting \/ s = "deleting" -> s
         [] cache.deleting /\ s # "deleting" /\ cache.op = "detached" ->
              IF DelayDelete THEN s ELSE "deleting"
         [] OTHER ->
              CASE s \in {"registering", "unmanaged", "none"} -> "deleting"
                [] s \in {"provisioning", "provisioned"} -> "deprovisioning"
                [] s \in {"deprovisioning", "powering off before delete"} ->
                     IF givenUp THEN "deleting" ELSE s
                [] OTHER -> "powering off before delete"

\* Deleting a detached host is delayed before the rest of the switch is reached.
Undeleted == Undelayed /\ DeletionState = cache.state

InitiateDelete ==
    /\ Undelayed
    /\ DeletionState # cache.state
    /\ Commit(NoCall, MoveTo(cache, DeletionState, node))

\* checkDetachedHost.
Detachable == {"provisioned", "externally provisioned", "available"}

\* Mutant of MustDetach: only a forced detachment is served.
MustDetachForced == cache.detach = "force" /\ cache.state # "deleting"

MustDetach ==
    /\ cache.detach # "absent"
    /\ cache.state # "deleting"
    /\ cache.state \in Detachable \/ cache.detach = "force"

DetachHost ==
    /\ Undeleted
    /\ MustDetach
    /\ \E o \in Detach(node, cache.id, cache.state \notin Detachable) :
          \/ o.r = "complete" /\ CommitIfChanged(o, [cache EXCEPT !.op = "detached"], cache)
          \/ o.r # "complete" /\ Discard(o)

Attached == Undeleted /\ ~MustDetach /\ cache.op # "detached"

ReattachHost ==
    /\ Undeleted /\ ~MustDetach /\ cache.op = "detached"
    /\ Commit(NoCall, [cache EXCEPT !.op = IF cache.errType = "none" THEN "OK" ELSE "error"])

(***************************************************************************)
(* ensureRegistered and registerHost.  A registration that succeeds        *)
(* without anything worth saving lets the state handler run: the ID and    *)
(* the credentials it recorded live only in memory until the handler's     *)
(* result is saved, and the handler still uses the ID the host was read    *)
(* with.                                                                   *)
(***************************************************************************)
MustRegister ==
    /\ HaveCreds
    /\ cache.state # "deleting"
    /\ ~(cache.state = "inspecting" /\ ~cache.inspect)

\* The registration is repeated for a reason: it is put on record.
Retrying ==
    cache.state # "registering" /\ (cache.errType = "registration error" \/ cache.good # secret)

Tried == [cache EXCEPT !.tried = secret, !.open = @ \/ Retrying]

\* Mutant of Identified: the new ID is not stored.
Unidentified(h, o) == h

\* The ID that Register reports, and what registerHost does with it.
Identified(h, o) ==
    IF o.n.ps = "absent" \/ h.id = o.n.uuid THEN h
    ELSE IF h.state = "preparing" THEN ClearSettings([h EXCEPT !.id = o.n.uuid])
         ELSE [h EXCEPT !.id = o.n.uuid]

\* Register succeeded and the profile is on record: the credentials are good.
Accepted(o) ==
    LET h == [Identified(Tried, o) EXCEPT !.good = secret,
                                          !.open = @ /\ cache.state = "registering"]
    IN IF cache.errType = "registration error" \/ cache.good # secret THEN ClearError(h) ELSE h

\* Mutant of RegistrationDirty: newly accepted credentials are not worth a save.
RegistrationDirtyOnError == cache.errType = "registration error"

\* An error was cleared, or a registration ended on record.  A new ID does not count.
RegistrationDirty ==
    \/ /\ cache.errType = "registration error" \/ cache.good # secret
       /\ ClearError(cache) # cache
    \/ Tried.open /\ cache.state # "registering"

RegisterHost ==
    /\ Attached
    /\ MustRegister
    /\ \E o \in Register(node, cache.tried # secret, cache.errType = "registration error") :
          LET h == Identified(Tried, o)
          IN
          \/ o.r = "error"  /\ Discard(o)
          \/ o.r = "failed" /\ Commit(o, Fail(Tried, "registration error"))
          \/ o.r = "dirty"  /\ CommitIfChanged(o, ClearError(h), [cache EXCEPT !.open = h.open])
          \/ o.r = "complete" /\ ~h.profile /\ Commit(o, [h EXCEPT !.profile = TRUE])
          \/ o.r = "complete" /\ h.profile /\ RegistrationDirty /\ Commit(o, Accepted(o))

\* registerHost had nothing to do, or nothing it thought worth saving.
Registered ==
    /\ Attached
    /\ MustRegister =>
         /\ node.ps \notin {"absent", "enroll", "verifying"}
         /\ Identified(Tried, NoCall).profile
         /\ ~RegistrationDirty

\* The host in memory when the state handler runs.
Current == IF MustRegister THEN Accepted(NoCall) ELSE cache

In(state) == Registered /\ cache.state = state

-----------------------------------------------------------------------------
(***************************************************************************)
(* The state handlers.                                                     *)
(***************************************************************************)
HandleNone ==
    /\ In("none")
    /\ Commit(NoCall, IF cache.bmc THEN MoveTo(cache, "registering", node)
                      ELSE MoveTo([cache EXCEPT !.op = "discovered"], "unmanaged", node))

HandleUnmanaged ==
    /\ In("unmanaged")
    /\ cache.bmc
    /\ Commit(NoCall, MoveTo(cache, "registering", node))

HandleRegistering ==
    /\ In("registering")
    /\ Commit(NoCall,
         MoveTo(ResetErrors(Current),
                CASE cache.ext -> "externally provisioned"
                  [] ~cache.ext /\ cache.inspect -> "inspecting"
                  [] OTHER -> "preparing", node))

\* The start of an inspection consumes the refresh annotation: that is a
\* write of the metadata only, the status in memory is dropped.
HandleInspecting ==
    /\ In("inspecting")
    /\ \/ /\ ~cache.inspect
          /\ Commit(NoCall, ResetErrors([Current EXCEPT !.state = "preparing"]))
       \/ /\ cache.inspect
          /\ \E o \in InspectHardware(node, cache.id, cache.errType = "inspection error",
                                      cache.refresh) :
                \/ o.r \in {"error", "unregistered"} /\ Discard(o)
                \/ o.r = "failed" /\ Commit(o, Fail(Current, "inspection error"))
                \/ /\ o.r = "started" /\ cache.refresh
                   /\ Commit(o, [cache EXCEPT !.refresh = FALSE])
                \/ /\ o.r = "dirty" \/ (o.r = "started" /\ ~cache.refresh)
                   /\ CommitIfChanged(o, ClearError(Current), Current)
                \/ /\ o.r = "complete"
                   /\ Commit(o, [ResetErrors(ClearError(Current)) EXCEPT !.state = "preparing"])

HandlePreparing ==
    LET dirty == SettingsDirty(cache) \/ cache.errType = "preparation error"
        saved == ClearError([Current EXCEPT !.praid = TargetRAID(cache)])
    IN
    /\ In("preparing")
    /\ \E o \in Prepare(node, cache.id, Volumes(TargetRAID(cache)), dirty,
                        HasRAIDSteps(TargetRAID(cache), ActualRAID(cache)),
                        cache.errType = "preparation error") :
          \/ o.r \in {"error", "unregistered"} /\ Discard(o)
          \/ /\ o.r = "failed"
             /\ Commit(o, Fail(IF dirty THEN ClearSettings(Current) ELSE Current,
                               "preparation error"))
          \/ o.r = "started" /\ Commit(o, saved)
          \/ o.r = "dirty" /\ dirty  /\ Commit(o, Current)
          \/ o.r = "dirty" /\ ~dirty /\ CommitIfChanged(o, Current, Current)
          \/ /\ o.r = "complete"
             /\ Commit(o, [ResetErrors(IF dirty THEN saved ELSE Current)
                             EXCEPT !.state = "available"])

(***************************************************************************)
(* manageHostPower: record the power state Ironic reports, then change it  *)
(* if it is not the one asked for.                                         *)
(***************************************************************************)
ManageHostPower ==
    LET discovered == machine.power = "on"
        forced == cache.errType = "power management error"
    IN
    \/ ~GetNode(node, cache.id) /\ Discard(NoCall)
    \/ /\ GetNode(node, cache.id)
       /\ discovered # cache.powered
       /\ Commit(NoCall, [(IF cache.op = "error" /\ forced THEN ClearError(Current) ELSE Current)
                            EXCEPT !.powered = discovered])
    \/ /\ GetNode(node, cache.id)
       /\ discovered = cache.powered
       /\ cache.powered # cache.online
       /\ \E o \in (IF cache.online THEN PowerOn(node, cache.id, machine.power, forced)
                                     ELSE PowerOff(node, cache.id, machine.power, forced)) :
             \/ o.r \in {"error", "unregistered"} /\ Discard(o)
             \/ o.r = "failed" /\ Commit(o, Fail(Current, "power management error"))
             \/ o.r = "dirty"  /\ CommitIfChanged(o, ClearError(Current), Current)
             \/ /\ o.r = "complete"
                /\ Commit(o, ResetErrors([Current EXCEPT !.powered = cache.online]))

\* actionManageSteadyState: Adopt, then manage the power.
ManageSteadyState ==
    \E o \in Adopt(node, cache.id, cache.state,
                   cache.errType = "provisioned registration error") :
        \/ o.r \in {"error", "unregistered"} /\ Discard(o)
        \/ o.r = "failed" /\ Commit(o, Fail(Current, "provisioned registration error"))
        \/ o.r = "dirty"  /\ CommitIfChanged(o, ClearError(Current), Current)
        \/ o.r = "complete" /\ ManageHostPower

HandleExternallyProvisioned ==
    /\ In("externally provisioned")
    /\ \/ cache.ext /\ ManageSteadyState
       \/ /\ ~cache.ext
          /\ Commit(NoCall, [Current EXCEPT !.pimage = IF cache.image = NoImage THEN @
                                                       ELSE cache.image,
                                            !.state = "provisioned"])

\* actionManageAvailable is the last branch.
HandleAvailable ==
    /\ In("available")
    /\ \/ /\ cache.ext
          /\ Commit(NoCall, MoveTo(ClearSettings(Current), "externally provisioned", node))
       \/ /\ ~cache.ext /\ cache.refresh
          /\ Commit(NoCall, MoveTo(Current, "inspecting", node))
       \/ /\ ~cache.ext /\ ~cache.refresh /\ SettingsDirty(cache)
          /\ Commit(NoCall, MoveTo(Current, "preparing", node))
       \/ /\ ~cache.ext /\ ~cache.refresh /\ ~SettingsDirty(cache)
          /\ \/ /\ NeedsProvisioning(cache)
                /\ Commit(NoCall, MoveTo(ClearError(Current), "provisioning", node))
             \/ ~NeedsProvisioning(cache) /\ ManageHostPower

HandleProvisioning ==
    /\ In("provisioning")
    /\ \/ /\ cache.errType # "none" \/ ProvisioningCancelled(cache)
          /\ Commit(NoCall, MoveTo(Current, "deprovisioning", node))
       \/ /\ cache.errType = "none" /\ ~ProvisioningCancelled(cache)
          /\ \E o \in Provision(node, cache.id, cache.image) :
                \/ o.r \in {"error", "unregistered"} /\ Discard(o)
                \/ o.r = "failed" /\ Commit(o, Fail(Current, "provisioning error"))
                \/ o.r = "dirty"  /\ CommitIfChanged(o, ClearError(Current), Current)
                \/ /\ o.r = "complete"
                   /\ Commit(o, ResetErrors([Current EXCEPT !.pimage = cache.image,
                                                            !.state = "provisioned"]))

(***************************************************************************)
(* handleDeprovisioning around actionDeprovisioning: Adopt when an image   *)
(* was provisioned, then Deprovision.  A host that is being deleted goes   *)
(* on after retryCount failures, or when neither its node nor its          *)
(* credentials exist any more.                                             *)
(***************************************************************************)
\* Mutant of FailedDeprovisioning: it gives up at the first failure.
FailedDeprovisioningOnce(o, type) ==
    LET h == Fail(Current, type)
    IN Commit(o, IF cache.deleting THEN [h EXCEPT !.state = "powering off before delete"]
                                   ELSE h)

FailedDeprovisioning(o, type) ==
    LET h == Fail(Current, type)
    IN Commit(o, IF cache.deleting /\ h.errCount > retryCount
                   THEN [h EXCEPT !.state = "powering off before delete"] ELSE h)

UnregisteredDeletion(o) ==
    LET skip == o.r = "unregistered" /\ ~HaveCreds /\ cache.deleting
    IN \/ skip /\ Commit(o, [Current EXCEPT !.state = "deleting"])
       \/ ~skip /\ Discard(o)

DeprovisionStep ==
    \E o \in Deprovision(node, cache.id, cache.errType = "provisioning error") :
        \/ o.r \in {"error", "unregistered"} /\ UnregisteredDeletion(o)
        \/ o.r = "failed" /\ FailedDeprovisioning(o, "provisioning error")
        \/ o.r = "dirty"  /\ CommitIfChanged(o, ClearError(Current), Current)
        \/ /\ o.r = "complete"
           /\ Commit(o, ResetErrors([ClearSettings(Current) EXCEPT
                         !.pimage = NoImage,
                         !.state = IF cache.deleting THEN "powering off before delete"
                                                     ELSE "available"]))

HandleDeprovisioning ==
    /\ In("deprovisioning")
    /\ \/ cache.pimage = NoImage /\ DeprovisionStep
       \/ /\ cache.pimage # NoImage
          /\ \E o \in Adopt(node, cache.id, cache.state,
                            cache.errType = "provisioned registration error") :
                \/ o.r \in {"error", "unregistered"} /\ UnregisteredDeletion(o)
                \/ o.r = "failed" /\ FailedDeprovisioning(o, "provisioned registration error")
                \/ o.r = "dirty"  /\ CommitIfChanged(o, ClearError(Current), Current)
                \/ o.r = "complete" /\ DeprovisionStep

\* Mutant of HandleProvisioned: the host is torn down before its state is saved.
HandleProvisionedUnsaved ==
    /\ In("provisioned")
    /\ \/ ProvisioningCancelled(cache) /\ DeprovisionStep
       \/ ~ProvisioningCancelled(cache) /\ ManageSteadyState

HandleProvisioned ==
    /\ In("provisioned")
    /\ \/ /\ ProvisioningCancelled(cache)
          /\ Commit(NoCall, MoveTo(Current, "deprovisioning", node))
       \/ ~ProvisioningCancelled(cache) /\ ManageSteadyState

HandlePoweringOffBeforeDelete ==
    /\ In("powering off before delete")
    /\ \E o \in PowerOff(node, cache.id, machine.power,
                         cache.errType = "power management error") :
          \/ o.r \in {"error", "unregistered"} /\ UnregisteredDeletion(o)
          \/ /\ o.r = "failed"
             /\ LET h == Fail(Current, "power management error")
                IN Commit(o, IF h.errCount > retryCount
                               THEN [h EXCEPT !.state = "deleting"] ELSE h)
          \/ o.r = "dirty" /\ CommitIfChanged(o, ClearError(Current), Current)
          \/ /\ o.r = "complete"
             /\ Commit(o, ResetErrors([Current EXCEPT !.state = "deleting",
                                                      !.powered = FALSE]))

\* actionDeleting: the finalizer goes once the provisioner has no node left,
\* and with it the object.
HandleDeleting ==
    /\ In("deleting")
    /\ \E o \in Delete(node, cache.id) :
          \/ o.r = "complete" /\ Commit(o, [cache EXCEPT !.fin = FALSE, !.exists = FALSE])
          \/ o.r # "complete" /\ Discard(o)

Reconcile ==
    \/ AddFinalizer
    \/ CredentialsError
    \/ CheckDelayedHost
    \/ InitiateDelete
    \/ DetachHost
    \/ ReattachHost
    \/ RegisterHost
    \/ HandleNone
    \/ HandleUnmanaged
    \/ HandleRegistering
    \/ HandleInspecting
    \/ HandlePreparing
    \/ HandleExternallyProvisioned
    \/ HandleAvailable
    \/ HandleProvisioning
    \/ HandleProvisioned
    \/ HandleDeprovisioning
    \/ HandlePoweringOffBeforeDelete
    \/ HandleDeleting

-----------------------------------------------------------------------------
(***************************************************************************)
(* The users of the API.                                                   *)
(***************************************************************************)
Edit(op, h) ==
    /\ op \in UserOps
    /\ host.exists
    /\ h # host
    /\ edits < MaxEdits
    /\ edits' = edits + 1
    /\ host' = h
    /\ UNCHANGED <<cache, node, machine, secret, slot, faults>>

SetImage == \E i \in MaybeImage : Edit("image", [host EXCEPT !.image = i])

\* The webhook accepts externallyProvisioned only for an available host.
SetExternallyProvisioned ==
    \/ host.ext /\ Edit("ext", [host EXCEPT !.ext = FALSE])
    \/ host.state = "available" /\ Edit("ext", [host EXCEPT !.ext = TRUE])

\* Fields of the spec that may change in every state: online, inspectionMode, raid.
SetField ==
    \/ \E field \in {"online", "inspect"} : Edit(field, [host EXCEPT ![field] = ~@])
    \/ \E raid \in RAIDs : Edit("raid", [host EXCEPT !.raid = raid])

RequestInspection == Edit("refresh", [host EXCEPT !.refresh = TRUE])

SetDetached == \E d \in Detachments : Edit("detach", [host EXCEPT !.detach = d])

AddBMCDetails == Edit("bmc", [host EXCEPT !.bmc = TRUE])

\* An object without finalizer disappears at once.
DeleteHost ==
    /\ ~host.deleting
    /\ Edit("delete", [host EXCEPT !.deleting = TRUE, !.exists = host.fin])

ChangeSecret ==
    /\ "secret" \in UserOps
    /\ edits < MaxEdits
    /\ edits' = edits + 1
    /\ \E v \in {0, edits' + 1} : v # secret /\ secret' = v
    /\ UNCHANGED <<host, cache, node, machine, slot, faults>>

User ==
    \/ SetImage
    \/ SetExternallyProvisioned
    \/ SetField
    \/ RequestInspection
    \/ SetDetached
    \/ AddBMCDetails
    \/ DeleteHost
    \/ ChangeSecret

-----------------------------------------------------------------------------
(***************************************************************************)
(* Ironic, the other hosts, and the informer.                              *)
(***************************************************************************)
IronicProgress ==
    /\ node.ps \in Transient
    /\ node' = Progress(node)
    /\ machine' = ProgressMachine(node, machine)
    /\ UNCHANGED <<host, cache, secret, slot, edits, faults>>

IronicPower ==
    /\ node.power # "none"
    /\ node' = [node EXCEPT !.power = "none"]
    /\ machine' = [machine EXCEPT !.power = node.power]
    /\ UNCHANGED <<host, cache, secret, slot, edits, faults>>

Fault(kind) == kind \in Faults /\ Spend(1)

IronicFailure ==
    /\ Fault("ironic")
    /\ \/ node.ps \in Transient /\ node' = Failure(node)
       \/ node.power # "none" /\ node' = [node EXCEPT !.power = "none", !.lastErr = TRUE]
    /\ UNCHANGED <<host, cache, machine, secret, slot, edits>>

\* Ironic restarts with an empty database.
LoseDatabase ==
    /\ Fault("database")
    /\ node.ps # "absent"
    /\ node' = Gone(node)
    /\ UNCHANGED <<host, cache, machine, secret, slot, edits>>

TakeSlot ==
    /\ Fault("slot")
    /\ slot /\ slot' = FALSE
    /\ UNCHANGED <<host, cache, node, machine, secret, edits>>

FreeSlot ==
    /\ ~slot /\ slot' = TRUE
    /\ UNCHANGED <<host, cache, node, machine, secret, edits, faults>>

SyncCache ==
    /\ cache # host
    /\ cache' = host
    /\ UNCHANGED <<host, node, machine, secret, slot, edits, faults>>

Environment ==
    \/ IronicProgress
    \/ IronicPower
    \/ IronicFailure
    \/ LoseDatabase
    \/ TakeSlot
    \/ FreeSlot
    \/ SyncCache

Next == Reconcile \/ User \/ Environment

Spec == Init /\ [][Next]_vars

(***************************************************************************)
(* Every result of a reconcile that has work left requeues the host, the   *)
(* informer delivers, Ironic finishes what it started, and other hosts     *)
(* finish and free their slot.                                             *)
(***************************************************************************)
Fairness ==
    /\ WF_vars(Reconcile)
    /\ WF_vars(SyncCache)
    /\ WF_vars(IronicProgress)
    /\ WF_vars(IronicPower)
    /\ WF_vars(FreeSlot)

FairSpec == Spec /\ Fairness

-----------------------------------------------------------------------------
(***************************************************************************)
(* Safety.                                                                 *)
(***************************************************************************)

\* A host whose status says detached, and a host that is gone, has no node left
\* in Ironic under the ID it recorded: checkDetachedHost and actionDeleting write
\* that status, or drop the finalizer, only after the provisioner found no node,
\* and no reconcile of a stale copy registers the host again.
NodeReleased ==
    host.op = "detached" \/ ~host.exists => ~GetNode(node, host.id)

\* A host that is offered for provisioning holds none of our images and nothing
\* is being written to it: whatever way led back to Available (a cancelled or
\* failed provisioning, a lost Ironic database, a save that failed after the
\* deployment had started), handleDeprovisioning went through a full clean up.
AvailableHostIsClean ==
    host.state = "available" =>
        /\ machine.disk \notin Images
        /\ node.ps \notin {"deploying", "deploy wait", "active"}

\* While a host stays Provisioned or ExternallyProvisioned nothing writes to its
\* disk: re-registration, adoption, power management and reconciles of a stale
\* copy never clean or deploy it.
WorkloadUntouched ==
    [][/\ host.state \in {"provisioned", "externally provisioned"}
       /\ host'.state = host.state
       => machine'.disk = machine.disk]_vars

\* A host leaves Deprovisioning with an erased disk, unless it is being deleted
\* and the controller gave up (retryCount failures), the user detached it, or it
\* has neither a node nor credentials to reach the machine with.
GaveUpOnHost ==
    /\ host.deleting
    /\ \/ host'.errCount > retryCount
       \/ host.op = "detached"
       \/ secret = 0 /\ ~GetNode(node, host.id)

DeprovisioningErases ==
    [][host.state = "deprovisioning" /\ host'.state # "deprovisioning" /\ ~GaveUpOnHost
       => machine.disk = Blank]_vars

\* A prepared host has the RAID volumes that its status reports: handlePreparing
\* records them when the cleaning that creates them starts.
SettingsApplied ==
    /\ host.state \in {"available", "provisioning", "provisioned"}
    /\ Volumes(host.praid) # "none"
    => machine.raid = Volumes(host.praid)

\* While a host is in Preparing nobody edits its RAID configuration, no cleaning fails
\* or is aborted, and Ironic does not lose a node that is creating hardware volumes
\* that are already on record.
Undisturbed ==
    host.state = "preparing" =>
        /\ host'.raid = host.raid
        /\ node'.ps # "clean failed"
        /\ node.ps \in {"cleaning", "clean wait"} /\ Volumes(host.praid) = "hardware"
              => node'.ps # "absent"

(***************************************************************************)
(* Liveness, under FairSpec.                                               *)
(***************************************************************************)

\* Ironic has a usable node for the host, but under another ID than the recorded one.
NodeIDLost ==
    host.exists /\ node.ps \notin {"absent", "enroll", "verifying"} /\ node.uuid # host.id

\* "Store the ID so other methods can assume it is set and so we can find the
\* node again later" (Register): the new ID of a host that goes on being registered
\* does not stay unrecorded for ever.
NodeIDRecorded == ~<>[](NodeIDLost /\ secret # 0 /\ host.op # "detached")

\* Deleting a host ends: whatever state it was in, and over a failure of Ironic, of its
\* API or of a save, missing credentials and full capacity, the finalizer is removed
\* at last, unless the user asked to delay it (delayDeleteForDetachedHost) or the ID
\* of the node was lost.
DeletionCompletes ==
    <>host.deleting => \/ <>~host.exists
                       \/ <>[](host.op = "detached" /\ host.detach = "delay")
                       \/ <>[]NodeIDLost

\* The host can be worked on: nobody deletes or detaches it, or takes its BMC
\* details and credentials away, and the ID of its node was not lost.
Managed ==
    /\ host.exists /\ ~host.deleting /\ host.bmc /\ host.detach = "absent"
    /\ secret # 0
    /\ ~NodeIDLost

\* A managed host that is asked to run an image ends up provisioned with it: the
\* image that was running before, a failed deployment and a missing slot only
\* delay it.
ProvisioningCompletes ==
    \A i \in Images :
        <>[](Managed /\ host.online /\ ~host.ext /\ host.image = i)
            => <>[](host.state = "provisioned" /\ host.pimage = i)

\* A host with BMC details that stays annotated as detached ends up detached: plain annotations
\* wait for the operation in progress, forced ones abort it.
DetachCompletes ==
    <>[](/\ host.exists /\ ~host.deleting /\ host.bmc /\ host.detach # "absent"
         /\ secret # 0 /\ ~NodeIDLost)
        => <>[](host.op = "detached")

\* manageHostPower brings a managed host to the power state its spec asks for,
\* and its status says so.
PowerConverges ==
    <>[]Managed => <>[](/\ (machine.power = "on") = host.online
                        /\ host.powered = host.online)

\* A managed host ends up with the credentials of its secret accepted: changing,
\* removing and restoring the secret at any time is followed by a registration.
CredentialsConverge == <>[](Managed /\ host.op # "detached") => <>[](host.good = secret)

\* "By the end of inspection the inspect.metal3.io annotation will be removed":
\* a request to inspect an available host again is served and consumed.
InspectionRequestServed ==
    host.state = "available" /\ host.refresh ~> ~host.refresh \/ ~Managed

(***************************************************************************)
(* The controller implements the abstract life cycle.                      *)
(***************************************************************************)
Phase ==
    CASE ~host.exists -> "gone"
      [] host.exists /\ host.state = "provisioning" -> "deploying"
      [] host.exists /\ host.state \in {"provisioned", "externally provisioned"} -> "running"
      [] host.exists /\ host.state = "deprovisioning" -> "tearing down"
      [] host.exists /\ host.state \in {"powering off before delete", "deleting"} -> "leaving"
      [] OTHER -> "idle"

Lifecycle == INSTANCE HostLifecycle WITH phase <- Phase, disk <- machine.disk

\* Every step of the controller, of Ironic and of the users is a step of the
\* life cycle the API promises, or leaves phase and disk alone: no order of
\* reconciles, stale reads, lost saves and Ironic failures writes or erases a disk
\* in a phase in which the user may not expect it.
ImplementsLifecycle == Lifecycle!Spec

(***************************************************************************)
(* What the documentation and the comments say and the code does not do.   *)
(***************************************************************************)

\* "Delete removes the host from the provisioning system" (Provisioner.Delete): no
\* node stays in Ironic when the host is gone.
NoOrphanedNode == ~host.exists => node.ps = "absent"

\* "When manual cleaning fails, we think that the existing RAID configuration is
\* invalid and needs to be reconfigured" (actionPreparing): a prepared host whose status
\* reports the RAID volumes that its spec asks for has them.
FailedCleaningIsRepeated ==
    /\ host.state \in {"available", "provisioning", "provisioned"}
    /\ host.raid # "none" /\ host.raid = Volumes(host.praid)
    => machine.raid = host.raid

\* "Image holds the details of the last image successfully provisioned to the host"
\* (ProvisionStatus.Image): a provisioned host runs the image its status reports.
ReportedImageIsDeployed ==
    host.state = "provisioned" /\ host.pimage \in Images => machine.disk = host.pimage

=============================================================================
