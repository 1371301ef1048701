# baremetal-operator: TLA+ models and proofs

The baremetal-operator drives physical machines through OpenStack Ironic on behalf of
`BareMetalHost` objects in a Kubernetes API server. This directory models the host state
machine over the Ironic provisioner, and the controllers around it - firmware, claims,
pre-provisioning images, data images, event subscriptions, secrets, switches and the
busy limit - checks them with TLC on small instances and proves the safety properties with
TLAPS for every value of the constants.

## Inventory of the system

| Component | State | Operations | Talks to |
| --- | --- | --- | --- |
| BareMetalHost controller (`internal/controller/metal3.io/baremetalhost_controller.go`, `host_state_machine.go`, `action_result.go`) | one object per host: finalizer, annotations, spec, status (state, operational status, error type and count, node ID, provisioned image and settings, power, credentials tried and accepted) | `Reconcile`: finalizer, credentials, delay, deletion, detachment, registration, one handler per provisioning state, save | API server through an informer cache; the provisioner; secrets; most other controllers through their objects |
| Ironic provisioner (`pkg/provisioner/ironic`) | none of its own: the node in Ironic | `Register`, `InspectHardware`, `Prepare`, `Provision`, `Adopt`, `Deprovision`, `Delete`, `Detach`, `PowerOn`, `PowerOff`, `HasCapacity`, ... | the HTTP API of Ironic, which works asynchronously |
| Busy host limit (`HasCapacity`, `loadBusyHosts`) | the busy nodes in Ironic | check before Inspecting, Provisioning, Deprovisioning | all hosts share it |
| API types and webhook (`apis`, `internal/webhooks`) | the spec | validation of edits | users |
| HostFirmwareSettings, HostFirmwareComponents | desired and observed firmware, conditions with generations | reconcile from Ironic; read by `actionPreparing` and by servicing | host, provisioner |
| HostClaim (`pkg/hostclaim`) | claims and the consumerRef of hosts | associate | hosts, claims, deploy policies |
| PreprovisioningImage | build status, finalizer | build, discard | image provider, host, network data secret |
| DataImage | attached and requested image, finalizer | attach, detach at reboot | host, provisioner |
| BMCEventSubscription | subscription ID, finalizer | create, delete | host, provisioner |
| Secret manager (`pkg/secretutils`) | label, owner reference and finalizer on secrets | claim, release | API server |
| BareMetalSwitch | the config secret, the credentials secret, conditions | regenerate all, write both secrets, report on one switch | switches, secrets |
| BMC drivers, RAID steps, factory, fixtures, commands | - | pure translation or wiring | - |

What is hard here: a reconcile acts on a copy of the object that may be stale; it
changes Ironic first and saves the status afterwards, so a refused save, an API failure
or a restart of the operator leaves Ironic ahead of the status; Ironic works, fails and
forgets between reconciles; users edit, detach and delete at any moment; one error
type and one error count serve all operations; capacity and credentials come and go.
What makes the host controller correct: a disk is written and erased only when the user
may expect it; a host that is released is released in Ironic; the status reports what
is on the machine; and deletion, provisioning, detachment, power and credentials
converge in spite of all that. The smaller controllers share one pattern, a side effect and
its record in two writes: what is recorded must be so, what is needed must stay, and requests
and deletions must end.

`PROJECT.json` lists every component with its status, and the hazards at their lines.

## Modules

* `Ironic.tla`: the provisioner. A method is an operator from the node it finds to the
  set of its possible outcomes: the node afterwards, the `Result`, and whether an API
  call was refused. The `CASE` of each method is the `switch` on the provision state in
  the code, with the same default. A power change in progress holds the node's lock, so
  other changes are refused as busy (the "host is locked" paths of `tryUpdateNode` and
  `tryChangeNodeProvisionState`). `Progress` and `Failure` are Ironic itself, external:
  what its conductors do to the node and to the machine between two calls.
* `BareMetalHost.tla`: one host. `host` is the object in the API server, `cache` the
  controller's copy, `node` the Ironic node, `machine` the machine (disk contents,
  power, RAID volumes), `secret` the version of the BMC secret, `slot` whether the
  other hosts leave a busy slot.
  One action per early return and per state handler of `Reconcile`/`ReconcileState`.
  The guards `Reconciling`, `CredentialsResolved`, `Undelayed`, `Undeleted`, `Attached`,
  `Registered` chain them in the order of the code: each says that the steps before had
  nothing to do. `User` is the API's users (and the webhook's rules), `Environment` is
  Ironic, the other hosts and the informer.
* `HostLifecycle.tla`: the abstract specification: what the API promises about the disk,
  in six phases. `ImplementsLifecycle` instantiates it with `phase <- Phase` (the groups
  of provisioning states) and `disk <- machine.disk`.
* `Firmware.tla`: HostFirmwareSettings, HostFirmwareComponents, HostUpdatePolicy and the parts of
  the host controller that read them: `actionPreparing`, `handleAvailable`, `doServiceIfNeeded` and
  the power recording and the reboot in `manageHostPower`. Conditions carry the generation they were computed
  for. All three objects are read from lagging copies (`cache` for the firmware resources, `seen` for the host);
  a reconcile of an old copy of the host calls Ironic and records updates all the same, and only its own save at
  the end is refused (`SaveHost`) or lost. `Prepare` and `Service` answer as the provisioner does, in the order
  of its `switch`.
* `HostClaim.tla`: `Associate` of several claims: acceptable namespaces, selection, the booking
  through the resource version, the record in the status of the claim.
* `PreprovisioningImage.tla`: `getPreprovImage` and `preprovImageAvailable` of the host, the image
  controller, and the cache of the image provider (external).
* `DataImage.tla`: the DataImage controller with its queue, and `handleDataImageActions` of the host
  controller, whose reads and calls are separate steps; Ironic attaches and detaches in the background.
* `BMCEventSubscription.tla`: finalizer, creation, record, removal, and the webhook, which also sees the
  controller's updates. The removal of an ID that the BMC does not know fails (`RemovalFails`): the code
  passes on whatever the status holds and returns every error.
* `SecretManager.tla`: one secret that hosts share, with its label, owners and finalizer, the
  filtered cache with its fallback to the API server, and the end of a host's deletion.
* `BareMetalSwitch.tla`: generation, config write, key write and status write of concurrent reconciles, each write
  against a lagging copy of its secret (`UpdateSecretData`), and the informers' resync.
* `Capacity.tla`: several hosts against `MaxBusyHosts`; a pass that found a slot is a state of its own.
* `Subresources.tla`: the composition of the seven small modules, with all their constants. They share no
  state; a behaviour picks one (`focus`) and only that one moves, so a run is the union of their state
  spaces and not their product. Its safety properties are those of the modules for the one in focus.
* `MCHost.tla`, `MCHostScenarios.tla`, `MCFirmware.tla`, `MCSubresources.tla` with the `.cfg` files: the
  instances TLC checks. `MCHostScenarios` runs `BareMetalHost` with four choices of constants, one
  per behaviour. `MCSubresources` extends `Subresources` with the values of its constants, the fairness and the
  liveness properties.
* Theorems and proofs: `BareMetalHostProofs.tla` (types and node IDs), `HostDiskProofs.tla` (the disk and the
  refinement of `HostLifecycle`), `HostSettingsProofs.tla` (RAID), each extending the one
  before; `FirmwareProofs.tla`; and over `Subresources`, `BookingProofs.tla` for `HostClaim` and `Capacity`,
  `PreprovisioningImageProofs.tla`, `DataImageProofs.tla`, and `FinalizerProofs.tla` for `SecretManager`
  and `BMCEventSubscription`.

### How a reconcile is modelled

One reconcile is one step that reads `cache` and ends in `Commit` or `Discard`. `Commit`
is the status (or metadata) update: it succeeds when `cache = host` (the resourceVersion
matches), is refused when the cache is stale, and may be lost (fault "save": API failure,
or the operator stops before it). In every case the node keeps what the provisioner did. An
edit that arrives during a reconcile is the same as a lost save followed by the edit.
`Discard` is an error result, or a result that is not worth saving; `CommitIfChanged`
covers the results that save only if something changed, including a change of the conditions
computed from what Ironic reports, which the model leaves open.

`registerHost` runs before each handler. When it has nothing to save, the handler runs on
the host in memory (`Current`), while the provisioner still uses the ID the host was read
with (`cache.id`), as in the code.

### Abstractions

* Images and credentials are values that can only be compared. RAID: one configuration with software and one with
  hardware volumes. What is on record also tells a missing configuration from one that was cleared
  (`RecordedRAIDs`), because `saveHostProvisioningSettings` and `BuildRAIDCleanSteps` do. `hardwareRAIDVolumes: []`,
  which asks for the hardware volumes to be deleted, is left out, and `spec.firmware` is in `Firmware` only.
* The hardware profile and the root device hints are one
  flag, `profile`; of the operation history only the registration that did not end
  matters, `open`.
* `errCount` stops at `retryCount + 1`: nothing tells larger counts apart.
* Manual cleaning erases the disk: the worst case of the clean steps.
* `Provision` writes the instance data and asks for the deployment in one step, and the validation of the node, whose failure
  is one more way to a provisioning error, always succeeds.
* Cleaning that fails puts the node in maintenance; an aborted operation leaves a
  last_error that the code does not take for a failure.
* In the small modules a write carries "is my copy the latest?" instead of a resource version, and a
  failed or lost write, a failed read and a restart draw on one budget of faults.
* Switches and their credentials are seen as they are (an edit and its event are one step); the config and the
  credentials secret exist and are in the cache.
* Firmware: the settings map is one setting, an update is a component with its URL.
* Not modelled: the paused annotation of hosts, the status annotation, force reboot, custom deploy,
  live ISO, the creation of FirmwareSchemas, `automatedCleaningMode: disabled`, `disablePowerOff`, the contents of hardware
  details, conditions, events and metrics. MatchProfile, a state no new host enters, is left
  out.

## Runs

| Run | Edits / faults | Shows |
| --- | --- | --- |
| `host_scenarios` | (images) image (2 images), delete / 2 faults of all kinds; (raid) RAID configuration / 2 faults of all kinds but the capacity; (inspect) inspection disabled and enabled / 1 fault; (giveup) image, delete / 5 failures of Ironic | `AvailableHostIsClean`, `SettingsAppliedUndisturbed`, `ImplementsLifecycle`, `DeprovisioningErases` |
| `host_handover` | detach, externallyProvisioned, image, delete / 2 faults of all kinds, no deployment abort | `TypeOK`, `NodeReleased`, `WorkloadUntouched` |
| `live_images` | image (2 images), secret, delete / 1 fault other than a lost database, fairness | `DeletionCompletes`, `ProvisioningCompletes`, `CredentialsConverge`, `NodeIDRecorded` |
| `live_host` | power, inspection request, settings, BMC details, detach / 1 fault of any kind, fairness | `PowerConverges`, `InspectionRequestServed`, `DetachCompletes` |
| `firmware` | 2 edits of settings (2 values, 1 invalid), components (1 update, 1 invalid), config, policy, reboot / 1 fault, 1 failing step, fairness | `OnlyValidFirmware`, `RecordedUpdatesWereSent`, `RecordedUpdatesArrive`, `ComponentsEventuallyObserved`, `UpdatesEventuallyFlashed`, `RebootCompletes` |
| `claims` | claims: 2 claims, 2 hosts, 3 sets of policies, 2 edits, 1 lost save; images: 6 wanted specs, 2 edits, 1 fault; subscriptions: 2 edits, 2 faults; secrets: 2 hosts, 3 edits, 1 fault; fairness | `ClaimedHostIsBooked`, `ClaimsGetHosts`, `ImageCacheCannotLeak`, `HostBootsExistingImage`, `HostGetsImage`, `RecordedSubscriptionIsRemoved`, `SubscriptionRecorded`, `DeletedSubscriptionLeavesBMC`, `SecretIsKept`, `HostDeletionEnds` |
| `machines` | data images: 2 URLs, 2 edits, 1 fault; switches: 2 switches, 2 workers, 1 edit, 1 fault; capacity: 4 hosts, 1 slot, 2 workers; fairness | `PowerOnWithSettledDrive`, `HostPowersOn`, `DataImageDeletionEnds`, `ConditionsConverge`, `ConfigConverges`, `BusyBound`, `DelayedHostsProceed` |
| `orphaned_node` | violation | `NoOrphanedNode` |
| `reported_image` | violation | `ReportedImageIsDeployed` |
| `lost_node_id` | violation | `NodeIDRecorded` |
| `unapplied_settings` | violation | `FailedCleaningIsRepeated` |
| `headers_subscription` | violation | `SubscriptionRecorded` |

The host runs allow two edits (the violation runs as few as they need). Why the bounds are
enough: a hazard of this code is one or two edits and one or two faults placed at the
wrong moment of a run that goes through all states by itself; two images are enough for "another image
than before"; five failures exceed `retryCount` by more than one, so that giving up happens
and the host goes on afterwards. For the switches one edit suffices to make two views of
them differ, and the fault is placed between any two of the writes that follow. Deadlock is not checked: a finished or deleted host may
rest once the bounded edits are spent.

`SettingsAppliedUndisturbed` says that a prepared host has the RAID volumes its status reports, unless it was
disturbed while it was being prepared: its RAID configuration was edited, a cleaning failed or was aborted, or Ironic
lost a node that was creating hardware volumes already on record. The MC module remembers that in `disturbed`. Without the
premise it does not hold (`unapplied_settings` and below). `NodeIDRecorded` holds for the first enrolment
(`live_images`) and fails in `lost_node_id` (Ironic loses its database and the save after the new registration is lost).
The liveness properties exclude a lost ID (`NodeIDLost`) for that reason.

Fairness (`FairSpec`): weak fairness of `Reconcile` (every result with work left requeues
the host, errors through the work queue's back-off), of `SyncCache` (the informer
delivers), of `IronicProgress` and `IronicPower` (Ironic ends what it started, faults
excepted) and of `FreeSlot` (other hosts finish). No fairness on users, nor on any particular
outcome of a call: refused calls are faults, bounded by `MaxFaults`.
The same holds in `firmware` (each controller has its queue and is requeued periodically) and in
`MCSubresources` (weak fairness of each process, the delivery to each cache included). `RebootCompletes` and
`UpdatesEventuallyFlashed` assume that the settings stay observed and that no step fails, because
without either they do not hold (below); `DataImageDeletionEnds` assumes that the host is not paused,
`ClaimsGetHosts` exempts policies with a bad regular expression. `ConfigConverges` has weak fairness of
`Resync` as its premise: `main.go` leaves the resync period of the informers at its default of ten hours, and only the
resync repairs a configuration that an older reconcile wrote last; `ConditionsConverge` does not need it.

## Proofs

`BareMetalHostProofs.tla` proves, for any set of images, edits and faults and any bounds:

* `TypeCorrect`: `Spec => []TypeOK`;
* `NodeReleasedAlways`: `Spec => []NodeReleased`.

Both follow from `InductiveInvariant`, `Spec => []IInv`. `IInv` strengthens them by three facts:

* `Loaded(node)`: a node being deployed has an image; without it the deployment could write
  something that is no disk content;
* in `Safe(host, node)`, `host.id <= node.uuid`, and `cache.id <= node.uuid`: recorded
  IDs are never newer than the last node created, so a node enrolled later has an ID that
  no host, detached or gone, recorded before;
* in `Safe(host, node)`, a host without our finalizer has no recorded ID: its object may
  vanish at once, before any reconcile could release a node.

The argument: the methods of the provisioner other than `Register` keep the UUID of a node
and do not create one (`Keeping`, the lemmas on `Modify`, `TryChange` and each method);
hence an outcome preserves `Safe` (`OutcomeKeepsSafe`); a commit preserves it if what is written
is a host that is not released or whose node was not found (`CommitKeeps`,
`HandlerKeeps`); then one lemma per group of actions. The assumptions are those of the
modules: `NoImage`, `Blank` and `Foreign` are no images, and the bounds are natural numbers.

`HostDiskProofs.tla` proves, from `IInv` and `DiskInv` (`DiskInvariant`), for any images, edits, faults and bounds:

* `AvailableHostIsCleanAlways`: `Spec => []AvailableHostIsClean`;
* `WorkloadUntouchedAlways` and `DeprovisioningErasesAlways`, the two action properties of the disk;
* `HostImplementsLifecycle`: `Spec => ImplementsLifecycle`, the refinement of `HostLifecycle`.

None of them is inductive. A reconcile works on an old copy of the host, and what it asks of Ironic happens even
though its save is refused: a copy in Preparing could clean a machine that is offered as available, a copy
in Provisioning could deploy again on a running one. `DiskInv` says why it does not:

* `Stage`: the provision states the node can be in while the host is in an idle or a running state;
* `Known`: only a node that the copy in the cache can find was ever moved past "manageable", so a node
  enrolled again under a new ID is in an early state;
* `Behind`: a copy is at most one write behind, so the state it shows is one from which a handler leads to the
  state of the host;
* `Harmless`: the three pairs of states in which an old copy would still clean or deploy. `Prepare` has nothing
  left to clean for a copy with which Preparing was left; `Deprovision` finds the node "available",
  `Provision` finds it "active", and both answer that they are complete;
* a node that is "available" has an erased disk, an idle host has none of our images, and a host without our
  finalizer was never managed.

The argument: for each method of the provisioner a lemma says to which provision states it may move the node it finds,
and what it means that it is complete (`Ordered`); then one lemma per handler, per edit and per step of Ironic. For the
refinement, `PhaseOf` groups the states of the host into phases; a reconcile that is saved takes an edge of the
life cycle or stays in its phase (`ReconcileMovesPhase`), an edit does the same (`EditMovesPhase`), and
what Ironic does leaves the phase alone and writes to the disk only where the phase allows it (`WorkKeepsPhase`).

`HostSettingsProofs.tla` proves `SettingsAppliedUndisturbed`: `Spec /\ [][Undisturbed]_vars => []SettingsApplied`, for
any images, edits, faults and bounds; the run `host_scenarios` checks the same with the premise as a history variable.
`Undisturbed` says that while a host is in Preparing its RAID configuration is not edited, no cleaning of its node fails or is
aborted, and Ironic does not lose a node that is being cleaned while hardware volumes are on record. `SettingsApplied`
does not follow from `Spec` alone: each part of the premise is needed ("Met while modelling" below). Everything else
stays allowed: stale copies, lost saves, refused calls, a database lost at any other time or with software volumes, new
credentials, detaching, deletion, failures in other states, and edits of the RAID configuration in every other state.

`handlePreparing` records the configuration when the cleaning that applies it starts, so `SettingsApplied` is not inductive.
`SettingsInv` adds to `IInv` and `DiskInv`, with `Vol` for the volumes on record and `Goal` for those that the next
preparation records (without `spec.raid` the hardware volumes are kept):

* `NoPreparationError`: neither the host nor the copy in the cache has a preparation error, so Preparing is left only with
  the goal on record;
* `SettingsStay`: no volumes are on record before the first preparation; they are on the machine in the states after it,
  including Inspecting again; and in Provisioning the copy in the cache cannot have come from Preparing, so nothing is
  applied behind the back of a deployment;
* `SettingsArrive`, in Preparing: an old copy that still shows Preparing has the same goal, the manual cleaning under way
  creates it, and volumes that are recorded and wanted are on the machine or in that cleaning, as long as Ironic has
  the node or the volumes are hardware volumes, which nothing forgets.

The argument: a method of the provisioner other than `Prepare` starts no manual cleaning and does not turn a running
one into another (`Spares`), and `Prepare` reports that it started exactly when it did (`PrepareApplies`); hence what a
reconcile does to the cleaning and to the record (`Handled`, one lemma per handler). A lost node is covered for software
volumes because a new ID makes `registerHost` forget them (`ClearSettings`); hardware volumes stay on record and on
the machine. Then one lemma per kind of step: a reconcile that is not saved, that stays, or that moves on; an edit; a
step of Ironic; a delivery.

`FirmwareProofs.tla` proves `FirmwareTypeCorrect`, `OnlyValidFirmwareAlways`, `RecordedUpdatesWereSentAlways` and
`RecordedUpdatesArriveAlways`, for any values, updates, edits and bounds. The invariant:

* `SettingsInv`, `ComponentsInv`: a copy that is marked as the latest is the object, so an accepted write starts from
  what is there; no condition is ahead of its object; and conditions that approve of a generation,
  on the object or on any copy the cache still holds, approve of a valid spec. This is what makes it safe that
  the host controller reads them from a lagging copy. What any copy records as done was sent;
* `NodeOK`, `Fits`: the node has a job only while it runs one, and is in a state that the state of the host leads to, and
  that of its copy too. Preparing and available allow the same states, because a copy that is still preparing may
  start a cleaning of a host that was saved as available;
* `Unfailed`, as long as nothing failed: what was sent to a node that is cleaned is flashed or in the running job.

The theorems on the small controllers are about `Spec` of `Subresources` and the definitions that the runs `claims` and
`machines` check, for every value of the constants of that module.

`BookingProofs.tla` proves `ClaimedHostIsBookedAlways`: `ClaimedHostIsBooked` for any claims,
hosts, policies and bounds. The invariant adds that a copy that is not outdated is exact: a booking that
is accepted was decided on the host as it is, so its consumer was nobody or the claim itself. Assumed:
an empty consumerRef is no claim, an empty status names no host.

It also proves `BusyBoundAlways`: for a finite set of hosts, any limit and any number of
workers, the hosts Ironic works on in limited states number at most `MaxBusyHosts + HostWorkers - 1`.
The bound alone is not inductive, because a pass that was granted a slot has not used it
yet; `BusyInv` bounds the busy and the granted hosts together (`Committed`), which only a grant can enlarge, and
a grant has just counted fewer than `MaxBusyHosts` busy nodes while at most `HostWorkers` passes run.

`PreprovisioningImageProofs.tla` proves `ImageCacheCannotLeakAlways` and `HostBootsExistingImageAlways`, for any
wanted specs, versions of the secret and bounds. Both controllers work on old copies of the image, and a reconcile of one
still builds and discards. `IInv` says what an old copy can be (`Close`): the object one accepted write and some deletions
ago. If its configuration was replaced, no reconcile of it asks for that configuration again (`Superseded`), because
versions of the secret only grow, so what it would build is not kept. A build that is discarded under a status that
says ready was for an old version of the secret (`Backed`), which the host's own check refuses. Assumed: an empty status
describes no image, the network flag of a spec is a Boolean, and the bounds are natural numbers.

`FinalizerProofs.tla` proves two action properties:

* `SecretIsKeptAlways`: `SecretIsKept` for any number of hosts. A claim that finds nothing to write trusts the
  cache, so `SecretInv` says that, while no host is being deleted, a finalizer in the cache is on the object, and a
  secret that is held has one;
* `RecordedSubscriptionIsRemovedAlways`: `RecordedSubscriptionIsRemoved`. `SubInv` says that an ID is recorded only
  on an object with the finalizer, that a pass whose save can still be accepted runs on such an object, and
  that a copy marked as fresh is exact, so that what is removed from the BMC is what the object records.

`DataImageProofs.tla` proves `PowerOnWithSettledDriveAlways`: `PowerOnWithSettledDrive` for any images, edits and
faults. The pass that powers the host on has read the object and the drive earlier; the invariant is that what it
has read of the drive still holds (`ReadingHolds`), because only that pass asks Ironic to change it and the node of a busy
host is not read at all.

The assumptions of the claim, capacity, image and data image theorems are hypotheses of their theorems (`ClaimConstantsFit`,
`BusyConstantsFit`, `ConstantsFit`): what they say of the constants is what the code guarantees, and the instances satisfy them;
those of the host and the firmware are the `ASSUME`s of their modules, which TLC evaluates in every run; the two of
`FinalizerProofs` need none.

Every invariant and every action property of a passing run is stated by a theorem. Only model-checked:

* the liveness properties of all modules, which need fairness and `ENABLED`: `BareMetalSwitch`, whose properties
  are of that kind, has no theorem.

## Where the code and its documentation disagree

The five violation runs, with the quotations in `PROJECT.json`:

* `orphaned_node`: `Delete` finds the node by its recorded ID only; a node whose ID was not
  saved survives its host.
* `reported_image`: an image changed during its deployment is reported as provisioned while
  the old one runs.
* `lost_node_id`: `registerHost` overwrites the dirty flag of a new node ID; once a save was
  lost, every handler fails with the old ID.
* `unapplied_settings`: new credentials clear the preparation error, and the RAID volumes of
  the failed cleaning count as created.
* `headers_subscription`: the webhook compares two decoded specs with `!=`, pointers included, so every
  update of a subscription with HTTP headers is refused, the controller's finalizer too.

Met while modelling, by exploring the same modules with other properties, without a run of their own:

* `SettingsApplied` fails in more ways, found when its invariant was looked for. A RAID configuration that is edited back while
  a cleaning applies the other: if the save of the reconcile that started it is refused, the host is not dirty, and it
  becomes available reporting the old volumes while the machine has the others (three edits, no faults). A registration call
  that is refused as busy clears the preparation error as new credentials do. A retried cleaning that fails again: a
  reconcile of an old copy, which still has the preparation error, moves the node out of "clean failed", and the
  newer copy finds nothing to do. `spec.raid` is removed after a cleaning for hardware volumes failed: they
  are kept on record, and there is nothing to clean for. Ironic loses its database while it creates hardware volumes:
  `clearHostProvisioningSettings` keeps them on record, and the new node is not cleaned for them.
* `PowerOff` is complete as soon as the power state is off, even with a power-on still in
  progress (`ironic.go`, `PowerOff`): the machine may be on when its host is gone.
* A host that stops being externally provisioned goes to Provisioned; the state diagram
  sends it to Inspecting or Preparing. If an image is set before the next reconcile of such a
  host without image, it stays Provisioned with no image on record.
* Disabling inspection while it runs moves the host on to Preparing; a request to inspect
  a host with inspection disabled is never consumed: the host circles between Available,
  Inspecting and Preparing.
* `Deprovision` knows no way out of "enroll": a host whose node was enrolled again and
  failed verification, and whose secret is gone, is not deleted.
* Without deployment abort a forced detachment undeploys the node; if that fails and the
  annotation is no longer forced, `Provision` waits on the node in error.
* Firmware settings: `setCondition` reports a change only when the status of a condition changes. After an
  edit that keeps it, ObservedGeneration stays behind and the readers of the settings fail until something
  else changes (`SettingsEventuallyObserved` does not hold). The components compare generations as well.
* An available host may be cleaned: a copy that still shows Preparing starts the cleaning and records its updates before its
  save is refused. The updates arrive (`RecordedUpdatesArrive`), but the host is on offer meanwhile.
* Servicing: updates are recorded when they start. If a step fails, the retry leaves them out, has
  no steps, and repeats (`ServicingRecovers`, `UpdatesApplied` do not hold).
* Claims: after a lost save of its status, a claim whose cache is older than its booking books a second host
  (`OneHostPerClaim`), against the comment on `Associate`.
* Pre-provisioning images: with a stale copy, an image can be reported ready that was discarded
  (`ReadyImageIsBuilt`); the host's own check of the network data catches what matters to it.
* Data images: the URL in the status is written when Ironic accepts the call, not when it is done, and may
  name an image that is not attached (`ReportedImageIsAttached`, `NoOrphanedImage`). Nor does the host know which image is
  in the drive: it powers on with another image than the requested one after the URL was edited between the call that
  attached the first and the save that records it, and the call for the second fails; and it powers on with an image
  although the URL was emptied then, without any fault. A reconcile during a
  pause returns without requeueing, although its comment says "requeue".
* Subscriptions: after a lost save, or with a stale copy, a second one is created; only the recorded one is removed
  (`NoLeakedSubscription`). A deletion whose ID was never recorded, or whose subscription was removed while the update of
  the finalizer was refused, never ends: each later removal is of an ID that the BMC does not know, and
  `RemoveBMCEventSubscriptionForNode` returns every error. The resource goes only when its finalizer is removed by hand.
* Secrets: the first deleted host releases a shared secret for all (`SecretIsKeptForAll`); a deletion with
  invalid credentials or a failed claim leaves the finalizer behind (`SecretIsReleased`).
* Switches: the reconcile of any switch lists all of them and replaces both secrets later. With two workers the older view
  may be written last, while every switch is reported as valid and nothing is queued (`ValidSwitchIsConfigured`
  fails, without a fault; with one worker and one edit it holds); the resync repairs it. The entry of the
  last switch, deleted just before a restart, stays; the configuration is written before the keys it names.
* Capacity: Preparing cleans without a slot, and virtual media hosts are exempt; the overflow by concurrent
  passes is documented in `docs/configuration.md`.

## Not modelled

The text of RAID and BIOS steps, BMC address parsing, the client factory, fixtures and the commands are
translations without state of their own. Custom deploy, live ISO, force reboot, `automatedCleaningMode: disabled`,
the annotations that restore a status, FirmwareSchemas, conditions of hosts, events and metrics are
left out of the controllers that are modelled. `HostClaimReconciler.Reconcile` is empty at this commit: that the
caller of `Associate` retries and saves the status is taken from its contract, and there is no release.

## Plan

1. Done: `Ironic`, `BareMetalHost`, `HostLifecycle`, `Firmware`, the seven small controllers.
2. Done: proofs of the safety properties that the runs check, and of the refinement.
3. In `BareMetalHost`: paused, custom deploy, automated cleaning disabled.
