------------------------------ MODULE Firmware ------------------------------
(***************************************************************************)
(* Firmware settings and firmware updates of one host.                     *)
(*                                                                         *)
(* Four actors share the HostFirmwareSettings (hfs) and the                *)
(* HostFirmwareComponents (hfc): the user edits their spec; the controller *)
(* of each reads the node from Ironic and reports, in the conditions       *)
(* ChangeDetected and Valid, whether spec and status differ; and the host  *)
(* controller trusts those conditions when it cleans a host that is being  *)
(* prepared and services a provisioned host that is powered off.           *)
(*                                                                         *)
(* All controllers read through the informer cache, which lags, and write  *)
(* with the resource version they read: a write of a stale copy fails. The *)
(* host controller works with a copy of the BareMetalHost that may be old  *)
(* too, and learns that only when it saves the host, after it has called   *)
(* Ironic and recorded the updates.                                        *)
(*                                                                         *)
(* Data: the settings map is one setting with a value; an update is a      *)
(* component with its URL, one URL for each component; RAID and power      *)
(* transitions in progress are in BareMetalHost and Ironic.                *)
(***************************************************************************)
EXTENDS Integers

CONSTANTS
    Values,        \* values of the setting that the schema allows
    Updates,       \* firmware updates of the components bmc, bios and nic:*
    Invalid,       \* a value the schema refuses, an update of another component
    UserOps,       \* what the user does: subset of
                   \* {"settings", "components", "config", "policy", "reboot"}
    MaxEdits,      \* bound on the user's edits
    MaxFaults,     \* bound on lost writes and on refused Ironic calls
    MaxFailures    \* bound on clean and service steps that fail

None == "none"       \* an empty map, list or status

ASSUME FirmwareAssumption ==
    /\ Values # {} /\ Invalid \notin Values \cup Updates \cup {None}
    /\ MaxEdits \in Nat /\ MaxFaults \in Nat /\ MaxFailures \in Nat

VARIABLES
    hfs,      \* the HostFirmwareSettings at the API server
    hfc,      \* the HostFirmwareComponents at the API server
    cache,    \* the informer cache's copies of both, and whether they are the latest
    policy,   \* the HostUpdatePolicy: is each kind applied on reboot?
    host,     \* the BareMetalHost at the API server
    seen,     \* the informer cache's copy of it, and whether it is the latest
    node,     \* the node in Ironic
    budget    \* edits, faults and failures left

vars == <<hfs, hfc, cache, policy, host, seen, node, budget>>

Unset == [status |-> "Unknown", gen |-> 0]
Conditions == [status : {"Unknown", "True", "False"}, gen : 0 .. MaxEdits + 1]

SettingsObjects ==
    [exists : BOOLEAN, gen : 0 .. MaxEdits + 1, spec : Values \cup {None, Invalid},
     settings : Values \cup {None}, changed : Conditions, valid : Conditions]

ComponentsObjects ==
    [exists : BOOLEAN, gen : 0 .. MaxEdits + 1, spec : SUBSET (Updates \cup {Invalid}),
     updates : SUBSET (Updates \cup {Invalid}), components : SUBSET Updates,
     changed : Conditions, valid : Conditions]

HostRecords ==
    [state : {"preparing", "available", "provisioned"},
     op : {"OK", "error", "servicing"},
     err : {None, "preparation error", "servicing error"},
     config : BOOLEAN,       \* spec.firmware is set
     savedConfig : BOOLEAN,  \* status.provisioning.firmware is set
     on : BOOLEAN,           \* status.poweredOn
     reboot : BOOLEAN]       \* the reboot annotation is there

NodeStates ==
    {"available", "manageable", "cleaning", "clean failed",
     "active", "servicing", "service wait", "service failed"}

Jobs == [setting : Values \cup {None, Invalid}, updates : SUBSET (Updates \cup {Invalid}),
         config : BOOLEAN]
NoJob == [setting |-> None, updates |-> {}, config |-> FALSE]

NodeRecords ==
    [state : NodeStates, maintenance : BOOLEAN, on : BOOLEAN, bios : Values,
     flashed : SUBSET Updates, job : Jobs,
     sent : SUBSET (Updates \cup {Invalid})]  \* history: updates ever sent to Ironic

NewSettings == [exists |-> FALSE, gen |-> 0, spec |-> None, settings |-> None,
                changed |-> Unset, valid |-> Unset]
NewComponents == [exists |-> FALSE, gen |-> 0, spec |-> {}, updates |-> {},
                  components |-> {}, changed |-> Unset, valid |-> Unset]

Init ==
    /\ hfs = NewSettings
    /\ hfc = NewComponents
    /\ cache = [hfs |-> NewSettings, hfc |-> NewComponents, hfsFresh |-> TRUE, hfcFresh |-> TRUE]
    /\ policy \in {[settings |-> a, updates |-> a] : a \in BOOLEAN}
    /\ \E s \in {"preparing", "available", "provisioned"}, bios \in Values :
        /\ host = [state |-> s, op |-> "OK", err |-> None, config |-> FALSE,
                   savedConfig |-> FALSE, on |-> s = "provisioned", reboot |-> FALSE]
        /\ node = [state |-> CASE s = "preparing" -> "manageable"
                               [] s = "available" -> "available"
                               [] s = "provisioned" -> "active",
                   maintenance |-> FALSE, on |-> s = "provisioned", bios |-> bios,
                   flashed |-> {}, job |-> NoJob, sent |-> {}]
    /\ seen = [host |-> host, fresh |-> TRUE]
    /\ budget = [edits |-> MaxEdits, faults |-> MaxFaults, failures |-> MaxFailures]

(***************************************************************************)
(* Writes. An update of a stale copy is refused with a conflict, and any   *)
(* update may be lost. The caller knows: it stops when an update failed.   *)
(***************************************************************************)
One(b) == IF b THEN 1 ELSE 0

Pay(n) ==
    /\ budget.faults >= n
    /\ budget' = [budget EXCEPT !.faults = @ - n]

SaveSettings(new, saved) ==
    IF saved
    THEN cache.hfsFresh /\ hfs' = new /\ cache' = [cache EXCEPT !.hfsFresh = FALSE]
    ELSE UNCHANGED <<hfs, cache>>

SaveComponents(new, saved) ==
    IF saved
    THEN cache.hfcFresh /\ hfc' = new /\ cache' = [cache EXCEPT !.hfcFresh = FALSE]
    ELSE UNCHANGED <<hfc, cache>>

\* saveHostStatus, at the end of a reconciliation that changed its copy.
SaveHost(new, kept) ==
    IF new = seen.host THEN kept /\ UNCHANGED <<host, seen>>
    ELSE IF kept THEN seen.fresh /\ host' = new /\ seen' = [seen EXCEPT !.fresh = FALSE]
    ELSE UNCHANGED <<host, seen>>

\* A reconciliation that does nothing but save the host.
WriteHost(new) ==
    /\ \E kept \in BOOLEAN : SaveHost(new, kept) /\ Pay(One(~kept /\ seen.fresh))
    /\ UNCHANGED <<hfs, hfc, cache, policy, node>>

(***************************************************************************)
(* HostFirmwareSettings controller.                                        *)
(***************************************************************************)
Condition(status, gen) == [status |-> IF status THEN "True" ELSE "False", gen |-> gen]

\* validateHostFirmwareSettings: the schema allows the value.
ValidSettings(spec) == spec \in Values

\* setCondition reports a change only when the status of the condition is new.
SettingsConditionChanged(old, new) == old.status # new.status

\* updateStatus: what the controller writes, given the copy it read.
ObservedSettings(copy) ==
    LET mismatch == copy.spec \notin {None, node.bios}
    IN  [copy EXCEPT !.settings = node.bios,
                     !.changed = Condition(mismatch, copy.gen),
                     !.valid = Condition(mismatch => ValidSettings(copy.spec), copy.gen)]

UpdateStatus ==
    LET old == cache.hfs
        new == ObservedSettings(old)
    IN  /\ old.exists
        /\ \/ old.settings # new.settings
           \/ SettingsConditionChanged(old.changed, new.changed)
           \/ SettingsConditionChanged(old.valid, new.valid)
        /\ \E saved \in BOOLEAN :
            SaveSettings(new, saved) /\ Pay(One(~saved /\ cache.hfsFresh))
        /\ UNCHANGED <<hfc, policy, host, seen, node>>

(***************************************************************************)
(* HostFirmwareComponents controller. meta.SetStatusCondition reports a    *)
(* new observed generation as well.                                        *)
(***************************************************************************)
ValidUpdates(spec) == Invalid \notin spec

ObservedComponents(copy) ==
    LET mismatch == copy.spec # copy.updates
    IN  [copy EXCEPT !.components = node.flashed,
                     !.changed = Condition(mismatch, copy.gen),
                     !.valid = Condition(mismatch => ValidUpdates(copy.spec), copy.gen)]

SameConditions(old, new) ==
    /\ old.components = new.components
    /\ old.changed.status = new.changed.status /\ old.valid.status = new.valid.status

Unchanged(old, new) == old = new

UpdateHostFirmware ==
    LET new == ObservedComponents(cache.hfc)
    IN  /\ cache.hfc.exists
        /\ ~Unchanged(cache.hfc, new)
        /\ \E saved \in BOOLEAN :
            SaveComponents(new, saved) /\ Pay(One(~saved /\ cache.hfcFresh))
        /\ UNCHANGED <<hfs, policy, host, seen, node>>

(***************************************************************************)
(* What the host controller makes of the two objects.                      *)
(***************************************************************************)
Registered == hfs.exists /\ hfc.exists

\* createHostFirmwareSettings and createHostFirmwareComponents.
CreateResources ==
    /\ ~Registered
    /\ hfs' = [NewSettings EXCEPT !.exists = TRUE, !.gen = 1]
    /\ hfc' = [NewComponents EXCEPT !.exists = TRUE, !.gen = 1]
    /\ cache' = [cache EXCEPT !.hfsFresh = FALSE, !.hfcFresh = FALSE]
    /\ UNCHANGED <<policy, host, seen, node, budget>>

HostObjectHasChangesAnyGeneration(object) ==
    IF object.valid.status = "True" /\ object.changed.status = "True"
    THEN "changed" ELSE "unchanged"

\* hostObjectHasChanges: "error" (not observed yet), "changed" or "unchanged".
HostObjectHasChanges(object) ==
    CASE object.changed.status = "Unknown" -> "unchanged"
      [] object.changed.status # "Unknown" /\ object.changed.gen # object.gen -> "error"
      [] OTHER -> IF object.valid.status = "True" /\ object.changed.status = "True"
                  THEN "changed" ELSE "unchanged"

\* getHostFirmwareSettings
SettingsView ==
    IF ~cache.hfs.exists THEN "unchanged"
    ELSE IF HostObjectHasChanges(cache.hfs) = "changed" /\ cache.hfs.settings = None
    THEN "error" ELSE HostObjectHasChanges(cache.hfs)

\* getHostFirmwareComponents
ComponentsView ==
    IF ~cache.hfc.exists THEN "unchanged" ELSE HostObjectHasChanges(cache.hfc)

\* getUpdatesDifference
GetUpdatesDifference(spec, updates) == spec \ updates

\* Steps for Ironic: the setting if it differs, the pending updates, and the
\* settings of spec.firmware.
Job(settingsDirty, componentsDirty, config) ==
    [setting |-> IF settingsDirty /\ cache.hfs.spec # cache.hfs.settings
                 THEN cache.hfs.spec ELSE None,
     updates |-> IF componentsDirty
                 THEN GetUpdatesDifference(cache.hfc.spec, cache.hfc.updates) ELSE {},
     config |-> config]

SaveHostFirmwareComponentsUnstarted(started, dirty, saved) ==
    IF dirty /\ cache.hfc.updates # cache.hfc.spec
    THEN SaveComponents([cache.hfc EXCEPT !.updates = cache.hfc.spec], saved)
    ELSE saved /\ UNCHANGED <<hfc, cache>>

\* saveHostFirmwareComponents, then the update of the status by the caller.
\* Nothing is written when the status has the updates already.
SaveHostFirmwareComponents(started, dirty, saved) ==
    IF started /\ dirty /\ cache.hfc.updates # cache.hfc.spec
    THEN SaveComponents([cache.hfc EXCEPT !.updates = cache.hfc.spec,
                                          !.components = node.flashed], saved)
    ELSE saved /\ UNCHANGED <<hfc, cache>>

\* After a failed step: forget the updates, if they are still seen as pending.
ForgetUpdates(dirty, saved) ==
    IF dirty /\ cache.hfc.updates # {}
    THEN SaveComponents([cache.hfc EXCEPT !.updates = {}], saved)
    ELSE saved /\ UNCHANGED <<hfc, cache>>

(***************************************************************************)
(* Provisioner: Prepare and Service. "started" as in the code; "dirty" asks *)
(* to be called again; "failed" carries the error message.                 *)
(***************************************************************************)
Answer(n, started, dirty, failed) ==
    [node |-> n, started |-> started, dirty |-> dirty, failed |-> failed]

Wait(n) == Answer(n, FALSE, TRUE, FALSE)
Failed == Answer(node, FALSE, FALSE, TRUE)

Start(state, job) ==
    Answer([node EXCEPT !.state = state, !.job = job, !.sent = @ \cup job.updates],
           TRUE, TRUE, FALSE)

\* startManualCleaning, startServicing: nothing to do counts as started.
StartOrDone(state, job, unprepared) ==
    IF unprepared /\ job # NoJob THEN Start(state, job)
    ELSE Answer(node, unprepared, FALSE, FALSE)

PrepareInProgress(job, unprepared, restartOnFailure) ==
    IF node.state = "available" THEN Wait([node EXCEPT !.state = "manageable"])
    ELSE StartOrDone("cleaning", job, unprepared)

Prepare(job, unprepared, restartOnFailure) ==
    CASE node.state = "available" ->
            IF unprepared /\ job # NoJob
            THEN Wait([node EXCEPT !.state = "manageable"])
            ELSE Answer(node, unprepared, FALSE, FALSE)
      [] node.state = "manageable" -> StartOrDone("cleaning", job, unprepared)
      [] node.state = "cleaning" -> Wait(node)
      [] node.state = "clean failed" ->
            IF ~restartOnFailure THEN Failed
            ELSE IF node.maintenance THEN Wait([node EXCEPT !.maintenance = FALSE])
            ELSE Wait([node EXCEPT !.state = "manageable"])

AbortServicing ==
    Answer([node EXCEPT !.state = "active", !.job = NoJob], TRUE, TRUE, FALSE)

Service(job, unprepared, restartOnFailure, hasFirmwareSpec) ==
    CASE node.state = "service failed" ->
            IF ~hasFirmwareSpec THEN AbortServicing
            ELSE IF ~restartOnFailure THEN Failed
            ELSE IF node.maintenance THEN Wait([node EXCEPT !.maintenance = FALSE])
            ELSE StartOrDone("servicing", job, TRUE)
      [] node.state = "active" -> StartOrDone("servicing", job, unprepared)
      [] node.state = "service wait" /\ ~hasFirmwareSpec -> AbortServicing
      [] node.state = "service wait" /\ hasFirmwareSpec -> Wait(node)
      [] node.state = "servicing" -> Wait(node)

\* A call that would change the node may be refused (409 while it is locked).
Calls(answer) ==
    {answer} \cup (IF answer.node # node /\ budget.faults > 0 THEN {Wait(node)} ELSE {})

Refused(answer, call) == call # answer

(***************************************************************************)
(* Host controller: Preparing and Available. All of it is decided on the   *)
(* copy of the host that the reconciliation started with.                  *)
(***************************************************************************)
RecordFailure(err) == [seen.host EXCEPT !.op = "error", !.err = err]
ClearErrorOnly(op) == [seen.host EXCEPT !.err = None]
ClearError(op) == [seen.host EXCEPT !.op = op, !.err = None]

\* The writes that follow a call: the components first, and the host if that
\* update did not fail.
Persist(answer, call, dirty, new) ==
    \E saved, kept \in BOOLEAN :
        /\ IF call.failed THEN ForgetUpdates(dirty, saved)
           ELSE SaveHostFirmwareComponents(call.started, dirty, saved)
        /\ IF saved THEN SaveHost(new, kept) ELSE ~kept /\ UNCHANGED <<host, seen>>
        /\ Pay(One(Refused(answer, call)) + One(~saved /\ cache.hfcFresh)
               + One(saved /\ ~kept /\ seen.fresh))

ActionPreparing ==
    LET retry == seen.host.err = "preparation error"
        dirty == retry \/ seen.host.savedConfig # seen.host.config
        settingsDirty == SettingsView = "changed"
        componentsDirty == ComponentsView = "changed"
        answer == Prepare(Job(settingsDirty, componentsDirty, seen.host.config),
                          dirty \/ settingsDirty \/ componentsDirty, retry)
    IN  /\ seen.host.state = "preparing"
        /\ "error" \notin {SettingsView, ComponentsView}
        /\ \E call \in Calls(answer) :
            /\ node' = call.node
            /\ Persist(answer, call, componentsDirty,
                 IF call.failed
                 THEN [RecordFailure("preparation error") EXCEPT
                          !.savedConfig = IF dirty THEN FALSE ELSE @]
                 ELSE [(IF call.started THEN ClearError("OK") ELSE seen.host) EXCEPT
                          !.savedConfig = IF dirty /\ call.started THEN seen.host.config ELSE @,
                          !.state = IF call.dirty THEN @ ELSE "available"])
        /\ UNCHANGED <<hfs, policy>>

HandleAvailableSettings ==
    /\ seen.host.state = "available"
    /\ seen.host.savedConfig # seen.host.config \/ SettingsView = "changed"
    /\ WriteHost([seen.host EXCEPT !.state = "preparing"])

HandleAvailable ==
    /\ seen.host.state = "available"
    /\ \/ seen.host.savedConfig # seen.host.config
       \/ SettingsView = "changed"
       \/ SettingsView = "unchanged" /\ ComponentsView = "changed"
    /\ WriteHost([seen.host EXCEPT !.state = "preparing"])

(***************************************************************************)
(* Host controller: manageHostPower of a provisioned host with             *)
(* spec.online set, and doServiceIfNeeded inside it.                       *)
(***************************************************************************)
\* UpdateHardwareState: the power state that is found is saved first, and
\* nothing else is done by a reconciliation whose copy has another.
RecordPower ==
    /\ seen.host.state = "provisioned" /\ seen.host.on # node.on
    /\ WriteHost([seen.host EXCEPT !.on = node.on])

PowerRecorded == seen.host.state = "provisioned" /\ seen.host.on = node.on

RemoveRebootAnnotation ==
    /\ PowerRecorded /\ ~seen.host.on /\ seen.host.reboot
    /\ WriteHost([seen.host EXCEPT !.reboot = FALSE])

ConfigDirty == policy.settings /\ seen.host.savedConfig # seen.host.config
SettingsDirty == policy.settings /\ SettingsView = "changed"
ComponentsDirty == policy.updates /\ ComponentsView = "changed"
HasChanges == ConfigDirty \/ SettingsDirty \/ ComponentsDirty

ServiceNotReady ==
    \/ policy.settings /\ SettingsView = "error"
    \/ policy.updates /\ ComponentsView = "error"

HasFirmwareSpec ==
    \/ ConfigDirty /\ seen.host.config
    \/ policy.settings /\ cache.hfs.exists /\ cache.hfs.spec # None
    \/ policy.updates /\ cache.hfc.exists /\ cache.hfc.spec # {}

ServicingAllowed ==
    /\ PowerRecorded
    /\ ~seen.host.on \/ seen.host.op = "servicing" \/ seen.host.err = "servicing error"
    /\ ~(~seen.host.on /\ seen.host.reboot)   \* the annotation is removed first

MustService ==
    HasChanges \/ seen.host.op = "servicing" \/ seen.host.err = "servicing error"

\* Tell the user first, and call Ironic on the next pass.
AnnounceServicing ==
    /\ ServicingAllowed /\ ~ServiceNotReady /\ MustService
    /\ seen.host.op # "servicing"
    /\ WriteHost([seen.host EXCEPT !.op = "servicing"])

DoService ==
    LET answer == Service(Job(SettingsDirty, ComponentsDirty, ConfigDirty /\ seen.host.config),
                          HasChanges, seen.host.err = "servicing error", HasFirmwareSpec)
    IN  /\ ServicingAllowed /\ ~ServiceNotReady
        /\ seen.host.op = "servicing"
        /\ \E call \in Calls(answer) :
            LET recorded == call.started /\ ConfigDirty
                unfinished == seen.host.err # None \/ recorded \/ call.dirty
            IN  /\ node' = call.node
                /\ Persist(answer, call, ComponentsDirty,
                     IF call.failed
                     THEN [RecordFailure("servicing error") EXCEPT !.savedConfig = FALSE]
                     ELSE [ClearError(IF unfinished THEN "servicing" ELSE "OK") EXCEPT
                              !.savedConfig = IF recorded THEN seen.host.config ELSE @])
        /\ UNCHANGED <<hfs, policy>>

\* Power off for a reboot, and on again once no servicing is left.
ChangePower ==
    /\ PowerRecorded
    /\ ~(~seen.host.on /\ seen.host.reboot)
    /\ ServicingAllowed => ~ServiceNotReady /\ ~MustService
    /\ seen.host.on = seen.host.reboot
    /\ node' = [node EXCEPT !.on = ~@]
    /\ UNCHANGED <<hfs, hfc, cache, policy, host, seen, budget>>

(***************************************************************************)
(* Ironic, the cache and the user.                                         *)
(***************************************************************************)
ApplyJob ==
    [node EXCEPT !.state = IF @ = "cleaning" THEN "manageable" ELSE "active",
                 !.bios = IF node.job.setting \in Values THEN node.job.setting ELSE @,
                 !.flashed = @ \cup (node.job.updates \cap Updates),
                 !.job = NoJob]

IronicStep ==
    \/ /\ node.state \in {"cleaning", "service wait"}
       /\ node' = ApplyJob
    \/ /\ node.state = "servicing"
       /\ node' = [node EXCEPT !.state = "service wait"]

IronicProgress == IronicStep /\ UNCHANGED <<hfs, hfc, cache, policy, host, seen, budget>>

IronicFailure ==
    /\ budget.failures > 0
    /\ node.state \in {"cleaning", "servicing", "service wait"}
    /\ \E maintenance \in BOOLEAN :
        node' = [node EXCEPT !.state = IF @ = "cleaning" THEN "clean failed" ELSE "service failed",
                             !.job = NoJob, !.maintenance = maintenance]
    /\ budget' = [budget EXCEPT !.failures = @ - 1]
    /\ UNCHANGED <<hfs, hfc, cache, policy, host, seen>>

SyncSettings ==
    /\ ~cache.hfsFresh
    /\ cache' = [cache EXCEPT !.hfs = hfs, !.hfsFresh = TRUE]
    /\ UNCHANGED <<hfs, hfc, policy, host, seen, node, budget>>

SyncComponents ==
    /\ ~cache.hfcFresh
    /\ cache' = [cache EXCEPT !.hfc = hfc, !.hfcFresh = TRUE]
    /\ UNCHANGED <<hfs, hfc, policy, host, seen, node, budget>>

SyncHost ==
    /\ ~seen.fresh
    /\ seen' = [host |-> host, fresh |-> TRUE]
    /\ UNCHANGED <<hfs, hfc, cache, policy, host, node, budget>>

Edit(op) ==
    /\ op \in UserOps
    /\ budget.edits > 0
    /\ budget' = [budget EXCEPT !.edits = @ - 1]

EditSettings ==
    /\ Edit("settings") /\ hfs.exists
    /\ \E spec \in (Values \cup {None, Invalid}) \ {hfs.spec} :
        hfs' = [hfs EXCEPT !.spec = spec, !.gen = @ + 1]
    /\ cache' = [cache EXCEPT !.hfsFresh = FALSE]
    /\ UNCHANGED <<hfc, policy, host, seen, node>>

EditComponents ==
    /\ Edit("components") /\ hfc.exists
    /\ \E spec \in (SUBSET (Updates \cup {Invalid})) \ {hfc.spec} :
        hfc' = [hfc EXCEPT !.spec = spec, !.gen = @ + 1]
    /\ cache' = [cache EXCEPT !.hfcFresh = FALSE]
    /\ UNCHANGED <<hfs, policy, host, seen, node>>

EditHost ==
    /\ \/ Edit("config") /\ host' = [host EXCEPT !.config = ~@]
       \/ /\ host.state = "provisioned" /\ host.on /\ ~host.reboot
          /\ Edit("reboot") /\ host' = [host EXCEPT !.reboot = TRUE]
    /\ seen' = [seen EXCEPT !.fresh = FALSE]
    /\ UNCHANGED <<hfs, hfc, cache, policy, node>>

EditPolicy ==
    /\ Edit("policy")
    /\ policy' = [settings |-> ~policy.settings, updates |-> ~policy.updates]
    /\ UNCHANGED <<hfs, hfc, cache, host, seen, node>>

HostReconciles ==
    \/ CreateResources \/ ActionPreparing \/ HandleAvailable
    \/ RecordPower \/ RemoveRebootAnnotation
    \/ AnnounceServicing \/ DoService \/ ChangePower

User == EditSettings \/ EditComponents \/ EditHost \/ EditPolicy

Next ==
    \/ UpdateStatus \/ UpdateHostFirmware
    \/ HostReconciles
    \/ IronicProgress \/ IronicFailure
    \/ SyncSettings \/ SyncComponents \/ SyncHost
    \/ User

Spec == Init /\ [][Next]_vars

\* Each controller has a work queue of its own and is requeued periodically;
\* the cache catches up and Ironic goes on with what it started.
Fairness ==
    /\ WF_vars(UpdateStatus) /\ WF_vars(UpdateHostFirmware) /\ WF_vars(HostReconciles)
    /\ WF_vars(IronicProgress) /\ WF_vars(SyncSettings) /\ WF_vars(SyncComponents)
    /\ WF_vars(SyncHost)

FairSpec == Spec /\ Fairness
(***************************************************************************)
(* Properties.                                                             *)
(***************************************************************************)
TypeOK ==
    /\ hfs \in SettingsObjects /\ hfc \in ComponentsObjects
    /\ cache \in [hfs : SettingsObjects, hfc : ComponentsObjects,
                  hfsFresh : BOOLEAN, hfcFresh : BOOLEAN]
    /\ policy \in [settings : BOOLEAN, updates : BOOLEAN]
    /\ host \in HostRecords /\ seen \in [host : HostRecords, fresh : BOOLEAN]
    /\ node \in NodeRecords
    /\ budget \in [edits : 0 .. MaxEdits, faults : 0 .. MaxFaults, failures : 0 .. MaxFailures]

\* No clean or service step carries a setting or an update that was found
\* invalid or has not been validated yet: the Valid condition the host
\* controller reads belongs to the spec it sends, however the user's edits, the
\* two controllers and the cache interleave.
OnlyValidFirmware == node.job.setting # Invalid /\ Invalid \notin node.sent

\* An update counts as done (it is in the status of the HostFirmwareComponents
\* and is left out of later steps) only if it was sent to Ironic before.
RecordedUpdatesWereSent == hfc.updates \subseteq node.sent

ComponentsObserved == hfc.changed.gen = hfc.gen
SettingsObserved == hfs.changed.gen = hfs.gen
NoFailureYet == budget.failures = MaxFailures

\* As long as no clean step has failed, an update that the components' status
\* reports as applied is on a host that is not provisioned, or in the clean step
\* that is running: it is never recorded and then left out, though Ironic is called
\* and the components are saved on behalf of a host copy that may be stale (a host
\* already saved as available) and is not saved afterwards.
RecordedUpdatesArrive ==
    NoFailureYet /\ host.state # "provisioned" => hfc.updates \subseteq node.flashed \cup node.job.updates

\* "After manual cleaning is complete the HFC Spec should match the Status":
\* with nothing left to change, the host that was prepared runs the firmware
\* that was asked for.
UpdatesApplied ==
    (host.state = "available" /\ ComponentsObserved /\ hfc.changed.status = "False")
        => hfc.spec \subseteq node.flashed

\* The controller of the components reports on every generation of the spec.
ComponentsEventuallyObserved == []<>ComponentsObserved

\* "wait until hostFirmwareSettings are ready": the conditions of the settings
\* catch up with the generation of the spec, so that a host that waits for them
\* goes on.
SettingsEventuallyObserved == []<>SettingsObserved

\* Once the settings stay observed, valid updates of a host that is not
\* provisioned are flashed, if no step fails.
UpdatesEventuallyFlashed ==
    <>[]SettingsObserved /\ []NoFailureYet =>
        []<>(host.state # "provisioned" /\ ValidUpdates(hfc.spec) => hfc.spec \subseteq node.flashed)

\* Once the settings stay observed, a provisioned host that was powered off for a
\* reboot is powered on again, if no step fails: servicing ends.
RebootCompletes ==
    <>[]SettingsObserved /\ []NoFailureYet => (~node.on ~> node.on \/ host.state # "provisioned")

\* The same where steps fail: "we need to clean host provisioning settings" so
\* that the retry sends them again. An update that was recorded before it failed
\* is not sent again, and the retries never end.
ServicingRecovers ==
    <>[]SettingsObserved => (~node.on ~> node.on \/ host.state # "provisioned")
=============================================================================
