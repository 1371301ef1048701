------------------------------- MODULE Ironic -------------------------------
(***************************************************************************)
(* The Ironic provisioner of the baremetal-operator (pkg/provisioner/      *)
(* ironic): every method of the Provisioner interface that the host        *)
(* controller's life cycle uses, as an operator from the Ironic node it    *)
(* finds to the set of outcomes it may have.  Ironic itself is external:   *)
(* `Progress' and `Failure' say what its conductors may do to a node       *)
(* between two calls.                                                      *)
(*                                                                         *)
(* An outcome is [n |-> the node afterwards, r |-> the Result, f |-> how   *)
(* many faults it took].  Results: "complete", "dirty" (call again),       *)
(* "started" (dirty, and the operation was started by this call),          *)
(* "failed" (Result.ErrorMessage), "error" (a transient error),            *)
(* "unregistered" (ErrNeedsRegistration).                                  *)
(***************************************************************************)
EXTENDS Naturals

CONSTANTS
    Images,    \* the images a host can be asked to run
    NoImage,   \* no image: an empty spec.image or status.provisioning.image
    HasDeploymentAbort    \* this version of Ironic can abort a deployment

ASSUME NoImageAssumption == NoImage \notin Images

ASSUME FeatureAssumption == HasDeploymentAbort \in BOOLEAN

MaybeImage == Images \union {NoImage}

(***************************************************************************)
(* The provision states of an Ironic node.                                 *)
(***************************************************************************)
Busy == {"cleaning", "clean wait", "inspecting", "inspect wait",
         "deploying", "deploy wait", "deleting"}

Transient == Busy \union {"verifying", "adopting"}

Failed == {"inspect failed", "clean failed", "deploy failed", "adopt failed", "error"}

ProvisionStates ==
    Transient \union Failed
        \union {"absent", "enroll", "manageable", "available", "active"}

(***************************************************************************)
(* RAID.  A machine, a spec and a cleaning have volumes of one kind or     *)
(* none.  The status records, besides: "cleared" and "empty", no volumes   *)
(* with a null and with an empty list of software volumes; "kept",         *)
(* hardware volumes with an empty list of software volumes.                *)
(***************************************************************************)
RAIDs == {"none", "software", "hardware"}

RecordedRAIDs == RAIDs \union {"cleared", "empty", "kept"}

Volumes(r) ==
    IF r = "kept" THEN "hardware" ELSE IF r \in {"cleared", "empty"} THEN "none" ELSE r

\* BuildRAIDCleanSteps gives at least one clean step.
HasRAIDSteps(target, actual) ==
    \/ target = "software" /\ actual # "software"
    \/ target = "empty" /\ actual = "software"
    \/ target = "hardware" /\ Volumes(actual) # "hardware"

(***************************************************************************)
(* A node: its provision state and UUID (0: never created; the UUID of a   *)
(* removed node is kept so that the next one differs), the maintenance     *)
(* flag, whether last_error holds the error of the last operation, the     *)
(* image in instance_info, whether the cleaning in progress is manual and  *)
(* the RAID volumes it leaves, whether an inventory was stored, and the    *)
(* power change in progress.                                               *)
(***************************************************************************)
Nodes == [ps: ProvisionStates, uuid: Nat, maint: BOOLEAN, lastErr: BOOLEAN,
          img: MaybeImage, manual: BOOLEAN, raid: RAIDs, inv: BOOLEAN,
          power: {"none", "on", "off"}]

FreshNode(ps, uuid) ==
    [ps |-> ps, uuid |-> uuid, maint |-> FALSE, lastErr |-> FALSE, img |-> NoImage,
     manual |-> FALSE, raid |-> "none", inv |-> FALSE, power |-> "none"]

Gone(n) == FreshNode("absent", n.uuid)

\* target_provision_state is set: no power change is accepted.
HasTarget(n) == n.ps \in Transient \union {"inspect failed"}

Results == {"complete", "dirty", "started", "failed", "error", "unregistered"}

Outcomes == [n: Nodes, r: Results, f: {0, 1}]

Out(n, r) == [n |-> n, r |-> r, f |-> 0]

\* An API call to Ironic that is refused: busy (409, retried later) or in error.
Refused(n) == {[n |-> n, r |-> r, f |-> 1] : r \in {"dirty", "error"}}

\* An API call that makes the node `new'.  A power change in progress holds the
\* node's lock: every other change is refused as busy until it ends.
Modify(n, new, ok) ==
    Refused(n) \union {IF n.power # "none" THEN Out(n, "dirty") ELSE Out(new, ok)}

(***************************************************************************)
(* tryChangeNodeProvisionState: a node in maintenance leaves maintenance   *)
(* first; an accepted request moves the node, clears its last error and is *)
(* reported as `ok'.                                                       *)
(***************************************************************************)
TryChange(n, moved, ok) ==
    IF n.maint THEN Modify(n, [n EXCEPT !.maint = FALSE], "dirty")
               ELSE Modify(n, [moved EXCEPT !.lastErr = FALSE], ok)

To(n, ps) == TryChange(n, [n EXCEPT !.ps = ps], "dirty")

\* Mutant of Provide: the node becomes available without cleaning.
ProvideUncleaned(n) == TryChange(n, [n EXCEPT !.ps = "available"], "dirty")

\* Automated cleaning on the way to "available", manual cleaning to "manageable".
Provide(n) == TryChange(n, [n EXCEPT !.ps = "cleaning", !.manual = FALSE], "dirty")

Clean(n, raid) ==
    TryChange(n, [n EXCEPT !.ps = "cleaning", !.manual = TRUE, !.raid = raid], "started")

\* Abort in a wait state; the resulting last_error ("aborted") is never
\* taken for a failure of a power change or of an inspection.
Abort(n, ps) == TryChange(n, [n EXCEPT !.ps = ps], "dirty")

(***************************************************************************)
(* getNode finds a node by the recorded ID only; findExistingHost also     *)
(* finds it by name.                                                       *)
(***************************************************************************)
GetNode(n, id) == n.ps # "absent" /\ id # 0 /\ n.uuid = id

ForNode(n, id, outcomes) ==
    IF GetNode(n, id)
      THEN outcomes \union {[n |-> n, r |-> "error", f |-> 1]}
      ELSE {Out(n, "unregistered")}

(***************************************************************************)
(* Register: enrols a node that does not exist (node creation, port        *)
(* creation and the move to manageable can each fail), verifies the BMC    *)
(* access of an enrolled one, and only reconfigures any other.             *)
(***************************************************************************)
EnrollNode(n) ==
    LET new == FreshNode("enroll", n.uuid + 1)
    IN Refused(n) \union To(new, "verifying")

Register(n, credsChanged, restartOnFailure) ==
    CASE n.ps = "absent" -> EnrollNode(n)
      [] n.ps = "enroll" ->
           IF n.lastErr /\ ~(credsChanged \/ restartOnFailure)
             THEN {Out(n, "failed")}
             ELSE To(n, "verifying")
      [] n.ps = "verifying" -> {Out(n, "dirty")}
      [] OTHER -> {Out(n, "complete")} \union Refused(n)

(***************************************************************************)
(* InspectHardware.                                                        *)
(***************************************************************************)
\* Mutant of StartInspection: the start is not reported to the controller.
StartInspectionSilently(n) ==
    TryChange(n, [n EXCEPT !.ps = "inspecting", !.inv = FALSE], "dirty")

StartInspection(n) ==
    TryChange(n, [n EXCEPT !.ps = "inspecting", !.inv = FALSE], "started")

InspectHardware(n, id, restartOnFailure, refresh) == ForNode(n, id,
    CASE n.ps = "available" -> To(n, "manageable")
      [] n.ps \in {"inspecting", "inspect wait"} -> {Out(n, "dirty")}
      [] n.ps = "inspect failed" ->
           IF n.lastErr /\ ~restartOnFailure THEN {Out(n, "failed")} ELSE StartInspection(n)
      [] n.ps = "manageable" ->
           IF refresh \/ ~n.inv THEN StartInspection(n) ELSE {Out(n, "complete")}
      [] OTHER -> {Out(n, "error")})

(***************************************************************************)
(* Prepare: manual cleaning that leaves the volumes `raid', if they are    *)
(* `unprepared' and `needed': there is at least one clean step.            *)
(***************************************************************************)
Prepare(n, id, raid, unprepared, needed, restartOnFailure) == ForNode(n, id,
    CASE n.ps = "available" ->
           IF unprepared /\ needed THEN To(n, "manageable") ELSE {Out(n, "complete")}
      [] n.ps = "manageable" ->
           IF unprepared /\ needed THEN Clean(n, raid) ELSE {Out(n, "complete")}
      [] n.ps = "clean failed" ->
           IF restartOnFailure THEN To(n, "manageable") ELSE {Out(n, "failed")}
      [] n.ps \in {"cleaning", "clean wait"} -> {Out(n, "dirty")}
      [] OTHER -> {Out(n, "error")})

(***************************************************************************)
(* Provision: deploys `image'.  An active node is taken to be provisioned. *)
(***************************************************************************)
\* setUpForProvisioning, then the request.  The image is already on the node when its
\* validation fails or the request is refused.
Deploy(n, image) ==
    TryChange(n, [n EXCEPT !.ps = "deploying", !.img = image], "dirty")
        \union {[n |-> [n EXCEPT !.img = image], r |-> r, f |-> 1] :
                   r \in {"dirty", "error", "failed"}}

Provision(n, id, image) == ForNode(n, id,
    CASE n.ps = "deploy failed" ->
           IF n.img = image THEN {Out(n, "failed")} ELSE Deploy(n, image)
      [] n.ps = "manageable"   -> Provide(n)
      [] n.ps = "clean failed" -> To(n, "manageable")
      [] n.ps = "available"    -> Deploy(n, image)
      [] n.ps = "active"       -> {Out(n, "complete")}
      [] OTHER                 -> {Out(n, "dirty")})

(***************************************************************************)
(* Adopt: takes over a running host after its node was registered again.   *)
(***************************************************************************)
Adopt(n, id, state, restartOnFailure) == ForNode(n, id,
    CASE n.ps \in {"enroll", "verifying"} -> {Out(n, "error")}
      [] n.ps = "manageable" ->
           IF state = "deprovisioning" THEN {Out(n, "complete")} ELSE To(n, "adopting")
      [] n.ps = "adopting" -> {Out(n, "dirty")}
      [] n.ps = "adopt failed" ->
           IF restartOnFailure THEN To(n, "adopting") ELSE {Out(n, "failed")}
      [] n.ps = "active" /\ n.maint /\ state # "deleting" ->
           Modify(n, [n EXCEPT !.maint = FALSE], "dirty")
      [] OTHER -> {Out(n, "complete")})

(***************************************************************************)
(* Deprovision: tears the image down; automated cleaning follows.          *)
(***************************************************************************)
Deprovision(n, id, restartOnFailure) == ForNode(n, id,
    CASE n.ps = "error" ->
           IF restartOnFailure THEN To(n, "deleting") ELSE {Out(n, "failed")}
      [] n.ps = "clean failed" ->
           IF restartOnFailure THEN To(n, "manageable") ELSE {Out(n, "failed")}
      [] n.ps = "manageable" -> Provide(n)
      [] n.ps = "available"  -> {Out(n, "complete")}
      [] n.ps \in {"deleting", "cleaning", "clean wait", "deploying"} -> {Out(n, "dirty")}
      [] n.ps \in {"active", "deploy failed", "deploy wait"} -> To(n, "deleting")
      [] OTHER -> {Out(n, "error")})

(***************************************************************************)
(* Delete and Detach: realDelete removes the node, going through           *)
(* maintenance when Ironic would refuse, and aborts a wait state when      *)
(* forced.  A node that getNode does not find counts as removed.           *)
(***************************************************************************)
\* Older versions of Ironic cannot abort a deployment, only undeploy the node.
AbortDeployment(n) ==
    IF HasDeploymentAbort THEN Abort(n, "deploy failed") ELSE To(n, "deleting")

RealDelete(n, force) ==
    CASE n.ps \in {"verifying", "deploying", "cleaning", "inspecting", "deleting"} ->
           {Out(n, "dirty")}
      [] n.ps \in {"enroll", "available", "manageable"} ->
           Modify(n, Gone(n), "dirty")
      [] n.ps = "deploy wait"  -> IF force THEN AbortDeployment(n)         ELSE {Out(n, "dirty")}
      [] n.ps = "inspect wait" -> IF force THEN Abort(n, "inspect failed") ELSE {Out(n, "dirty")}
      [] n.ps = "clean wait"   -> IF force THEN Abort(n, "clean failed")   ELSE {Out(n, "dirty")}
      [] OTHER ->
           Modify(n, IF n.maint THEN Gone(n) ELSE [n EXCEPT !.maint = TRUE], "dirty")

\* Mutant of Detach: an accepted request counts as a finished one.
DetachUnfinished(n, id, force) ==
    IF GetNode(n, id) THEN {[o EXCEPT !.r = "complete"] : o \in RealDelete(n, force)}
                      ELSE {Out(n, "complete")}

Detach(n, id, force) ==
    IF GetNode(n, id) THEN RealDelete(n, force) \union {[n |-> n, r |-> "error", f |-> 1]}
                      ELSE {Out(n, "complete")}

Delete(n, id) == Detach(n, id, FALSE)

(***************************************************************************)
(* PowerOn and PowerOff; `power' is the power state Ironic reports.        *)
(* PowerOff first gets the node out of an inspection or a manual cleaning. *)
(***************************************************************************)
ChangePower(n, target) ==
    IF HasTarget(n) THEN {Out(n, "dirty")}
    ELSE Modify(n, [n EXCEPT !.power = target, !.lastErr = FALSE], "dirty")

\* Mutant of PowerChange: a failed power change is not tried again, even if forced.
PowerChangeOnce(n, power, target, force) ==
    CASE power = target -> {Out(n, "complete")}
      [] power # target /\ n.power = target -> {Out(n, "dirty")}
      [] power # target /\ n.power # target /\ n.lastErr -> {Out(n, "failed")}
      [] OTHER -> ChangePower(n, target)

PowerChange(n, power, target, force) ==
    CASE power = target -> {Out(n, "complete")}
      [] power # target /\ n.power = target -> {Out(n, "dirty")}
      [] /\ power # target /\ n.power # target /\ n.lastErr /\ ~force
         /\ target = "on" \/ n.power = "none" -> {Out(n, "failed")}
      [] OTHER -> ChangePower(n, target)

PowerOn(n, id, power, force) == ForNode(n, id, PowerChange(n, power, "on", force))

AbortInspectionOrCleaning(n) ==
    CASE n.ps = "inspect wait" -> Abort(n, "inspect failed")
      [] n.ps = "clean wait" /\ n.manual -> Abort(n, "clean failed")
      [] n.ps = "inspect failed" -> To(n, "manageable")
      [] n.ps \in {"inspecting", "cleaning"} \/ (n.ps = "clean wait" /\ ~n.manual) ->
           {Out(n, "dirty")}
      [] OTHER -> {}

PowerOff(n, id, power, force) == ForNode(n, id,
    LET aborted == AbortInspectionOrCleaning(n)
    IN IF aborted # {} THEN aborted ELSE PowerChange(n, power, "off", force))

(***************************************************************************)
(* What Ironic does by itself (external).  A machine is its disk contents, *)
(* its power and the settings applied to it: cleaning erases the disk, and *)
(* manual cleaning configures RAID; deployment writes the image.          *)
(***************************************************************************)
Blank   == "blank"
Foreign == "foreign"    \* what somebody else installed

Disks == Images \union {Blank, Foreign}

Machines == [disk: Disks, power: {"on", "off"}, raid: RAIDs]

ASSUME DiskAssumption == Blank \notin Images /\ Foreign \notin Images

Progress(n) ==
    CASE n.ps = "verifying"    -> [n EXCEPT !.ps = "manageable"]
      [] n.ps = "inspecting"   -> [n EXCEPT !.ps = "inspect wait"]
      [] n.ps = "inspect wait" -> [n EXCEPT !.ps = "manageable", !.inv = TRUE]
      [] n.ps = "cleaning"     -> [n EXCEPT !.ps = "clean wait"]
      [] n.ps = "clean wait"   -> [n EXCEPT !.ps = IF n.manual THEN "manageable" ELSE "available",
                                            !.manual = FALSE, !.raid = "none"]
      [] n.ps = "deploying"    -> [n EXCEPT !.ps = "deploy wait"]
      [] n.ps = "deploy wait"  -> [n EXCEPT !.ps = "active"]
      [] n.ps = "deleting"     -> [n EXCEPT !.ps = "cleaning", !.img = NoImage, !.manual = FALSE, !.raid = "none"]
      [] n.ps = "adopting"     -> [n EXCEPT !.ps = "active"]

ProgressMachine(n, m) ==
    CASE n.ps = "clean wait"   -> [disk |-> Blank, power |-> "off", raid |-> IF n.manual THEN n.raid ELSE m.raid]
      [] n.ps = "deploy wait"  -> [m EXCEPT !.disk = n.img, !.power = "on"]
      [] n.ps = "inspect wait" -> [m EXCEPT !.power = "off"]
      [] OTHER -> m

FailedState(ps) ==
    CASE ps = "verifying" -> "enroll"
      [] ps \in {"inspecting", "inspect wait"} -> "inspect failed"
      [] ps \in {"cleaning", "clean wait"} -> "clean failed"
      [] ps \in {"deploying", "deploy wait"} -> "deploy failed"
      [] ps = "deleting" -> "error"
      [] ps = "adopting" -> "adopt failed"

\* A failed cleaning also puts the node in maintenance.
Failure(n) == [n EXCEPT !.ps = FailedState(n.ps), !.lastErr = TRUE,
                        !.maint = n.maint \/ n.ps \in {"cleaning", "clean wait"}]

=============================================================================
