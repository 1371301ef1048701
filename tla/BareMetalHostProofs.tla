------------------------- MODULE BareMetalHostProofs -------------------------
(***************************************************************************)
(* Proofs about the BareMetalHost controller, for any images, edits,       *)
(* faults and bounds: type correctness, and that a detached or deleted     *)
(* host has released its node.                                             *)
(***************************************************************************)
EXTENDS BareMetalHost, TLAPS

\* A node that is deployed has the image to write.
Deploying == {"deploying", "deploy wait"}

Loaded(n) == n.ps \in Deploying => n.img \in Images

(***************************************************************************)
(* The provisioner.  All methods but Register keep the node they are given *)
(* or remove it: they neither create a node nor change its UUID.           *)
(***************************************************************************)
Keeping(n) ==
    {o \in Outcomes : /\ o.n.uuid = n.uuid
                      /\ n.ps = "absent" => o.n.ps = "absent"
                      /\ Loaded(n) => Loaded(o.n)}

\* An outcome that leaves a node as it was keeps it.
LEMMA OutKeeps ==
    ASSUME NEW n \in Nodes, NEW r \in Results, NEW f \in {0, 1}
    PROVE  [n |-> n, r |-> r, f |-> f] \in Keeping(n)
BY DEF Keeping, Outcomes

\* A call that is refused leaves the node as it was.
LEMMA RefusedKeeps ==
    ASSUME NEW n \in Nodes
    PROVE  Refused(n) \subseteq Keeping(n)
BY OutKeeps DEF Refused, Results

\* An API call keeps the node if what it asks for does.
LEMMA ModifyKeeps ==
    ASSUME NEW n \in Nodes, NEW new \in Nodes, NEW ok \in Results,
           new.uuid = n.uuid, n.ps # "absent", Loaded(n) => Loaded(new)
    PROVE  Modify(n, new, ok) \subseteq Keeping(n)
<1>1. Out(n, "dirty") \in Keeping(n)
  BY OutKeeps DEF Out, Results
<1>2. Out(new, ok) \in Keeping(n)
  BY DEF Out, Keeping, Outcomes
<1>3. QED
  BY <1>1, <1>2, RefusedKeeps DEF Modify

\* tryChangeNodeProvisionState keeps the node if the state change does.
LEMMA TryChangeKeeps ==
    ASSUME NEW n \in Nodes, NEW moved \in Nodes, NEW ok \in Results,
           moved.uuid = n.uuid, n.ps # "absent", Loaded(n) => Loaded(moved)
    PROVE  TryChange(n, moved, ok) \subseteq Keeping(n)
<1>1. /\ [n EXCEPT !.maint = FALSE] \in Nodes
      /\ [n EXCEPT !.maint = FALSE].uuid = n.uuid
      /\ [moved EXCEPT !.lastErr = FALSE] \in Nodes
      /\ [moved EXCEPT !.lastErr = FALSE].uuid = n.uuid
      /\ Loaded(n) => Loaded([n EXCEPT !.maint = FALSE])
      /\ Loaded(n) => Loaded([moved EXCEPT !.lastErr = FALSE])
      /\ "dirty" \in Results
  BY DEF Nodes, Results, Loaded
<1>2. QED
  BY <1>1, ModifyKeeps DEF TryChange

\* The ways the methods move a node.
LEMMA MovesKeep ==
    ASSUME NEW n \in Nodes, n.ps # "absent"
    PROVE  /\ \A ps \in ProvisionStates \ Deploying : To(n, ps) \subseteq Keeping(n)
           /\ \A ps \in ProvisionStates \ Deploying : Abort(n, ps) \subseteq Keeping(n)
           /\ Provide(n) \subseteq Keeping(n)
           /\ \A raid \in RAIDs : Clean(n, raid) \subseteq Keeping(n)
           /\ StartInspection(n) \subseteq Keeping(n)
           /\ \A image \in Images : Deploy(n, image) \subseteq Keeping(n)
<1>1. "dirty" \in Results /\ "started" \in Results
  BY DEF Results
<1>2. {"cleaning", "inspecting", "deploying"} \subseteq ProvisionStates
  BY DEF ProvisionStates, Transient, Busy
<1>3. \A ps \in ProvisionStates \ Deploying : To(n, ps) \subseteq Keeping(n)
  <2> TAKE ps \in ProvisionStates \ Deploying
  <2>1. /\ [n EXCEPT !.ps = ps] \in Nodes /\ [n EXCEPT !.ps = ps].uuid = n.uuid
        /\ Loaded([n EXCEPT !.ps = ps])
    BY DEF Nodes, Loaded
  <2>2. QED
    BY <1>1, <2>1, TryChangeKeeps DEF To
<1>4. \A ps \in ProvisionStates \ Deploying : Abort(n, ps) \subseteq Keeping(n)
  <2> TAKE ps \in ProvisionStates \ Deploying
  <2>1. /\ [n EXCEPT !.ps = ps] \in Nodes /\ [n EXCEPT !.ps = ps].uuid = n.uuid
        /\ Loaded([n EXCEPT !.ps = ps])
    BY DEF Nodes, Loaded
  <2>2. QED
    BY <1>1, <2>1, TryChangeKeeps DEF Abort
<1>5. Provide(n) \subseteq Keeping(n)
  <2> DEFINE new == [n EXCEPT !.ps = "cleaning", !.manual = FALSE]
  <2>1. new \in Nodes /\ new.uuid = n.uuid /\ (Loaded(n) => Loaded(new))
    BY <1>2 DEF Nodes, Loaded, Deploying
  <2>2. QED
    BY <1>1, <2>1, TryChangeKeeps DEF Provide
<1>6. \A raid \in RAIDs : Clean(n, raid) \subseteq Keeping(n)
  <2> TAKE raid \in RAIDs
  <2> DEFINE new == [n EXCEPT !.ps = "cleaning", !.manual = TRUE, !.raid = raid]
  <2>1. new \in Nodes /\ new.uuid = n.uuid /\ (Loaded(n) => Loaded(new))
    BY <1>2 DEF Nodes, Loaded, Deploying
  <2>2. QED
    BY <1>1, <2>1, TryChangeKeeps DEF Clean
<1>7. StartInspection(n) \subseteq Keeping(n)
  <2> DEFINE new == [n EXCEPT !.ps = "inspecting", !.inv = FALSE]
  <2>1. new \in Nodes /\ new.uuid = n.uuid /\ (Loaded(n) => Loaded(new))
    BY <1>2 DEF Nodes, Loaded, Deploying
  <2>2. QED
    BY <1>1, <2>1, TryChangeKeeps DEF StartInspection
<1>8. \A image \in Images : Deploy(n, image) \subseteq Keeping(n)
  <2> TAKE image \in Images
  <2> DEFINE new == [n EXCEPT !.ps = "deploying", !.img = image]
  <2> USE DEF MaybeImage
  <2>1. new \in Nodes /\ new.uuid = n.uuid /\ (Loaded(n) => Loaded(new))
    BY <1>2 DEF Nodes, Loaded, Deploying
  <2>2. [n EXCEPT !.img = image] \in Nodes /\ [n EXCEPT !.img = image].uuid = n.uuid
        /\ Loaded([n EXCEPT !.img = image]) /\ [n EXCEPT !.img = image].ps = n.ps
    BY DEF Nodes, Loaded
  <2>3. \A r \in {"dirty", "error", "failed"} :
           [n |-> [n EXCEPT !.img = image], r |-> r, f |-> 1] \in Keeping(n)
    BY <2>2 DEF Keeping, Outcomes, Results
  <2>4. QED
    BY <1>1, <2>1, <2>3, TryChangeKeeps DEF Deploy
<1>9. QED
  BY <1>3, <1>4, <1>5, <1>6, <1>7, <1>8

\* The results a method gives without a call keep the node.
LEMMA OutsKeep ==
    ASSUME NEW n \in Nodes
    PROVE  \A r \in Results : {Out(n, r)} \subseteq Keeping(n)
BY OutKeeps DEF Out

\* A method that looks its node up with getNode keeps it if what it then does keeps
\* an existing one.
LEMMA ForNodeKeeps ==
    ASSUME NEW n \in Nodes, NEW id, NEW outcomes,
           n.ps # "absent" => outcomes \subseteq Keeping(n)
    PROVE  ForNode(n, id, outcomes) \subseteq Keeping(n)
<1>1. [n |-> n, r |-> "error", f |-> 1] \in Keeping(n) /\ {Out(n, "unregistered")} \subseteq Keeping(n)
  BY OutKeeps, OutsKeep DEF Results
<1>2. QED
  BY <1>1 DEF ForNode, GetNode

\* Gone forgets everything about a node but its UUID.
LEMMA GoneKeeps ==
    ASSUME NEW n \in Nodes
    PROVE  Gone(n) \in Nodes /\ Gone(n).uuid = n.uuid /\ Gone(n).ps = "absent" /\ Loaded(Gone(n))
BY DEF Gone, FreshNode, Nodes, ProvisionStates, RAIDs, MaybeImage, Loaded, Deploying

\* InspectHardware, Prepare, Provision, Adopt and Deprovision keep the node.
LEMMA OperationsKeep ==
    ASSUME NEW n \in Nodes, NEW id,
           NEW restart \in BOOLEAN
    PROVE  /\ \A refresh \in BOOLEAN : InspectHardware(n, id, restart, refresh) \subseteq Keeping(n)
           /\ \A raid \in RAIDs, unprepared, needed \in BOOLEAN :
                 Prepare(n, id, raid, unprepared, needed, restart) \subseteq Keeping(n)
           /\ \A image \in Images : Provision(n, id, image) \subseteq Keeping(n)
           /\ \A state \in States : Adopt(n, id, state, restart) \subseteq Keeping(n)
           /\ Deprovision(n, id, restart) \subseteq Keeping(n)
<1> USE OutsKeep, MovesKeep
<1>1. /\ "complete" \in Results /\ "dirty" \in Results /\ "failed" \in Results
      /\ "error" \in Results
      /\ {"manageable", "adopting", "deleting"} \subseteq ProvisionStates \ Deploying
  BY DEF Results, ProvisionStates, Transient, Busy, Deploying
<1>2. \A refresh \in BOOLEAN : InspectHardware(n, id, restart, refresh) \subseteq Keeping(n)
  <2> TAKE refresh \in BOOLEAN
  <2> QED
    BY <1>1, ForNodeKeeps DEF InspectHardware
<1>3. \A raid \in RAIDs, unprepared, needed \in BOOLEAN :
         Prepare(n, id, raid, unprepared, needed, restart) \subseteq Keeping(n)
  <2> TAKE raid \in RAIDs, unprepared, needed \in BOOLEAN
  <2> QED
    BY <1>1, ForNodeKeeps DEF Prepare
<1>4. \A image \in Images : Provision(n, id, image) \subseteq Keeping(n)
  <2> TAKE image \in Images
  <2> QED
    BY <1>1, ForNodeKeeps DEF Provision
<1>5. \A state \in States : Adopt(n, id, state, restart) \subseteq Keeping(n)
  <2> TAKE state \in States
  <2> DEFINE new == [n EXCEPT !.maint = FALSE]
  <2>1. n.ps # "absent" => Modify(n, new, "dirty") \subseteq Keeping(n)
    <3>1. new \in Nodes /\ new.uuid = n.uuid /\ (Loaded(n) => Loaded(new))
      BY DEF Nodes, Loaded
    <3>2. QED
      BY <1>1, <3>1, ModifyKeeps
  <2>2. QED
    BY <1>1, <2>1, ForNodeKeeps DEF Adopt
<1>6. Deprovision(n, id, restart) \subseteq Keeping(n)
  BY <1>1, ForNodeKeeps DEF Deprovision
<1>7. QED
  BY <1>2, <1>3, <1>4, <1>5, <1>6

\* A change that is reported as "dirty" is never reported as complete.
LEMMA DirtyIsIncomplete ==
    ASSUME NEW n, NEW new
    PROVE  /\ \A o \in Modify(n, new, "dirty") : o.r # "complete"
           /\ \A o \in TryChange(n, new, "dirty") : o.r # "complete"
<1>1. ASSUME NEW x PROVE \A o \in Modify(n, x, "dirty") : o.r # "complete"
  BY DEF Modify, Refused, Out
<1>2. QED
  BY <1>1 DEF TryChange

\* Delete and Detach keep the node or remove it, and are complete only when there is
\* no node under the given ID.
LEMMA DetachKeeps ==
    ASSUME NEW n \in Nodes, NEW id, NEW force \in BOOLEAN
    PROVE  /\ Detach(n, id, force) \subseteq Keeping(n)
           /\ \A o \in Detach(n, id, force) : o.r = "complete" => o.n = n /\ ~GetNode(n, id)
<1> USE OutsKeep, MovesKeep
<1>1. /\ "dirty" \in Results /\ "complete" \in Results /\ "error" \in Results
      /\ {"deploy failed", "inspect failed", "clean failed", "deleting"}
            \subseteq ProvisionStates \ Deploying
  BY DEF Results, ProvisionStates, Failed, Transient, Busy, Deploying
<1>2. ASSUME n.ps # "absent"
      PROVE  RealDelete(n, force) \subseteq Keeping(n)
  <2>1. Modify(n, Gone(n), "dirty") \subseteq Keeping(n)
    BY <1>1, <1>2, GoneKeeps, ModifyKeeps
  <2>2. \A new \in {Gone(n), [n EXCEPT !.maint = TRUE]} :
           Modify(n, new, "dirty") \subseteq Keeping(n)
    <3>1. /\ [n EXCEPT !.maint = TRUE] \in Nodes /\ [n EXCEPT !.maint = TRUE].uuid = n.uuid
          /\ Loaded(n) => Loaded([n EXCEPT !.maint = TRUE])
      BY DEF Nodes, Loaded
    <3>2. QED
      BY <1>1, <1>2, <2>1, <3>1, ModifyKeeps
  <2>3. AbortDeployment(n) \subseteq Keeping(n)
    BY <1>1, <1>2 DEF AbortDeployment
  <2>4. QED
    BY <1>1, <1>2, <2>1, <2>2, <2>3 DEF RealDelete
<1>3. \A o \in RealDelete(n, force) : o.r # "complete"
  <2>1. \A o \in {Out(n, "dirty")} : o.r # "complete"
    BY DEF Out
  <2>2. \A ps : \A o \in Abort(n, ps) : o.r # "complete"
    BY DirtyIsIncomplete DEF Abort
  <2>3. \A o \in AbortDeployment(n) : o.r # "complete"
    BY <2>2, DirtyIsIncomplete DEF AbortDeployment, To
  <2>4. QED
    BY <2>1, <2>2, <2>3, DirtyIsIncomplete DEF RealDelete
<1>4. Detach(n, id, force) \subseteq Keeping(n)
  <2>1. [n |-> n, r |-> "error", f |-> 1] \in Keeping(n)
    BY <1>1, OutKeeps
  <2>2. QED
    BY <1>1, <1>2, <2>1 DEF Detach, GetNode
<1>5. \A o \in Detach(n, id, force) : o.r = "complete" => o.n = n /\ ~GetNode(n, id)
  BY <1>3 DEF Detach, Out
<1>6. QED
  BY <1>4, <1>5

\* PowerOn and PowerOff keep the node.
LEMMA PowerKeeps ==
    ASSUME NEW n \in Nodes, NEW id, NEW power, NEW force \in BOOLEAN
    PROVE  /\ PowerOn(n, id, power, force) \subseteq Keeping(n)
           /\ PowerOff(n, id, power, force) \subseteq Keeping(n)
<1> USE OutsKeep, MovesKeep
<1>1. /\ "complete" \in Results /\ "dirty" \in Results /\ "failed" \in Results
      /\ {"manageable", "inspect failed", "clean failed"} \subseteq ProvisionStates \ Deploying
  BY DEF Results, ProvisionStates, Failed, Deploying
<1>2. ASSUME n.ps # "absent", NEW target \in {"on", "off"}
      PROVE  PowerChange(n, power, target, force) \subseteq Keeping(n)
  <2> DEFINE new == [n EXCEPT !.power = target, !.lastErr = FALSE]
  <2>1. new \in Nodes /\ new.uuid = n.uuid /\ (Loaded(n) => Loaded(new))
    BY DEF Nodes, Loaded
  <2>2. Modify(n, new, "dirty") \subseteq Keeping(n)
    BY <1>1, <1>2, <2>1, ModifyKeeps
  <2>3. ChangePower(n, target) \subseteq Keeping(n)
    BY <1>1, <2>2 DEF ChangePower
  <2>4. QED
    BY <1>1, <2>3 DEF PowerChange
<1>3. ASSUME n.ps # "absent"
      PROVE  AbortInspectionOrCleaning(n) \subseteq Keeping(n)
  BY <1>1, <1>3 DEF AbortInspectionOrCleaning
<1>4. PowerOn(n, id, power, force) \subseteq Keeping(n)
  BY <1>2, ForNodeKeeps DEF PowerOn
<1>5. PowerOff(n, id, power, force) \subseteq Keeping(n)
  BY <1>2, <1>3, ForNodeKeeps DEF PowerOff
<1>6. QED
  BY <1>4, <1>5

\* Register keeps an existing node; a node it creates gets a UUID never used before.
LEMMA RegisterIdentity ==
    ASSUME NEW n \in Nodes, NEW credsChanged \in BOOLEAN, NEW restart \in BOOLEAN,
           NEW o \in Register(n, credsChanged, restart)
    PROVE  /\ o \in Outcomes
           /\ \/ o \in Keeping(n)
              \/ o.n.uuid = n.uuid + 1 /\ Loaded(o.n)
<1> USE OutsKeep, MovesKeep
<1>1. /\ "complete" \in Results /\ "dirty" \in Results /\ "failed" \in Results
      /\ "verifying" \in ProvisionStates \ Deploying
  BY DEF Results, ProvisionStates, Transient, Deploying
<1>2. CASE n.ps = "absent"
  <2> DEFINE new == FreshNode("enroll", n.uuid + 1)
  <2>1. new \in Nodes /\ new.uuid = n.uuid + 1 /\ new.ps # "absent" /\ Loaded(new)
    <3>1. n.uuid + 1 \in Nat
      BY DEF Nodes
    <3>2. new \in Nodes
      BY <3>1 DEF FreshNode, Nodes, ProvisionStates, RAIDs, MaybeImage
    <3>3. new.uuid = n.uuid + 1 /\ new.ps = "enroll"
      BY DEF FreshNode
    <3>4. QED
      BY <3>2, <3>3 DEF Loaded, Deploying
  <2>2. To(new, "verifying") \subseteq Keeping(new)
    BY <1>1, <2>1
  <2>3. o \in Refused(n) \union To(new, "verifying")
    BY <1>2 DEF Register, EnrollNode
  <2>4. QED
    BY <2>1, <2>2, <2>3, RefusedKeeps DEF Keeping
<1>3. CASE n.ps # "absent"
  <2>1. Register(n, credsChanged, restart) \subseteq Keeping(n)
    BY <1>1, <1>3, RefusedKeeps DEF Register
  <2>2. QED
    BY <2>1 DEF Keeping
<1>4. QED
  BY <1>2, <1>3

-----------------------------------------------------------------------------
(***************************************************************************)
(* The inductive invariant.  TypeOK needs the image of a node that is      *)
(* being deployed.  NodeReleased alone is not inductive either: a host     *)
(* without finalizer may vanish at once (so it must not have recorded a    *)
(* node yet), and Register may create a node for a host that was detached  *)
(* behind the cache's back (so the new UUID must differ from every         *)
(* recorded one).                                                          *)
(***************************************************************************)
Safe(h, n) ==
    /\ h.id <= n.uuid
    /\ h.op = "detached" \/ ~h.exists => ~GetNode(n, h.id)
    /\ h.exists /\ ~h.fin => h.id = 0

IInv ==
    /\ TypeOK
    /\ Loaded(node)
    /\ Safe(host, node)
    /\ cache.id <= node.uuid

\* The hosts a state handler may write when the node is n.
Workable(n) ==
    {h \in Hosts : h.exists /\ h.fin /\ h.op # "detached" /\ h.id <= n.uuid}

\* What the controller writes is safe.
LEMMA WorkableIsSafe ==
    ASSUME NEW n \in Nodes, NEW h \in Workable(n)
    PROVE  h \in Hosts /\ Safe(h, n)
BY DEF Workable, Safe

\* What the provisioner does to the node leaves the recorded host safe, also when
\* the reconcile that called it had read an old copy.
LEMMA OutcomeKeepsSafe ==
    ASSUME NEW n \in Nodes, NEW h \in Hosts, NEW o \in Outcomes,
           Safe(h, n),
           o \in Keeping(n) \/ o.n.uuid = n.uuid + 1
    PROVE  Safe(h, o.n) /\ n.uuid <= o.n.uuid /\ o.n \in Nodes
<1>1. n.uuid \in Nat /\ o.n.uuid \in Nat /\ h.id \in Nat /\ o.n \in Nodes
  BY DEF Nodes, Outcomes, Hosts
<1>2. QED
  BY <1>1 DEF Safe, Keeping, GetNode

\* The end of a reconcile that saves.
LEMMA CommitKeeps ==
    ASSUME IInv, NEW o \in Outcomes, NEW h \in Hosts,
           o \in Keeping(node) \/ (o.n.uuid = node.uuid + 1 /\ Loaded(o.n)),
           cache = host => Safe(h, o.n),
           Commit(o, h)
    PROVE  IInv'
<1>1. Safe(host, o.n) /\ node.uuid <= o.n.uuid /\ o.n \in Nodes
  BY OutcomeKeepsSafe DEF IInv, TypeOK
<1>2. Safe(host', node') /\ host' \in Hosts /\ node' \in Nodes
  BY <1>1 DEF Commit, IInv, TypeOK
<1>3. faults' \in 0..MaxFaults
  BY BoundsAssumption DEF Commit, Spend, Outcomes, IInv, TypeOK
<1>4. cache'.id <= node'.uuid /\ Loaded(node')
  BY <1>1 DEF Commit, IInv, TypeOK, Nodes, Hosts, Keeping
<1>5. QED
  BY <1>2, <1>3, <1>4 DEF Commit, IInv, TypeOK

\* The end of a reconcile that saves nothing.
LEMMA DiscardKeeps ==
    ASSUME IInv, NEW o \in Outcomes,
           o \in Keeping(node) \/ (o.n.uuid = node.uuid + 1 /\ Loaded(o.n)),
           Discard(o)
    PROVE  IInv'
<1>1. Safe(host, o.n) /\ node.uuid <= o.n.uuid /\ o.n \in Nodes
  BY OutcomeKeepsSafe DEF IInv, TypeOK
<1>2. faults' \in 0..MaxFaults
  BY BoundsAssumption DEF Discard, Spend, Outcomes, IInv, TypeOK
<1>3. cache'.id <= node'.uuid /\ Loaded(node')
  BY <1>1 DEF Discard, IInv, TypeOK, Nodes, Hosts, Keeping
<1>4. QED
  BY <1>1, <1>2, <1>3 DEF Discard, IInv, TypeOK

\* The end of a reconcile whose provisioner calls kept the node, in the form the
\* handlers use it.
LEMMA HandlerKeeps ==
    ASSUME IInv, NEW o \in Keeping(node)
    PROVE  /\ Discard(o) => IInv'
           /\ \A h \in Workable(node) : Commit(o, h) => IInv'
           /\ \A h \in Workable(node) : \A old : CommitIfChanged(o, h, old) => IInv'
<1>1. o \in Outcomes /\ node \in Nodes /\ o.n \in Nodes /\ o.n.uuid = node.uuid
  BY DEF Keeping, Outcomes, IInv, TypeOK
<1>2. Discard(o) => IInv'
  BY <1>1, DiscardKeeps
<1>3. ASSUME NEW h \in Workable(node), Commit(o, h) PROVE IInv'
  <2>1. h \in Workable(o.n)
    BY <1>1 DEF Workable
  <2>2. h \in Hosts /\ Safe(h, o.n)
    BY <1>1, <2>1, WorkableIsSafe
  <2>3. QED
    BY <1>1, <1>3, <2>2, CommitKeeps
<1>4. QED
  BY <1>2, <1>3 DEF CommitIfChanged

\* The status helpers keep a workable host workable.
LEMMA HelpersKeep ==
    ASSUME NEW n \in Nodes, NEW h \in Workable(n)
    PROVE  /\ ClearError(h) \in Workable(n)
           /\ \A t \in ErrorTypes : Fail(h, t) \in Workable(n)
           /\ ResetErrors(h) \in Workable(n)
           /\ ClearSettings(h) \in Workable(n)
           /\ \A s \in States : [h EXCEPT !.state = s] \in Workable(n)
           /\ \A s \in States : \A m : MoveTo(h, s, m) \in Workable(n)
           /\ \A b \in BOOLEAN : [h EXCEPT !.powered = b] \in Workable(n)
           /\ \A b \in BOOLEAN : [h EXCEPT !.refresh = b] \in Workable(n)
           /\ \A i \in MaybeImage : [h EXCEPT !.pimage = i] \in Workable(n)
           /\ \A c \in RecordedRAIDs : [h EXCEPT !.praid = c] \in Workable(n)
           /\ \A c \in Nat, b \in BOOLEAN : [h EXCEPT !.good = c, !.open = b] \in Workable(n)
           /\ \A c \in Nat, b \in BOOLEAN : [h EXCEPT !.tried = c, !.open = b] \in Workable(n)
           /\ [h EXCEPT !.profile = TRUE] \in Workable(n)
<1>1. ClearError(h) \in Workable(n)
  BY DEF ClearError, Workable, Hosts, OperationalStatuses, ErrorTypes
<1>2. \A t \in ErrorTypes : Fail(h, t) \in Workable(n)
  <2> DEFINE more == IF h.errCount > retryCount THEN h.errCount ELSE h.errCount + 1
  <2>1. more \in 0..retryCount + 1
    BY DEF Workable, Hosts, retryCount
  <2>2. \A t \in ErrorTypes, c \in 0..retryCount + 1 :
           [h EXCEPT !.op = "error", !.errType = t, !.errCount = c] \in Workable(n)
    BY DEF Workable, Hosts, OperationalStatuses
  <2> HIDE DEF more
  <2>3. \A t \in ErrorTypes :
           [h EXCEPT !.op = "error", !.errType = t, !.errCount = more] \in Workable(n)
    BY <2>1, <2>2
  <2>4. QED
    BY <2>3 DEF Fail, more
<1>3. ResetErrors(h) \in Workable(n)
  BY DEF ResetErrors, Workable, Hosts, retryCount
<1>4. ClearSettings(h) \in Workable(n)
  <2>1. Cleared(h.praid) \in RecordedRAIDs
    BY DEF Cleared, RecordedRAIDs, RAIDs
  <2>2. \A c \in RecordedRAIDs : [h EXCEPT !.praid = c, !.profile = FALSE] \in Workable(n)
    BY DEF Workable, Hosts
  <2>3. QED
    BY <2>1, <2>2 DEF ClearSettings
<1>5. \A s \in States : [h EXCEPT !.state = s] \in Workable(n)
  BY DEF Workable, Hosts
<1>6. [h EXCEPT !.op = "delayed"] \in Workable(n)
  BY DEF Workable, Hosts, OperationalStatuses
<1>7. \A s \in States : \A m : MoveTo(h, s, m) \in Workable(n)
  <2>1. \A s \in States, b \in BOOLEAN : [h EXCEPT !.state = s, !.open = b] \in Workable(n)
    BY DEF Workable, Hosts
  <2>2. \A s \in States : (s = "registering" \/ (h.open /\ h.state # "registering")) \in BOOLEAN
    OBVIOUS
  <2>3. QED
    BY <1>6, <2>1, <2>2 DEF MoveTo
<1>8. /\ \A b \in BOOLEAN : [h EXCEPT !.powered = b] \in Workable(n)
      /\ \A b \in BOOLEAN : [h EXCEPT !.refresh = b] \in Workable(n)
  BY DEF Workable, Hosts
<1>9. \A i \in MaybeImage : [h EXCEPT !.pimage = i] \in Workable(n)
  BY DEF Workable, Hosts
<1>10. /\ \A c \in RecordedRAIDs : [h EXCEPT !.praid = c] \in Workable(n)
       /\ \A c \in Nat, b \in BOOLEAN : [h EXCEPT !.good = c, !.open = b] \in Workable(n)
       /\ \A c \in Nat, b \in BOOLEAN : [h EXCEPT !.tried = c, !.open = b] \in Workable(n)
       /\ [h EXCEPT !.profile = TRUE] \in Workable(n)
  BY DEF Workable, Hosts
<1>11. QED
  BY <1>1, <1>2, <1>3, <1>4, <1>5, <1>7, <1>8, <1>9, <1>10

\* A host that is workable for a node is so for a later one, also under its ID.
LEMMA LaterNodeKeeps ==
    ASSUME NEW n \in Nodes, NEW later \in Nodes, n.uuid <= later.uuid,
           NEW h \in Workable(n)
    PROVE  h \in Workable(later) /\ [h EXCEPT !.id = later.uuid] \in Workable(later)
<1>1. n.uuid \in Nat /\ later.uuid \in Nat /\ h.id \in Nat
  BY DEF Nodes, Workable, Hosts
<1>2. h \in Workable(later)
  BY <1>1 DEF Workable
<1>3. [h EXCEPT !.id = later.uuid] \in Workable(later)
  BY <1>1 DEF Workable, Hosts
<1>4. QED
  BY <1>2, <1>3

\* What registerHost writes before and after the call of Register.
LEMMA TriedIsWorkable ==
    ASSUME NEW n \in Nodes, cache \in Workable(n), secret \in Nat
    PROVE  Tried \in Workable(n)
<1>1. (cache.open \/ Retrying) \in BOOLEAN
  OBVIOUS
<1>2. QED
  BY <1>1, HelpersKeep DEF Tried

\* The host with the ID that Register reported, and with its credentials accepted.
LEMMA AcceptedIsWorkable ==
    ASSUME NEW o, o.n \in Nodes, Tried \in Workable(o.n), secret \in Nat
    PROVE  Identified(Tried, o) \in Workable(o.n) /\ Accepted(o) \in Workable(o.n)
<1>1. [Tried EXCEPT !.id = o.n.uuid] \in Workable(o.n)
  <2>1. o.n.uuid \in Nat /\ o.n.uuid <= o.n.uuid
    BY DEF Nodes
  <2>2. QED
    BY <2>1, LaterNodeKeeps
<1>2. Identified(Tried, o) \in Workable(o.n)
  BY <1>1, HelpersKeep DEF Identified
<1> DEFINE b == Identified(Tried, o).open /\ cache.state = "registering"
           h == [Identified(Tried, o) EXCEPT !.good = secret, !.open = b]
<1>3. b \in BOOLEAN
  OBVIOUS
<1> HIDE DEF b
<1>4. h \in Workable(o.n)
  BY <1>2, <1>3, HelpersKeep
<1>5. ClearError(h) \in Workable(o.n)
  <2> HIDE DEF h
  <2>1. QED
    BY <1>4, HelpersKeep
<1>6. Accepted(o) \in {h, ClearError(h)}
  BY DEF Accepted, b
<1>7. QED
  BY <1>2, <1>4, <1>5, <1>6

\* What the controller read is workable when the host is attached, and so is what
\* it holds in memory after registerHost.
LEMMA CurrentIsWorkable ==
    ASSUME IInv, Attached
    PROVE  /\ node \in Nodes
           /\ cache \in Workable(node)
           /\ Tried \in Workable(node)
           /\ Current \in Workable(node)
<1>1. node \in Nodes /\ secret \in Nat
  BY DEF IInv, TypeOK
<1>2. cache \in Workable(node)
  BY DEF IInv, TypeOK, Attached, Undeleted, Undelayed, CredentialsResolved, Reconciling, Workable
<1>3. Tried \in Workable(node)
  BY <1>1, <1>2, TriedIsWorkable
<1>4. NoCall.n = node
  BY DEF NoCall, Out
<1>5. Accepted(NoCall) \in Workable(node)
  BY <1>1, <1>3, <1>4, AcceptedIsWorkable
<1>6. QED
  BY <1>1, <1>2, <1>3, <1>5 DEF Current

\* A reconcile that does not call the provisioner keeps the node.
LEMMA NoCallKeeps ==
    ASSUME IInv
    PROVE  NoCall \in Keeping(node) /\ NoCall \in Outcomes /\ NoCall.n = node
<1>1. node \in Nodes /\ "complete" \in Results
  BY DEF IInv, TypeOK, Results
<1>2. NoCall \in Keeping(node)
  BY <1>1, OutsKeep DEF NoCall
<1>3. QED
  BY <1>2 DEF Keeping, NoCall, Out

\* What saveHostProvisioningSettings records is a RAID configuration.
LEMMA TargetRAIDType ==
    ASSUME NEW h \in Hosts
    PROVE  /\ TargetRAID(h) \in RecordedRAIDs /\ Volumes(TargetRAID(h)) \in RAIDs
           /\ HasRAIDSteps(TargetRAID(h), ActualRAID(h)) \in BOOLEAN
<1>1. TargetRAID(h) \in RecordedRAIDs
  BY DEF Hosts, TargetRAID, RecordedRAIDs, RAIDs
<1>2. QED
  BY <1>1 DEF Volumes, RecordedRAIDs, RAIDs, HasRAIDSteps

\* The fields of what the controller read.
LEMMA CacheFields ==
    ASSUME IInv
    PROVE  /\ node \in Nodes /\ cache \in Hosts
           /\ cache.raid \in RAIDs /\ cache.praid \in RecordedRAIDs /\ cache.image \in MaybeImage
           /\ cache.state \in States /\ cache.online \in BOOLEAN
           /\ secret \in Nat
           /\ NoImage \in MaybeImage
BY DEF IInv, TypeOK, Hosts, MaybeImage

\* checkInitiateDelete goes to a state.
LEMMA DeletionStateIsState ==
    ASSUME IInv
    PROVE  DeletionState \in States
BY CacheFields DEF DeletionState, States

\* The steps of Reconcile before the state handlers, when the host is not attached.
LEMMA EarlyStepsKeep ==
    ASSUME IInv,
           AddFinalizer \/ CredentialsError \/ CheckDelayedHost \/ InitiateDelete
             \/ DetachHost \/ ReattachHost
    PROVE  IInv'
<1> USE NoCallKeeps, CacheFields
<1>1. CASE AddFinalizer
  <2> DEFINE h == [cache EXCEPT !.fin = TRUE]
  <2>1. h \in Hosts
    BY DEF Hosts
  <2>2. cache = host => Safe(h, node)
    BY DEF IInv, Safe, Hosts
  <2>3. QED
    BY <1>1, <2>1, <2>2, CommitKeeps DEF AddFinalizer
<1>2. CASE CredentialsError
  <2>1. Fail(cache, "registration error") \in Workable(node)
    <3>1. [cache EXCEPT !.op = "OK"] \in Workable(node)
      BY <1>2 DEF CredentialsError, Reconciling, IInv, Workable, Hosts, OperationalStatuses
    <3>2. Fail([cache EXCEPT !.op = "OK"], "registration error") \in Workable(node)
      BY <3>1, HelpersKeep DEF ErrorTypes
    <3>3. Fail([cache EXCEPT !.op = "OK"], "registration error") = Fail(cache, "registration error")
      BY DEF Fail, Hosts
    <3>4. QED
      BY <3>2, <3>3
  <2>2. QED
    BY <1>2, <2>1, HandlerKeeps DEF CredentialsError
<1>3. CASE CheckDelayedHost
  <2>1. /\ ClearError(cache) \in Workable(node)
        /\ [cache EXCEPT !.op = "delayed"] \in Workable(node)
    BY <1>3 DEF CheckDelayedHost, CredentialsResolved, Reconciling, IInv, ClearError,
                Workable, Hosts, OperationalStatuses, ErrorTypes
  <2>2. QED
    BY <1>3, <2>1, HandlerKeeps DEF CheckDelayedHost
<1>4. CASE InitiateDelete
  <2> DEFINE h == MoveTo(cache, DeletionState, node)
  <2>1. /\ h \in Hosts /\ h.id = cache.id /\ h.exists = cache.exists /\ h.fin = cache.fin
        /\ h.op \in {cache.op, "delayed"}
    <3> DEFINE next == DeletionState
               b == next = "registering" \/ (cache.open /\ cache.state # "registering")
    <3>1. next \in States /\ b \in BOOLEAN
      BY DeletionStateIsState
    <3>2. h \in {[cache EXCEPT !.op = "delayed"], [cache EXCEPT !.state = next, !.open = b]}
      BY DEF MoveTo
    <3> HIDE DEF next, b, h
    <3>3. CASE h = [cache EXCEPT !.op = "delayed"]
      BY <3>3 DEF Hosts, OperationalStatuses
    <3>4. CASE h = [cache EXCEPT !.state = next, !.open = b]
      BY <3>1, <3>4 DEF Hosts
    <3>5. QED
      BY <3>2, <3>3, <3>4
  <2>2. cache = host => Safe(h, node)
    BY <1>4, <2>1 DEF InitiateDelete, Undelayed, CredentialsResolved, Reconciling, IInv, Safe
  <2> HIDE DEF h
  <2>3. Commit(NoCall, h)
    BY <1>4 DEF InitiateDelete, h
  <2>4. QED
    BY <2>1, <2>2, <2>3, CommitKeeps
<1>5. CASE DetachHost
  <2> DEFINE force == cache.state \notin Detachable
             h == [cache EXCEPT !.op = "detached"]
  <2>1. PICK o \in Detach(node, cache.id, force) :
           \/ o.r = "complete" /\ CommitIfChanged(o, h, cache)
           \/ o.r # "complete" /\ Discard(o)
    BY <1>5 DEF DetachHost
  <2>2. o \in Keeping(node) /\ (o.r = "complete" => o.n = node /\ ~GetNode(node, cache.id))
    BY <2>1, DetachKeeps
  <2>3. o \in Outcomes
    BY <2>2 DEF Keeping
  <2>4. Discard(o) => IInv'
    BY <2>2, <2>3, DiscardKeeps
  <2>5. ASSUME o.r = "complete", Commit(o, h) PROVE IInv'
    <3>1. h \in Hosts /\ h.id = cache.id /\ h.exists = cache.exists /\ h.fin = cache.fin
      BY DEF Hosts, OperationalStatuses
    <3>2. Safe(h, o.n)
      BY <1>5, <2>2, <2>5, <3>1
         DEF DetachHost, Undeleted, Undelayed, CredentialsResolved, Reconciling, IInv, Safe
    <3>3. QED
      BY <2>2, <2>3, <2>5, <3>1, <3>2, CommitKeeps
  <2>6. QED
    BY <2>1, <2>4, <2>5 DEF CommitIfChanged
<1>6. CASE ReattachHost
  <2> DEFINE h == [cache EXCEPT !.op = IF cache.errType = "none" THEN "OK" ELSE "error"]
  <2>1. h \in Workable(node)
    BY <1>6 DEF ReattachHost, Undeleted, Undelayed, CredentialsResolved, Reconciling, IInv,
                Workable, Hosts, OperationalStatuses
  <2>2. QED
    BY <1>6, <2>1, HandlerKeeps DEF ReattachHost
<1>7. QED
  BY <1>1, <1>2, <1>3, <1>4, <1>5, <1>6

\* registerHost, the only step that may create a node.
LEMMA RegisterHostKeeps ==
    ASSUME IInv, RegisterHost
    PROVE  IInv'
<1>1. Attached
  BY DEF RegisterHost
<1>2. node \in Nodes /\ Tried \in Workable(node) /\ secret \in Nat
  BY <1>1, CurrentIsWorkable, CacheFields
<1>3. PICK o \in Register(node, cache.tried # secret, cache.errType = "registration error") :
         LET h == Identified(Tried, o)
         IN
         \/ o.r = "error"  /\ Discard(o)
         \/ o.r = "failed" /\ Commit(o, Fail(Tried, "registration error"))
         \/ o.r = "dirty"  /\ CommitIfChanged(o, ClearError(h), [cache EXCEPT !.open = h.open])
         \/ o.r = "complete" /\ ~h.profile /\ Commit(o, [h EXCEPT !.profile = TRUE])
         \/ o.r = "complete" /\ h.profile /\ RegistrationDirty /\ Commit(o, Accepted(o))
  BY DEF RegisterHost
<1>4. o \in Outcomes /\ (o \in Keeping(node) \/ (o.n.uuid = node.uuid + 1 /\ Loaded(o.n)))
  BY <1>2, <1>3, RegisterIdentity
<1>5. o.n \in Nodes /\ node.uuid <= o.n.uuid
  BY <1>4, OutcomeKeepsSafe DEF IInv, TypeOK
<1>6. Tried \in Workable(o.n)
  BY <1>2, <1>5, LaterNodeKeeps
<1>7. Identified(Tried, o) \in Workable(o.n) /\ Accepted(o) \in Workable(o.n)
  BY <1>2, <1>5, <1>6, AcceptedIsWorkable
<1>8. ASSUME NEW h \in Workable(o.n), Commit(o, h) PROVE IInv'
  BY <1>4, <1>5, <1>8, WorkableIsSafe, CommitKeeps
<1>9. Discard(o) => IInv'
  BY <1>4, DiscardKeeps
<1>10. /\ Fail(Tried, "registration error") \in Workable(o.n)
       /\ ClearError(Identified(Tried, o)) \in Workable(o.n)
       /\ [Identified(Tried, o) EXCEPT !.profile = TRUE] \in Workable(o.n)
  BY <1>2, <1>5, <1>6, <1>7, HelpersKeep DEF ErrorTypes
<1>11. QED
  BY <1>3, <1>7, <1>8, <1>9, <1>10 DEF CommitIfChanged

\* The handlers of the states before a host is available.
LEMMA PreparationKeeps ==
    ASSUME IInv,
           HandleNone \/ HandleUnmanaged \/ HandleRegistering \/ HandleInspecting
             \/ HandlePreparing
    PROVE  IInv'
<1>1. Attached
  BY DEF HandleNone, HandleUnmanaged, HandleRegistering, HandleInspecting, HandlePreparing,
         In, Registered
<1>2. cache \in Workable(node) /\ Current \in Workable(node)
  BY <1>1, CurrentIsWorkable
<1>3. {"unmanaged", "registering", "externally provisioned", "inspecting", "preparing",
       "available"} \subseteq States
  BY DEF States
<1>4. {"inspection error", "preparation error"} \subseteq ErrorTypes
  BY DEF ErrorTypes
<1>0. [cache EXCEPT !.op = "discovered"] \in Workable(node)
  BY <1>2 DEF Workable, Hosts, OperationalStatuses
<1> USE <1>2, <1>3, <1>4, CacheFields, NoCallKeeps, HelpersKeep
<1>5. CASE HandleNone
  BY <1>0, <1>5, HandlerKeeps DEF HandleNone
<1>6. CASE HandleUnmanaged
  BY <1>6, HandlerKeeps DEF HandleUnmanaged
<1>7. CASE HandleRegistering
  <2> DEFINE next == CASE cache.ext -> "externally provisioned"
                       [] ~cache.ext /\ cache.inspect -> "inspecting"
                       [] OTHER -> "preparing"
  <2>1. next \in States
    OBVIOUS
  <2> HIDE DEF next
  <2>2. MoveTo(ResetErrors(Current), next, node) \in Workable(node)
    BY <2>1
  <2>3. QED
    BY <1>7, <2>2, HandlerKeeps DEF HandleRegistering, next
<1>8. CASE HandleInspecting
  <2>1. CASE ~cache.inspect
    BY <1>8, <2>1, HandlerKeeps DEF HandleInspecting
  <2>2. CASE cache.inspect
    <3>1. PICK o \in InspectHardware(node, cache.id, cache.errType = "inspection error",
                                     cache.refresh) :
             \/ o.r \in {"error", "unregistered"} /\ Discard(o)
             \/ o.r = "failed" /\ Commit(o, Fail(Current, "inspection error"))
             \/ /\ o.r = "started" /\ cache.refresh
                /\ Commit(o, [cache EXCEPT !.refresh = FALSE])
             \/ /\ o.r = "dirty" \/ (o.r = "started" /\ ~cache.refresh)
                /\ CommitIfChanged(o, ClearError(Current), Current)
             \/ /\ o.r = "complete"
                /\ Commit(o, [ResetErrors(ClearError(Current)) EXCEPT !.state = "preparing"])
      BY <1>8, <2>2 DEF HandleInspecting
    <3>2. cache.refresh \in BOOLEAN
      BY DEF Hosts
    <3>3. o \in Keeping(node)
      BY <3>1, <3>2, OperationsKeep
    <3>4. QED
      BY <3>1, <3>3, HandlerKeeps
  <2>3. QED
    BY <2>1, <2>2
<1>9. CASE HandlePreparing
  <2> DEFINE dirty == SettingsDirty(cache) \/ cache.errType = "preparation error"
             saved == ClearError([Current EXCEPT !.praid = TargetRAID(cache)])
             needed == HasRAIDSteps(TargetRAID(cache), ActualRAID(cache))
  <2>1. PICK o \in Prepare(node, cache.id, Volumes(TargetRAID(cache)), dirty, needed,
                           cache.errType = "preparation error") :
           \/ o.r \in {"error", "unregistered"} /\ Discard(o)
           \/ /\ o.r = "failed"
              /\ Commit(o, Fail(IF dirty THEN ClearSettings(Current) ELSE Current,
                                "preparation error"))
           \/ o.r = "started" /\ Commit(o, saved)
           \/ o.r = "dirty" /\ dirty  /\ Commit(o, Current)
           \/ o.r = "dirty" /\ ~dirty /\ CommitIfChanged(o, Current, Current)
           \/ /\ o.r = "complete"
              /\ Commit(o, [ResetErrors(IF dirty THEN saved ELSE Current)
                              EXCEPT !.state = "available"])
    BY <1>9 DEF HandlePreparing
  <2>2. /\ dirty \in BOOLEAN /\ needed \in BOOLEAN
        /\ TargetRAID(cache) \in RecordedRAIDs /\ Volumes(TargetRAID(cache)) \in RAIDs
    BY TargetRAIDType DEF SettingsDirty
  <2>3. o \in Keeping(node)
    BY <2>1, <2>2, OperationsKeep
  <2>4. saved \in Workable(node)
    BY <2>2
  <2> HIDE DEF dirty, saved, needed
  <2>5. /\ Fail(IF dirty THEN ClearSettings(Current) ELSE Current, "preparation error")
             \in Workable(node)
        /\ [ResetErrors(IF dirty THEN saved ELSE Current) EXCEPT !.state = "available"]
             \in Workable(node)
    BY <2>4
  <2>6. QED
    BY <2>1, <2>3, <2>4, <2>5, HandlerKeeps
<1>10. QED
  BY <1>5, <1>6, <1>7, <1>8, <1>9

\* manageHostPower, for a host that is attached.
LEMMA ManageHostPowerKeeps ==
    ASSUME IInv, Attached, ManageHostPower
    PROVE  IInv'
<1>1. Current \in Workable(node)
  BY CurrentIsWorkable
<1>2. "power management error" \in ErrorTypes
  BY DEF ErrorTypes
<1> USE <1>1, <1>2, CacheFields, NoCallKeeps, HelpersKeep
<1> DEFINE forced == cache.errType = "power management error"
           discovered == machine.power = "on"
<1>3. CASE Discard(NoCall)
  BY <1>3, HandlerKeeps
<1>4. CASE Commit(NoCall, [(IF cache.op = "error" /\ forced THEN ClearError(Current) ELSE Current)
                             EXCEPT !.powered = discovered])
  <2>1. [(IF cache.op = "error" /\ forced THEN ClearError(Current) ELSE Current)
           EXCEPT !.powered = discovered] \in Workable(node)
    <3> DEFINE cleared == IF cache.op = "error" /\ forced THEN ClearError(Current) ELSE Current
    <3>1. cleared \in Workable(node)
      OBVIOUS
    <3>2. discovered \in BOOLEAN
      OBVIOUS
    <3> HIDE DEF cleared, discovered
    <3>3. [cleared EXCEPT !.powered = discovered] \in Workable(node)
      BY <3>1, <3>2
    <3>4. QED
      BY <3>3 DEF cleared
  <2>2. QED
    BY <1>4, <2>1, HandlerKeeps
<1>5. CASE \E o \in (IF cache.online THEN PowerOn(node, cache.id, machine.power, forced)
                                     ELSE PowerOff(node, cache.id, machine.power, forced)) :
              \/ o.r \in {"error", "unregistered"} /\ Discard(o)
              \/ o.r = "failed" /\ Commit(o, Fail(Current, "power management error"))
              \/ o.r = "dirty"  /\ CommitIfChanged(o, ClearError(Current), Current)
              \/ /\ o.r = "complete"
                 /\ Commit(o, ResetErrors([Current EXCEPT !.powered = cache.online]))
  <2>1. (IF cache.online THEN PowerOn(node, cache.id, machine.power, forced)
                         ELSE PowerOff(node, cache.id, machine.power, forced))
           \subseteq Keeping(node)
    BY PowerKeeps
  <2>2. ResetErrors([Current EXCEPT !.powered = cache.online]) \in Workable(node)
    OBVIOUS
  <2>3. QED
    BY <1>5, <2>1, <2>2, HandlerKeeps
<1>6. QED
  BY <1>3, <1>4, <1>5 DEF ManageHostPower

\* actionManageSteadyState.
LEMMA SteadyStateKeeps ==
    ASSUME IInv, Attached, ManageSteadyState
    PROVE  IInv'
<1>1. Current \in Workable(node)
  BY CurrentIsWorkable
<1>2. PICK o \in Adopt(node, cache.id, cache.state,
                       cache.errType = "provisioned registration error") :
         \/ o.r \in {"error", "unregistered"} /\ Discard(o)
         \/ o.r = "failed" /\ Commit(o, Fail(Current, "provisioned registration error"))
         \/ o.r = "dirty"  /\ CommitIfChanged(o, ClearError(Current), Current)
         \/ o.r = "complete" /\ ManageHostPower
  BY DEF ManageSteadyState
<1>3. o \in Keeping(node)
  BY <1>2, CacheFields, OperationsKeep
<1>4. /\ Fail(Current, "provisioned registration error") \in Workable(node)
      /\ ClearError(Current) \in Workable(node)
  BY <1>1, CacheFields, HelpersKeep DEF ErrorTypes
<1>5. QED
  BY <1>2, <1>3, <1>4, HandlerKeeps, ManageHostPowerKeeps

\* actionDeprovisioning after Adopt, as handleDeprovisioning treats its result.
LEMMA DeprovisionStepKeeps ==
    ASSUME IInv, Attached
    PROVE  /\ \A o \in Keeping(node) : UnregisteredDeletion(o) => IInv'
           /\ \A o \in Keeping(node), t \in ErrorTypes : FailedDeprovisioning(o, t) => IInv'
           /\ DeprovisionStep => IInv'
<1>1. Current \in Workable(node)
  BY CurrentIsWorkable
<1>2. /\ {"deleting", "powering off before delete", "available"} \subseteq States
      /\ "provisioning error" \in ErrorTypes
  BY DEF States, ErrorTypes
<1> USE <1>1, <1>2, CacheFields, HelpersKeep
<1>3. \A o \in Keeping(node) : UnregisteredDeletion(o) => IInv'
  BY HandlerKeeps DEF UnregisteredDeletion
<1>4. ASSUME NEW o \in Keeping(node), NEW t \in ErrorTypes, FailedDeprovisioning(o, t)
      PROVE  IInv'
  <2>1. /\ Fail(Current, t) \in Workable(node)
        /\ [Fail(Current, t) EXCEPT !.state = "powering off before delete"] \in Workable(node)
    OBVIOUS
  <2>2. QED
    BY <1>4, <2>1, HandlerKeeps DEF FailedDeprovisioning
<1>5. ASSUME DeprovisionStep PROVE IInv'
  <2> DEFINE cleared == [ClearSettings(Current) EXCEPT !.pimage = NoImage]
             after == IF cache.deleting THEN "powering off before delete" ELSE "available"
             done == [ClearSettings(Current) EXCEPT !.pimage = NoImage, !.state = after]
  <2>1. PICK o \in Deprovision(node, cache.id, cache.errType = "provisioning error") :
           \/ o.r \in {"error", "unregistered"} /\ UnregisteredDeletion(o)
           \/ o.r = "failed" /\ FailedDeprovisioning(o, "provisioning error")
           \/ o.r = "dirty"  /\ CommitIfChanged(o, ClearError(Current), Current)
           \/ o.r = "complete" /\ Commit(o, ResetErrors(done))
    BY <1>5 DEF DeprovisionStep
  <2>2. o \in Keeping(node)
    BY <2>1, OperationsKeep
  <2>3. ClearSettings(Current) \in Workable(node) /\ after \in States
    OBVIOUS
  <2>4. done \in Workable(node)
    <3> HIDE DEF after
    <3>1. done = [cleared EXCEPT !.state = after]
      BY <2>3 DEF Workable, Hosts
    <3>2. cleared \in Workable(node)
      BY <2>3
    <3>3. QED
      BY <2>3, <3>1, <3>2
  <2> HIDE DEF done
  <2>5. ResetErrors(done) \in Workable(node) /\ ClearError(Current) \in Workable(node)
    BY <2>4
  <2>6. QED
    BY <1>3, <1>4, <2>1, <2>2, <2>5, HandlerKeeps
<1>6. QED
  BY <1>3, <1>4, <1>5

\* The handlers of the states of a host that is or can be provisioned.
LEMMA ServiceKeeps ==
    ASSUME IInv,
           HandleExternallyProvisioned \/ HandleAvailable \/ HandleProvisioning
             \/ HandleProvisioned
    PROVE  IInv'
<1>1. Attached
  BY DEF HandleExternallyProvisioned, HandleAvailable, HandleProvisioning, HandleProvisioned,
         In, Registered
<1>2. Current \in Workable(node)
  BY <1>1, CurrentIsWorkable
<1>3. /\ {"provisioned", "externally provisioned", "inspecting", "preparing", "provisioning",
          "deprovisioning"} \subseteq States
      /\ "provisioning error" \in ErrorTypes
  BY DEF States, ErrorTypes
<1> USE <1>2, <1>3, CacheFields, NoCallKeeps, HelpersKeep
<1>4. CASE HandleExternallyProvisioned
  <2> DEFINE h == [Current EXCEPT !.pimage = IF cache.image = NoImage THEN @ ELSE cache.image,
                                  !.state = "provisioned"]
  <2>1. h \in Workable(node)
    <3> DEFINE image == IF cache.image = NoImage THEN Current.pimage ELSE cache.image
    <3>1. image \in MaybeImage
      BY DEF Workable, Hosts
    <3> HIDE DEF image
    <3>2. [Current EXCEPT !.pimage = image, !.state = "provisioned"]
             = [[Current EXCEPT !.pimage = image] EXCEPT !.state = "provisioned"]
      BY DEF Workable, Hosts
    <3>3. [[Current EXCEPT !.pimage = image] EXCEPT !.state = "provisioned"]
             \in Workable(node)
      BY <3>1
    <3>4. h = [Current EXCEPT !.pimage = image, !.state = "provisioned"]
      BY DEF image
    <3>5. QED
      BY <3>2, <3>3, <3>4
  <2>2. ManageSteadyState \/ Commit(NoCall, h)
    BY <1>4 DEF HandleExternallyProvisioned
  <2> HIDE DEF h
  <2>3. QED
    BY <1>1, <2>1, <2>2, SteadyStateKeeps, HandlerKeeps
<1>5. CASE HandleAvailable
  <2>1. /\ MoveTo(ClearSettings(Current), "externally provisioned", node) \in Workable(node)
        /\ MoveTo(Current, "inspecting", node) \in Workable(node)
        /\ MoveTo(Current, "preparing", node) \in Workable(node)
        /\ MoveTo(ClearError(Current), "provisioning", node) \in Workable(node)
    OBVIOUS
  <2>2. QED
    BY <1>1, <1>5, <2>1, ManageHostPowerKeeps, HandlerKeeps DEF HandleAvailable
<1>6. CASE HandleProvisioning
  <2> DEFINE h == [Current EXCEPT !.pimage = cache.image, !.state = "provisioned"]
  <2>1. ResetErrors(h) \in Workable(node)
    <3>1. h = [[Current EXCEPT !.pimage = cache.image] EXCEPT !.state = "provisioned"]
      BY DEF Workable, Hosts
    <3>2. h \in Workable(node)
      BY <3>1
    <3> HIDE DEF h
    <3>3. QED
      BY <3>2
  <2>2. CASE Commit(NoCall, MoveTo(Current, "deprovisioning", node))
    BY <2>2, HandlerKeeps
  <2>3. CASE /\ ~ProvisioningCancelled(cache)
             /\ \E o \in Provision(node, cache.id, cache.image) :
                \/ o.r \in {"error", "unregistered"} /\ Discard(o)
                \/ o.r = "failed" /\ Commit(o, Fail(Current, "provisioning error"))
                \/ o.r = "dirty"  /\ CommitIfChanged(o, ClearError(Current), Current)
                \/ o.r = "complete" /\ Commit(o, ResetErrors(h))
    <3>1. cache.image \in Images
      BY <2>3 DEF ProvisioningCancelled, MaybeImage
    <3>2. Provision(node, cache.id, cache.image) \subseteq Keeping(node)
      BY <3>1, OperationsKeep
    <3>3. QED
      BY <2>1, <2>3, <3>2, HandlerKeeps
  <2>4. QED
    BY <1>6, <2>2, <2>3 DEF HandleProvisioning
<1>7. CASE HandleProvisioned
  BY <1>1, <1>7, SteadyStateKeeps, HandlerKeeps DEF HandleProvisioned
<1>8. QED
  BY <1>4, <1>5, <1>6, <1>7

\* The handlers on the way out.  actionDeleting drops the finalizer only when Delete
\* found no node.
LEMMA RemovalKeeps ==
    ASSUME IInv,
           HandleDeprovisioning \/ HandlePoweringOffBeforeDelete \/ HandleDeleting
    PROVE  IInv'
<1>1. Attached
  BY DEF HandleDeprovisioning, HandlePoweringOffBeforeDelete, HandleDeleting, In, Registered
<1>2. Current \in Workable(node) /\ cache \in Workable(node)
  BY <1>1, CurrentIsWorkable
<1>3. /\ "deleting" \in States
      /\ {"provisioned registration error", "power management error"} \subseteq ErrorTypes
  BY DEF States, ErrorTypes
<1> USE <1>2, <1>3, CacheFields, NoCallKeeps, HelpersKeep
<1>4. CASE HandleDeprovisioning
  <2>1. CASE DeprovisionStep
    BY <1>1, <2>1, DeprovisionStepKeeps
  <2>2. CASE \E o \in Adopt(node, cache.id, cache.state,
                            cache.errType = "provisioned registration error") :
                \/ o.r \in {"error", "unregistered"} /\ UnregisteredDeletion(o)
                \/ o.r = "failed" /\ FailedDeprovisioning(o, "provisioned registration error")
                \/ o.r = "dirty"  /\ CommitIfChanged(o, ClearError(Current), Current)
                \/ o.r = "complete" /\ DeprovisionStep
    <3>1. Adopt(node, cache.id, cache.state,
                cache.errType = "provisioned registration error") \subseteq Keeping(node)
      BY OperationsKeep
    <3>2. QED
      BY <1>1, <2>2, <3>1, DeprovisionStepKeeps, HandlerKeeps
  <2>3. QED
    BY <1>4, <2>1, <2>2 DEF HandleDeprovisioning
<1>5. CASE HandlePoweringOffBeforeDelete
  <2> DEFINE h == Fail(Current, "power management error")
             off == [Current EXCEPT !.state = "deleting", !.powered = FALSE]
  <2>1. PICK o \in PowerOff(node, cache.id, machine.power,
                            cache.errType = "power management error") :
           \/ o.r \in {"error", "unregistered"} /\ UnregisteredDeletion(o)
           \/ /\ o.r = "failed"
              /\ Commit(o, IF h.errCount > retryCount THEN [h EXCEPT !.state = "deleting"] ELSE h)
           \/ o.r = "dirty" /\ CommitIfChanged(o, ClearError(Current), Current)
           \/ o.r = "complete" /\ Commit(o, ResetErrors(off))
    BY <1>5 DEF HandlePoweringOffBeforeDelete
  <2>2. o \in Keeping(node)
    BY <2>1, PowerKeeps
  <2>3. h \in Workable(node)
    OBVIOUS
  <2>4. off \in Workable(node)
    <3>1. off = [[Current EXCEPT !.state = "deleting"] EXCEPT !.powered = FALSE]
      BY DEF Workable, Hosts
    <3>2. QED
      BY <3>1
  <2> HIDE DEF h, off
  <2>5. /\ [h EXCEPT !.state = "deleting"] \in Workable(node)
        /\ ResetErrors(off) \in Workable(node)
        /\ ClearError(Current) \in Workable(node)
    BY <2>3, <2>4
  <2>6. QED
    BY <1>1, <2>1, <2>2, <2>3, <2>5, DeprovisionStepKeeps, HandlerKeeps
<1>6. CASE HandleDeleting
  <2> DEFINE h == [cache EXCEPT !.fin = FALSE, !.exists = FALSE]
  <2>1. PICK o \in Detach(node, cache.id, FALSE) :
           \/ o.r = "complete" /\ Commit(o, h)
           \/ o.r # "complete" /\ Discard(o)
    BY <1>6 DEF HandleDeleting, Delete
  <2>2. o \in Keeping(node) /\ (o.r = "complete" => o.n = node /\ ~GetNode(node, cache.id))
    BY <2>1, DetachKeeps
  <2>3. o \in Outcomes
    BY <2>2 DEF Keeping
  <2>4. h \in Hosts /\ h.id = cache.id /\ h.exists = FALSE
    BY DEF Hosts
  <2>5. o.r = "complete" => Safe(h, o.n)
    BY <2>2, <2>4 DEF Safe, IInv
  <2>6. QED
    BY <2>1, <2>2, <2>3, <2>4, <2>5, CommitKeeps, DiscardKeeps
<1>7. QED
  BY <1>4, <1>5, <1>6

-----------------------------------------------------------------------------
\* An edit keeps the invariant if the new object is safe.
LEMMA EditKeeps ==
    ASSUME IInv, NEW op, NEW h \in Hosts, Safe(h, node), Edit(op, h)
    PROVE  IInv'
<1>1. edits' \in 0..MaxEdits
  BY BoundsAssumption DEF Edit, IInv, TypeOK
<1>2. Safe(host', node')
  BY DEF Edit
<1>3. QED
  BY <1>1, <1>2 DEF Edit, IInv, TypeOK

\* No edit changes the status; only a host without finalizer vanishes.
LEMMA UserKeeps ==
    ASSUME IInv, User
    PROVE  IInv'
<1>1. host \in Hosts /\ Safe(host, node)
  BY DEF IInv, TypeOK
<1>2. ASSUME NEW h \in Hosts, h.id = host.id, h.op = host.op, h.exists = host.exists,
             h.fin = host.fin
      PROVE  Safe(h, node)
  BY <1>1, <1>2 DEF Safe
<1>3. CASE SetImage
  <2>1. PICK i \in MaybeImage : Edit("image", [host EXCEPT !.image = i])
    BY <1>3 DEF SetImage
  <2> DEFINE h == [host EXCEPT !.image = i]
  <2>2. h \in Hosts /\ h.id = host.id /\ h.op = host.op /\ h.exists = host.exists /\ h.fin = host.fin
    BY <1>1 DEF Hosts
  <2>3. QED
    BY <1>2, <2>1, <2>2, EditKeeps
<1>4. CASE SetExternallyProvisioned
  <2>1. PICK b \in BOOLEAN : Edit("ext", [host EXCEPT !.ext = b])
    BY <1>4 DEF SetExternallyProvisioned
  <2> DEFINE h == [host EXCEPT !.ext = b]
  <2>2. h \in Hosts /\ h.id = host.id /\ h.op = host.op /\ h.exists = host.exists /\ h.fin = host.fin
    BY <1>1 DEF Hosts
  <2>3. QED
    BY <1>2, <2>1, <2>2, EditKeeps
<1>5. CASE SetField
  <2>1. PICK b \in BOOLEAN, raid \in RAIDs :
           \/ Edit("online", [host EXCEPT !.online = b])
           \/ Edit("inspect", [host EXCEPT !.inspect = b])
           \/ Edit("raid", [host EXCEPT !.raid = raid])
    <3>1. /\ [host EXCEPT !.online = ~@] = [host EXCEPT !.online = ~host.online]
          /\ [host EXCEPT !.inspect = ~@] = [host EXCEPT !.inspect = ~host.inspect]
          /\ (~host.online) \in BOOLEAN /\ (~host.inspect) \in BOOLEAN /\ host.raid \in RAIDs
      BY <1>1 DEF Hosts
    <3>2. QED
      BY <1>5, <3>1 DEF SetField
  <2> DEFINE Same(h) == /\ h \in Hosts /\ h.id = host.id /\ h.op = host.op
                        /\ h.exists = host.exists /\ h.fin = host.fin
  <2>2. /\ Same([host EXCEPT !.online = b]) /\ Same([host EXCEPT !.inspect = b])
        /\ Same([host EXCEPT !.raid = raid])
    BY <1>1 DEF Hosts
  <2>3. QED
    BY <1>2, <2>1, <2>2, EditKeeps
<1>6. CASE RequestInspection
  <2> DEFINE h == [host EXCEPT !.refresh = TRUE]
  <2>1. h \in Hosts /\ h.id = host.id /\ h.op = host.op /\ h.exists = host.exists /\ h.fin = host.fin
    BY <1>1 DEF Hosts
  <2>2. QED
    BY <1>2, <1>6, <2>1, EditKeeps DEF RequestInspection
<1>7. CASE SetDetached
  <2>1. PICK d \in Detachments : Edit("detach", [host EXCEPT !.detach = d])
    BY <1>7 DEF SetDetached
  <2> DEFINE h == [host EXCEPT !.detach = d]
  <2>2. h \in Hosts /\ h.id = host.id /\ h.op = host.op /\ h.exists = host.exists /\ h.fin = host.fin
    BY <1>1 DEF Hosts
  <2>3. QED
    BY <1>2, <2>1, <2>2, EditKeeps
<1>8. CASE AddBMCDetails
  <2> DEFINE h == [host EXCEPT !.bmc = TRUE]
  <2>1. h \in Hosts /\ h.id = host.id /\ h.op = host.op /\ h.exists = host.exists /\ h.fin = host.fin
    BY <1>1 DEF Hosts
  <2>2. QED
    BY <1>2, <1>8, <2>1, EditKeeps DEF AddBMCDetails
<1>9. CASE DeleteHost
  <2> DEFINE h == [host EXCEPT !.deleting = TRUE, !.exists = host.fin]
  <2>1. h \in Hosts /\ h.id = host.id /\ h.op = host.op /\ h.exists = host.fin /\ h.fin = host.fin
    BY <1>1 DEF Hosts
  <2>2. Edit("delete", h) /\ host.exists
    BY <1>9 DEF DeleteHost, Edit
  <2>3. Safe(h, node)
    BY <1>1, <2>1, <2>2 DEF Safe, GetNode
  <2>4. QED
    BY <2>1, <2>2, <2>3, EditKeeps
<1>10. CASE ChangeSecret
  <2>1. edits' \in 0..MaxEdits /\ secret' \in Nat
    BY <1>10, BoundsAssumption DEF ChangeSecret, IInv, TypeOK
  <2>2. QED
    BY <1>10, <2>1 DEF ChangeSecret, IInv, TypeOK
<1>11. QED
  BY <1>3, <1>4, <1>5, <1>6, <1>7, <1>8, <1>9, <1>10 DEF User

\* What Ironic does by itself keeps a node, its UUID and its image.
LEMMA ProgressKeeps ==
    ASSUME NEW n \in Nodes, n.ps \in Transient, Loaded(n), NEW m \in Machines
    PROVE  /\ Progress(n) \in Nodes /\ Progress(n).uuid = n.uuid /\ Loaded(Progress(n))
           /\ Failure(n) \in Nodes /\ Failure(n).uuid = n.uuid /\ Loaded(Failure(n))
           /\ ProgressMachine(n, m) \in Machines
<1>1. {"manageable", "inspect wait", "clean wait", "available", "deploy wait", "active",
       "cleaning"} \subseteq ProvisionStates
  BY DEF ProvisionStates, Transient, Busy
<1>2. Progress(n) \in Nodes /\ Progress(n).uuid = n.uuid /\ Loaded(Progress(n))
  <2>1. CASE n.ps = "clean wait"
    <3>1. \A ps \in {"manageable", "available"} :
             /\ [n EXCEPT !.ps = ps, !.manual = FALSE, !.raid = "none"] \in Nodes
             /\ [n EXCEPT !.ps = ps, !.manual = FALSE, !.raid = "none"].uuid = n.uuid
             /\ Loaded([n EXCEPT !.ps = ps, !.manual = FALSE, !.raid = "none"])
      BY <1>1 DEF Nodes, RAIDs, Loaded, Deploying
    <3>2. Progress(n) \in {[n EXCEPT !.ps = ps, !.manual = FALSE, !.raid = "none"] :
                             ps \in {"manageable", "available"}}
      BY <2>1 DEF Progress
    <3>3. QED
      BY <3>1, <3>2
  <2>2. CASE n.ps = "deleting"
    BY <1>1, <2>2 DEF Progress, Nodes, RAIDs, MaybeImage, Loaded, Deploying
  <2>3. CASE n.ps \in {"deploying", "deploy wait"}
    BY <1>1, <2>3 DEF Progress, Nodes, Loaded, Deploying
  <2>4. CASE n.ps \in {"verifying", "inspecting", "inspect wait", "cleaning", "adopting"}
    BY <1>1, <2>4 DEF Progress, Nodes, Loaded, Deploying
  <2>5. QED
    BY <2>1, <2>2, <2>3, <2>4 DEF Transient, Busy
<1>3. Failure(n) \in Nodes /\ Failure(n).uuid = n.uuid /\ Loaded(Failure(n))
  <2> DEFINE ps == FailedState(n.ps)
             maint == n.maint \/ n.ps \in {"cleaning", "clean wait"}
  <2>1. ps \in ProvisionStates \ Deploying
    BY DEF FailedState, ProvisionStates, Failed, Transient, Busy, Deploying
  <2>2. maint \in BOOLEAN
    BY DEF Nodes
  <2> HIDE DEF ps, maint
  <2>3. /\ [n EXCEPT !.ps = ps, !.lastErr = TRUE, !.maint = maint] \in Nodes
        /\ [n EXCEPT !.ps = ps, !.lastErr = TRUE, !.maint = maint].uuid = n.uuid
        /\ Loaded([n EXCEPT !.ps = ps, !.lastErr = TRUE, !.maint = maint])
    BY <2>1, <2>2 DEF Nodes, Loaded
  <2>4. QED
    BY <2>3 DEF Failure, ps, maint
<1>4. ProgressMachine(n, m) \in Machines
  <2>1. CASE n.ps = "clean wait"
    <3> DEFINE c == IF n.manual THEN n.raid ELSE m.raid
    <3>1. c \in RAIDs
      BY DEF Nodes, Machines
    <3> HIDE DEF c
    <3>2. [disk |-> Blank, power |-> "off", raid |-> c] \in Machines
      BY <3>1 DEF Machines, Disks
    <3>3. QED
      BY <2>1, <3>2 DEF ProgressMachine, c
  <2>2. CASE n.ps = "deploy wait"
    <3>1. n.img \in Disks
      BY <2>2 DEF Loaded, Deploying, Disks
    <3>2. QED
      BY <2>2, <3>1 DEF ProgressMachine, Machines
  <2>3. CASE n.ps = "inspect wait"
    BY <2>3 DEF ProgressMachine, Machines
  <2>4. QED
    BY <2>1, <2>2, <2>3 DEF ProgressMachine
<1>5. QED
  BY <1>2, <1>3, <1>4

\* A step of Ironic that keeps the UUID keeps the invariant, unless it makes a node.
LEMMA IronicKeeps ==
    ASSUME IInv,
           node.ps # "absent",
           node' \in Nodes, node'.uuid = node.uuid, Loaded(node'),
           machine' \in Machines, faults' \in 0..MaxFaults,
           UNCHANGED <<host, cache, secret, slot, edits>>
    PROVE  IInv'
<1>1. Safe(host', node')
  BY DEF IInv, Safe, GetNode
<1>2. QED
  BY <1>1 DEF IInv, TypeOK

\* Ironic, the other hosts and the informer.
LEMMA EnvironmentKeeps ==
    ASSUME IInv, Environment
    PROVE  IInv'
<1>1. node \in Nodes /\ machine \in Machines /\ Loaded(node) /\ faults \in 0..MaxFaults
  BY DEF IInv, TypeOK
<1>2. node.ps \in Transient => node.ps # "absent"
  BY DEF Transient, Busy
<1>3. Spend(1) => faults' \in 0..MaxFaults
  BY <1>1, BoundsAssumption DEF Spend
<1>4. CASE IronicProgress
  BY <1>1, <1>2, <1>4, ProgressKeeps, IronicKeeps DEF IronicProgress
<1>5. CASE IronicPower
  <2>1. /\ [node EXCEPT !.power = "none"] \in Nodes
        /\ [node EXCEPT !.power = "none"].uuid = node.uuid
        /\ [node EXCEPT !.power = "none"].ps = node.ps
        /\ Loaded([node EXCEPT !.power = "none"])
        /\ [machine EXCEPT !.power = node.power] \in Machines
    BY <1>1, <1>5 DEF IronicPower, Nodes, Machines, Loaded
  <2>2. Safe(host', node')
    BY <1>5, <2>1 DEF IronicPower, IInv, Safe, GetNode
  <2>3. QED
    BY <1>5, <2>1, <2>2 DEF IronicPower, IInv, TypeOK
<1>6. CASE IronicFailure
  <2>1. CASE node.ps \in Transient /\ node' = Failure(node)
    BY <1>1, <1>2, <1>3, <1>6, <2>1, ProgressKeeps, IronicKeeps DEF IronicFailure, Fault
  <2>2. CASE node' = [node EXCEPT !.power = "none", !.lastErr = TRUE]
    <3>1. /\ node' \in Nodes /\ node'.uuid = node.uuid /\ node'.ps = node.ps
          /\ Loaded(node')
      BY <1>1, <2>2 DEF Nodes, Loaded
    <3>2. Safe(host', node')
      BY <1>6, <3>1 DEF IronicFailure, IInv, Safe, GetNode
    <3>3. QED
      BY <1>3, <1>6, <3>1, <3>2 DEF IronicFailure, Fault, IInv, TypeOK
  <2>3. QED
    BY <1>6, <2>1, <2>2 DEF IronicFailure
<1>7. CASE LoseDatabase
  BY <1>1, <1>3, <1>7, GoneKeeps, IronicKeeps DEF LoseDatabase, Fault
<1>8. CASE TakeSlot
  BY <1>3, <1>8 DEF TakeSlot, Fault, IInv, TypeOK
<1>9. CASE FreeSlot
  BY <1>9 DEF FreeSlot, IInv, TypeOK
<1>10. CASE SyncCache
  BY <1>10 DEF SyncCache, IInv, TypeOK, Safe
<1>11. QED
  BY <1>4, <1>5, <1>6, <1>7, <1>8, <1>9, <1>10 DEF Environment

-----------------------------------------------------------------------------
\* The invariant holds initially.
LEMMA InitIsSafe == Init => IInv
<1> SUFFICES ASSUME Init PROVE IInv
  OBVIOUS
<1>1. PICK bmc \in BOOLEAN, image \in MaybeImage, ext \in BOOLEAN, inspect \in BOOLEAN :
         /\ host = NewHost(bmc, image, ext, inspect)
         /\ machine = [disk |-> IF ext THEN Foreign ELSE Blank,
                       power |-> IF ext THEN "on" ELSE "off",
                       raid |-> "none"]
  BY DEF Init
<1>2. host \in Hosts
  <2>1. /\ "absent" \in Detachments /\ "none" \in States /\ "" \in OperationalStatuses
        /\ "none" \in ErrorTypes /\ NoImage \in MaybeImage
    BY DEF Detachments, States, OperationalStatuses, ErrorTypes, MaybeImage
  <2>2. 0 \in 0..retryCount + 1
    BY DEF retryCount
  <2>3. QED
    BY <1>1, <2>1, <2>2 DEF NewHost, Hosts, RAIDs, RecordedRAIDs
<1>3. host.id = 0 /\ host.op = "" /\ host.exists /\ cache.id = 0
  BY <1>1 DEF NewHost, Init
<1>4. machine \in Machines
  BY <1>1 DEF Machines, Disks, RAIDs
<1>5. node \in Nodes /\ node.uuid = 0 /\ node.ps = "absent"
  BY DEF Init, FreshNode, Nodes, ProvisionStates, RAIDs, MaybeImage
<1>6. Safe(host, node) /\ Loaded(node) /\ cache.id <= node.uuid
  <2>1. host.id <= node.uuid /\ cache.id <= node.uuid
    <3>1. 0 <= 0
      OBVIOUS
    <3>2. QED
      BY <1>3, <1>5, <3>1, Zenon
  <2>2. Safe(host, node)
    BY <1>3, <1>5, <2>1, Zenon DEF Safe
  <2>3. Loaded(node)
    BY <1>5 DEF Loaded, Deploying
  <2>4. QED
    BY <2>1, <2>2, <2>3
<1>7. cache \in Hosts /\ secret \in Nat /\ slot \in BOOLEAN /\ edits \in 0..MaxEdits
      /\ faults \in 0..MaxFaults
  BY <1>2, BoundsAssumption DEF Init
<1>8. QED
  BY <1>2, <1>4, <1>5, <1>6, <1>7 DEF IInv, TypeOK

\* Every step keeps the invariant.
LEMMA NextIsSafe == IInv /\ [Next]_vars => IInv'
<1> SUFFICES ASSUME IInv, [Next]_vars PROVE IInv'
  OBVIOUS
<1>1. CASE Reconcile
  BY <1>1, EarlyStepsKeep, RegisterHostKeeps, PreparationKeeps, ServiceKeeps, RemovalKeeps
     DEF Reconcile
<1>2. CASE User
  BY <1>2, UserKeeps
<1>3. CASE Environment
  BY <1>3, EnvironmentKeeps
<1>4. CASE UNCHANGED vars
  BY <1>4 DEF vars, IInv, TypeOK, Safe
<1>5. QED
  BY <1>1, <1>2, <1>3, <1>4 DEF Next

\* The inductive invariant is an invariant.
THEOREM InductiveInvariant == Spec => []IInv
<1>1. QED
  BY InitIsSafe, NextIsSafe, PTL DEF Spec

\* Every state of the controller, of Ironic and of the machine is well formed, for
\* any images, edits, faults and bounds: recordActionFailure, the state handlers and
\* Ironic only write values of their type, and what a deployment writes to the disk
\* is an image.
THEOREM TypeCorrect == Spec => []TypeOK
<1>1. IInv => TypeOK
  BY DEF IInv
<1>2. QED
  BY <1>1, InductiveInvariant, PTL

\* A detached host and a host that is gone have no node left under the ID they
\* recorded, whatever edits, stale reads, lost saves and failures of Ironic came
\* before: checkDetachedHost and actionDeleting act on what Detach and Delete found.
THEOREM NodeReleasedAlways == Spec => []NodeReleased
<1>1. IInv => NodeReleased
  BY DEF IInv, Safe, NodeReleased
<1>2. QED
  BY <1>1, InductiveInvariant, PTL

=============================================================================
