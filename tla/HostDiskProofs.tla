---------------------------- MODULE HostDiskProofs ----------------------------
(***************************************************************************)
(* Proofs about the disk of a host's machine, for any images, edits,       *)
(* faults and bounds: the controller, with its stale reads, lost writes    *)
(* and failing calls, implements the life cycle the API promises           *)
(* (HostLifecycle); a host that is offered for provisioning is clean; a    *)
(* running workload is never touched; and deprovisioning erases the disk.  *)
(***************************************************************************)
EXTENDS BareMetalHostProofs

IdleStates == {"none", "unmanaged", "registering", "inspecting", "preparing", "available"}
RunningStates == {"provisioned", "externally provisioned"}

(***************************************************************************)
(* The inductive invariant, part by part.                                  *)
(***************************************************************************)
\* A node that was just enrolled.
Early == {"absent", "enroll", "verifying", "manageable"}

Inspections == {"inspecting", "inspect wait", "inspect failed"}
Cleanings == {"cleaning", "clean wait", "clean failed"}
Adoptions == {"adopting", "adopt failed", "active"}

\* The provision states the node can be in while the host is idle or running.
Stage(state, ps) ==
    /\ state \in {"none", "unmanaged", "registering"} => ps \in Early
    /\ state = "inspecting" => ps \in Early \union {"available"} \union Inspections
    /\ state = "preparing" => ps \in Early \union {"available"} \union Inspections \union Cleanings
    /\ state = "available" => ps \in Early \union {"available"}
    /\ state \in RunningStates => ps \in Early \union {"available"} \union Adoptions

\* A node that the copy in the cache does not know was driven by nobody, and a copy
\* never has a later ID than the object.
Known ==
    /\ cache.id <= host.id
    /\ node.ps \notin Early => GetNode(node, cache.id)

\* A copy in the cache is at most one write behind: the states it may still have.
Behind(state, old) ==
    /\ state = "none" => old = "none"
    /\ state = "unmanaged" => old \in {"none", "unmanaged"}
    /\ state = "registering" => old \in {"none", "unmanaged", "registering"}
    /\ state = "inspecting" => old \in {"registering", "available", "inspecting"}
    /\ state = "preparing" => old \in {"registering", "inspecting", "available", "preparing"}
    /\ state = "available" => old \in {"preparing", "deprovisioning", "available"}
    /\ state = "externally provisioned" => old \in {"registering", "available", "externally provisioned"}
    /\ state = "provisioned" => old \in {"provisioning", "externally provisioned", "provisioned"}

\* The RAID configuration of this copy makes Prepare clean the node.
Unprepared(h) ==
    /\ SettingsDirty(h) \/ h.errType = "preparation error"
    /\ HasRAIDSteps(TargetRAID(h), ActualRAID(h))

\* What a reconcile of an old copy finds that would clean or deploy the node otherwise.
Harmless ==
    /\ host.state = "available" /\ cache.state = "preparing" => ~Unprepared(cache)
    /\ host.state = "available" /\ cache.state = "deprovisioning" /\ GetNode(node, cache.id)
         => node.ps = "available"
    /\ host.state = "provisioned" /\ cache.state = "provisioning" /\ GetNode(node, cache.id)
         => node.ps = "active"

DiskInv ==
    /\ Stage(host.state, node.ps)
    /\ Known
    /\ Behind(host.state, cache.state)
    /\ Harmless
    /\ node.ps = "available" => machine.disk = Blank
    /\ host.state \in IdleStates => machine.disk \notin Images
    /\ host.exists /\ ~host.fin => host.state = "none"

-----------------------------------------------------------------------------
(***************************************************************************)
(* The provisioner: from which provision state to which a method may move  *)
(* a node.                                                                 *)
(***************************************************************************)
\* A call that asks for a change: every outcome leaves the UUID alone, leaves the node
\* in its provision state or moves it to one of `to', and is not the end of the matter.
Moves(n, outcomes, to) ==
    \A o \in outcomes : /\ o.n.uuid = n.uuid
                        /\ o.n.ps = n.ps \/ o.n.ps \in to
                        /\ o.r \notin {"complete", "unregistered"}

\* An API call that makes the node `new'.
LEMMA ModifyMoves ==
    ASSUME NEW n, NEW new, NEW to, NEW ok \in {"dirty", "started"},
           new.uuid = n.uuid, new.ps = n.ps \/ new.ps \in to
    PROVE  Moves(n, Modify(n, new, ok), to)
BY DEF Moves, Modify, Refused, Out

\* tryChangeNodeProvisionState.
LEMMA TryChangeMoves ==
    ASSUME NEW n \in Nodes, NEW moved \in Nodes, NEW to, NEW ok \in {"dirty", "started"},
           moved.uuid = n.uuid, moved.ps \in to
    PROVE  Moves(n, TryChange(n, moved, ok), to)
<1>1. /\ [n EXCEPT !.maint = FALSE].uuid = n.uuid
      /\ [n EXCEPT !.maint = FALSE].ps = n.ps
      /\ [moved EXCEPT !.lastErr = FALSE].uuid = n.uuid
      /\ [moved EXCEPT !.lastErr = FALSE].ps \in to
  BY DEF Nodes
<1>2. QED
  BY <1>1, ModifyMoves DEF TryChange

\* The ways the methods move a node.
LEMMA ChangesMove ==
    ASSUME NEW n \in Nodes
    PROVE  /\ \A ps \in ProvisionStates : Moves(n, To(n, ps), {ps})
           /\ \A ps \in ProvisionStates : Moves(n, Abort(n, ps), {ps})
           /\ Moves(n, Provide(n), {"cleaning"})
           /\ \A raid \in RAIDs : Moves(n, Clean(n, raid), {"cleaning"})
           /\ Moves(n, StartInspection(n), {"inspecting"})
           /\ \A image \in Images : Moves(n, Deploy(n, image), {"deploying"})
<1>1. {"cleaning", "inspecting", "deploying"} \subseteq ProvisionStates
  BY DEF ProvisionStates, Transient, Busy
<1>2. /\ \A ps \in ProvisionStates : Moves(n, To(n, ps), {ps})
      /\ \A ps \in ProvisionStates : Moves(n, Abort(n, ps), {ps})
  <2>1. \A ps \in ProvisionStates :
           LET new == [n EXCEPT !.ps = ps] IN new \in Nodes /\ new.uuid = n.uuid /\ new.ps = ps
    BY DEF Nodes
  <2>2. QED
    BY <2>1, TryChangeMoves DEF To, Abort
<1>3. Moves(n, Provide(n), {"cleaning"})
  <2> DEFINE new == [n EXCEPT !.ps = "cleaning", !.manual = FALSE]
  <2>1. new \in Nodes /\ new.uuid = n.uuid /\ new.ps = "cleaning"
    BY <1>1 DEF Nodes
  <2>2. QED
    BY <2>1, TryChangeMoves DEF Provide
<1>4. \A raid \in RAIDs : Moves(n, Clean(n, raid), {"cleaning"})
  <2> TAKE raid \in RAIDs
  <2> DEFINE new == [n EXCEPT !.ps = "cleaning", !.manual = TRUE, !.raid = raid]
  <2>1. new \in Nodes /\ new.uuid = n.uuid /\ new.ps = "cleaning"
    BY <1>1 DEF Nodes
  <2>2. QED
    BY <2>1, TryChangeMoves DEF Clean
<1>5. Moves(n, StartInspection(n), {"inspecting"})
  <2> DEFINE new == [n EXCEPT !.ps = "inspecting", !.inv = FALSE]
  <2>1. new \in Nodes /\ new.uuid = n.uuid /\ new.ps = "inspecting"
    BY <1>1 DEF Nodes
  <2>2. QED
    BY <2>1, TryChangeMoves DEF StartInspection
<1>6. \A image \in Images : Moves(n, Deploy(n, image), {"deploying"})
  <2> TAKE image \in Images
  <2> DEFINE new == [n EXCEPT !.ps = "deploying", !.img = image]
  <2>1. new \in Nodes /\ new.uuid = n.uuid /\ new.ps = "deploying"
    BY <1>1 DEF Nodes, MaybeImage
  <2>2. [n EXCEPT !.img = image].uuid = n.uuid /\ [n EXCEPT !.img = image].ps = n.ps
    BY DEF Nodes
  <2>3. Moves(n, TryChange(n, new, "dirty"), {"deploying"})
    BY <2>1, TryChangeMoves
  <2> DEFINE set == [n EXCEPT !.img = image]
             unstarted == {[n |-> set, r |-> r, f |-> 1] : r \in {"dirty", "error", "failed"}}
  <2>4. set.uuid = n.uuid /\ set.ps = n.ps
    BY <2>2
  <2>5. Moves(n, unstarted, {"deploying"})
    <3> HIDE DEF set
    <3>1. QED
      BY <2>4 DEF Moves
  <2>6. Deploy(n, image) = TryChange(n, new, "dirty") \union unstarted
    BY DEF Deploy
  <2> HIDE DEF unstarted, new
  <2>7. QED
    BY <2>3, <2>5, <2>6 DEF Moves
<1>7. QED
  BY <1>2, <1>3, <1>4, <1>5, <1>6

\* The outcome o of a method: only a node that getNode finds is moved, to one of `to';
\* a method is complete when it left the node as it was.
Ordered(n, id, o, to) ==
    /\ o.n.uuid = n.uuid
    /\ o.n.ps = n.ps \/ (GetNode(n, id) /\ o.n.ps \in to)
    /\ o.r = "complete" => o.n = n /\ GetNode(n, id)
    /\ o.r = "unregistered" => ~GetNode(n, id)

\* What a method does that finds its node with getNode.
LEMMA ForNodeOrders ==
    ASSUME NEW n \in Nodes, NEW id, NEW outcomes, NEW to,
           NEW o \in ForNode(n, id, outcomes),
           GetNode(n, id) /\ o \in outcomes => Ordered(n, id, o, to)
    PROVE  Ordered(n, id, o, to)
BY DEF ForNode, Ordered, Out

\* What a method answers without asking for a change.
Answered(n, id, o) ==
    \/ GetNode(n, id) /\ \E r \in Results \ {"complete", "unregistered"}, f \in {0, 1} :
                            o = [n |-> n, r |-> r, f |-> f]
    \/ ~GetNode(n, id) /\ o = Out(n, "unregistered")

\* Such an answer moves nothing.
LEMMA AnswersOrder ==
    ASSUME NEW n, NEW id, NEW o, Answered(n, id, o)
    PROVE  o.r # "complete" /\ \A to : Ordered(n, id, o, to)
BY DEF Ordered, Out, Answered

\* Neither does the answer that there is nothing left to do.
LEMMA CompleteOrders ==
    ASSUME NEW n, NEW id, GetNode(n, id)
    PROVE  \A to : Ordered(n, id, Out(n, "complete"), to)
BY DEF Ordered, Out

\* A change that was asked for.
LEMMA ChangeOrders ==
    ASSUME NEW n, NEW id, GetNode(n, id), NEW outcomes, NEW ps, Moves(n, outcomes, {ps}),
           NEW to, ps \in to, NEW o \in outcomes
    PROVE  o.r # "complete" /\ Ordered(n, id, o, to)
BY DEF Ordered, Moves

InspectTargets(ps) ==
    {to \in {"manageable", "inspecting"} : ps \in {"available", "inspect failed", "manageable"}}

\* InspectHardware.
LEMMA InspectOrders ==
    ASSUME NEW n \in Nodes, NEW id, NEW restart \in BOOLEAN, NEW refresh \in BOOLEAN,
           NEW o \in InspectHardware(n, id, restart, refresh)
    PROVE  Ordered(n, id, o, InspectTargets(n.ps))
<1>1. "manageable" \in ProvisionStates
  BY DEF ProvisionStates
<1>2. \/ Answered(n, id, o)
      \/ GetNode(n, id) /\ o = Out(n, "complete")
      \/ GetNode(n, id) /\ n.ps = "available" /\ o \in To(n, "manageable")
      \/ GetNode(n, id) /\ n.ps \in {"inspect failed", "manageable"} /\ o \in StartInspection(n)
  BY DEF InspectHardware, ForNode, Answered, Out, Results
<1>3. /\ Moves(n, To(n, "manageable"), {"manageable"})
      /\ Moves(n, StartInspection(n), {"inspecting"})
  BY <1>1, ChangesMove
<1>4. CASE Answered(n, id, o)
  BY <1>4, AnswersOrder
<1>5. CASE GetNode(n, id) /\ o = Out(n, "complete")
  BY <1>5, CompleteOrders DEF Out
<1>6. CASE GetNode(n, id) /\ n.ps = "available" /\ o \in To(n, "manageable")
  <2>1. "manageable" \in InspectTargets(n.ps)
    BY <1>6 DEF InspectTargets
  <2>2. QED
    BY <1>3, <1>6, <2>1, ChangeOrders
<1>7. CASE GetNode(n, id) /\ n.ps \in {"inspect failed", "manageable"} /\ o \in StartInspection(n)
  <2>1. "inspecting" \in InspectTargets(n.ps)
    BY <1>7 DEF InspectTargets
  <2>2. QED
    BY <1>3, <1>7, <2>1, ChangeOrders
<1>8. QED
  BY <1>2, <1>4, <1>5, <1>6, <1>7

RepairTargets(ps) == {to \in {"manageable"} : ps = "clean failed"}

PrepareTargets(ps) ==
    RepairTargets(ps) \union {to \in {"manageable"} : ps = "available"}
                      \union {to \in {"cleaning"} : ps = "manageable"}

\* Prepare cleans the node only for settings that are not applied yet.
LEMMA PrepareOrders ==
    ASSUME NEW n \in Nodes, NEW id, NEW raid \in RAIDs, NEW unprepared \in BOOLEAN,
           NEW needed \in BOOLEAN, NEW restart \in BOOLEAN,
           NEW o \in Prepare(n, id, raid, unprepared, needed, restart)
    PROVE  /\ unprepared /\ needed => Ordered(n, id, o, PrepareTargets(n.ps))
           /\ ~(unprepared /\ needed) => Ordered(n, id, o, RepairTargets(n.ps))
           /\ o.r = "complete" => n.ps \in {"available", "manageable"} /\ ~(unprepared /\ needed)
<1>1. "manageable" \in ProvisionStates
  BY DEF ProvisionStates
<1>2. \/ Answered(n, id, o)
      \/ /\ GetNode(n, id) /\ o = Out(n, "complete")
         /\ n.ps \in {"available", "manageable"} /\ ~(unprepared /\ needed)
      \/ GetNode(n, id) /\ n.ps = "clean failed" /\ o \in To(n, "manageable")
      \/ GetNode(n, id) /\ n.ps = "available" /\ unprepared /\ needed /\ o \in To(n, "manageable")
      \/ GetNode(n, id) /\ n.ps = "manageable" /\ unprepared /\ needed /\ o \in Clean(n, raid)
  BY DEF Prepare, ForNode, Answered, Out, Results
<1>3. /\ Moves(n, To(n, "manageable"), {"manageable"})
      /\ Moves(n, Clean(n, raid), {"cleaning"})
  BY <1>1, ChangesMove
<1>4. CASE Answered(n, id, o)
  BY <1>4, AnswersOrder
<1>5. CASE /\ GetNode(n, id) /\ o = Out(n, "complete")
           /\ n.ps \in {"available", "manageable"} /\ ~(unprepared /\ needed)
  BY <1>5, CompleteOrders DEF Out
<1>6. CASE GetNode(n, id) /\ n.ps = "clean failed" /\ o \in To(n, "manageable")
  <2>1. "manageable" \in RepairTargets(n.ps) /\ "manageable" \in PrepareTargets(n.ps)
    BY <1>6 DEF RepairTargets, PrepareTargets
  <2>2. QED
    BY <1>3, <1>6, <2>1, ChangeOrders
<1>7. CASE GetNode(n, id) /\ n.ps = "available" /\ unprepared /\ needed /\ o \in To(n, "manageable")
  <2>1. "manageable" \in PrepareTargets(n.ps)
    BY <1>7 DEF PrepareTargets
  <2>2. QED
    BY <1>3, <1>7, <2>1, ChangeOrders
<1>8. CASE GetNode(n, id) /\ n.ps = "manageable" /\ unprepared /\ needed /\ o \in Clean(n, raid)
  <2>1. "cleaning" \in PrepareTargets(n.ps)
    BY <1>8 DEF PrepareTargets
  <2>2. QED
    BY <1>3, <1>8, <2>1, ChangeOrders
<1>9. QED
  BY <1>2, <1>4, <1>5, <1>6, <1>7, <1>8

ProvisionTargets(ps) == {to \in {"manageable", "cleaning", "deploying"} : ps # "active"}

\* Provision.
LEMMA ProvisionOrders ==
    ASSUME NEW n \in Nodes, NEW id, NEW image \in Images,
           NEW o \in Provision(n, id, image)
    PROVE  /\ Ordered(n, id, o, ProvisionTargets(n.ps))
           /\ o.r = "complete" => n.ps = "active"
<1>1. "manageable" \in ProvisionStates
  BY DEF ProvisionStates
<1>2. \/ Answered(n, id, o)
      \/ GetNode(n, id) /\ n.ps = "active" /\ o = Out(n, "complete")
      \/ GetNode(n, id) /\ n.ps # "active" /\ o \in Deploy(n, image)
      \/ GetNode(n, id) /\ n.ps # "active" /\ o \in Provide(n)
      \/ GetNode(n, id) /\ n.ps # "active" /\ o \in To(n, "manageable")
  BY DEF Provision, ForNode, Answered, Out, Results
<1>3. /\ Moves(n, To(n, "manageable"), {"manageable"})
      /\ Moves(n, Provide(n), {"cleaning"})
      /\ Moves(n, Deploy(n, image), {"deploying"})
  BY <1>1, ChangesMove
<1>4. CASE Answered(n, id, o)
  BY <1>4, AnswersOrder
<1>5. CASE GetNode(n, id) /\ n.ps = "active" /\ o = Out(n, "complete")
  BY <1>5, CompleteOrders DEF Out
<1>6. CASE GetNode(n, id) /\ n.ps # "active" /\ o \in Deploy(n, image)
  <2>1. "deploying" \in ProvisionTargets(n.ps)
    BY <1>6 DEF ProvisionTargets
  <2>2. QED
    BY <1>3, <1>6, <2>1, ChangeOrders
<1>7. CASE GetNode(n, id) /\ n.ps # "active" /\ o \in Provide(n)
  <2>1. "cleaning" \in ProvisionTargets(n.ps)
    BY <1>7 DEF ProvisionTargets
  <2>2. QED
    BY <1>3, <1>7, <2>1, ChangeOrders
<1>8. CASE GetNode(n, id) /\ n.ps # "active" /\ o \in To(n, "manageable")
  <2>1. "manageable" \in ProvisionTargets(n.ps)
    BY <1>8 DEF ProvisionTargets
  <2>2. QED
    BY <1>3, <1>8, <2>1, ChangeOrders
<1>9. QED
  BY <1>2, <1>4, <1>5, <1>6, <1>7, <1>8

AdoptTargets(ps) == {to \in {"adopting"} : ps \in {"manageable", "adopt failed"}}

\* Adopt.
LEMMA AdoptOrders ==
    ASSUME NEW n \in Nodes, NEW id, NEW state, NEW restart \in BOOLEAN,
           NEW o \in Adopt(n, id, state, restart)
    PROVE  Ordered(n, id, o, AdoptTargets(n.ps))
<1>1. "adopting" \in ProvisionStates
  BY DEF ProvisionStates, Transient
<1>2. Moves(n, Modify(n, [n EXCEPT !.maint = FALSE], "dirty"), {})
  <2>1. [n EXCEPT !.maint = FALSE].uuid = n.uuid /\ [n EXCEPT !.maint = FALSE].ps = n.ps
    BY DEF Nodes
  <2>2. QED
    BY <2>1, ModifyMoves
<1>3. \/ Answered(n, id, o)
      \/ GetNode(n, id) /\ o = Out(n, "complete")
      \/ GetNode(n, id) /\ n.ps \in {"manageable", "adopt failed"} /\ o \in To(n, "adopting")
      \/ GetNode(n, id) /\ o \in Modify(n, [n EXCEPT !.maint = FALSE], "dirty")
  BY DEF Adopt, ForNode, Answered, Out, Results
<1>4. /\ Moves(n, To(n, "adopting"), {"adopting"})
  BY <1>1, ChangesMove
<1>5. CASE Answered(n, id, o)
  BY <1>5, AnswersOrder
<1>6. CASE GetNode(n, id) /\ o = Out(n, "complete")
  BY <1>6, CompleteOrders DEF Out
<1>7. CASE GetNode(n, id) /\ n.ps \in {"manageable", "adopt failed"} /\ o \in To(n, "adopting")
  <2>1. "adopting" \in AdoptTargets(n.ps)
    BY <1>7 DEF AdoptTargets
  <2>2. QED
    BY <1>4, <1>7, <2>1, ChangeOrders
<1>8. CASE GetNode(n, id) /\ o \in Modify(n, [n EXCEPT !.maint = FALSE], "dirty")
  BY <1>2, <1>8 DEF Moves, Ordered
<1>9. QED
  BY <1>3, <1>5, <1>6, <1>7, <1>8

DeprovisionTargets(ps) == {to \in {"manageable", "cleaning", "deleting"} : ps # "available"}

\* Deprovision.
LEMMA DeprovisionOrders ==
    ASSUME NEW n \in Nodes, NEW id, NEW restart \in BOOLEAN,
           NEW o \in Deprovision(n, id, restart)
    PROVE  /\ Ordered(n, id, o, DeprovisionTargets(n.ps))
           /\ o.r = "complete" => n.ps = "available"
<1>1. {"manageable", "deleting"} \subseteq ProvisionStates
  BY DEF ProvisionStates, Transient, Busy
<1>2. \/ Answered(n, id, o)
      \/ GetNode(n, id) /\ n.ps = "available" /\ o = Out(n, "complete")
      \/ GetNode(n, id) /\ n.ps # "available" /\ o \in To(n, "deleting")
      \/ GetNode(n, id) /\ n.ps # "available" /\ o \in To(n, "manageable")
      \/ GetNode(n, id) /\ n.ps # "available" /\ o \in Provide(n)
  BY DEF Deprovision, ForNode, Answered, Out, Results
<1>3. /\ Moves(n, To(n, "manageable"), {"manageable"})
      /\ Moves(n, To(n, "deleting"), {"deleting"})
      /\ Moves(n, Provide(n), {"cleaning"})
  BY <1>1, ChangesMove
<1>4. CASE Answered(n, id, o)
  BY <1>4, AnswersOrder
<1>5. CASE GetNode(n, id) /\ n.ps = "available" /\ o = Out(n, "complete")
  BY <1>5, CompleteOrders DEF Out
<1>6. CASE GetNode(n, id) /\ n.ps # "available" /\ o \in To(n, "deleting")
  <2>1. "deleting" \in DeprovisionTargets(n.ps)
    BY <1>6 DEF DeprovisionTargets
  <2>2. QED
    BY <1>3, <1>6, <2>1, ChangeOrders
<1>7. CASE GetNode(n, id) /\ n.ps # "available" /\ o \in To(n, "manageable")
  <2>1. "manageable" \in DeprovisionTargets(n.ps)
    BY <1>7 DEF DeprovisionTargets
  <2>2. QED
    BY <1>3, <1>7, <2>1, ChangeOrders
<1>8. CASE GetNode(n, id) /\ n.ps # "available" /\ o \in Provide(n)
  <2>1. "cleaning" \in DeprovisionTargets(n.ps)
    BY <1>8 DEF DeprovisionTargets
  <2>2. QED
    BY <1>3, <1>8, <2>1, ChangeOrders
<1>9. QED
  BY <1>2, <1>4, <1>5, <1>6, <1>7, <1>8

\* What PowerOff and a forced Detach abort.
AbortTargets(ps) ==
    {to \in {"inspect failed", "clean failed", "deploy failed", "deleting", "manageable"} :
        \/ ps = "inspect wait" /\ to = "inspect failed"
        \/ ps = "inspect failed" /\ to = "manageable"
        \/ ps = "clean wait" /\ to = "clean failed"
        \/ ps = "deploy wait" /\ to \in {"deploy failed", "deleting"}}

\* PowerOn and PowerOff.
LEMMA PowerOrders ==
    ASSUME NEW n \in Nodes, NEW id, NEW power, NEW force \in BOOLEAN,
           NEW o \in PowerOn(n, id, power, force) \union PowerOff(n, id, power, force)
    PROVE  Ordered(n, id, o, AbortTargets(n.ps))
<1>1. {"manageable", "inspect failed", "clean failed"} \subseteq ProvisionStates
  BY DEF ProvisionStates, Failed
<1>2. ASSUME NEW target, NEW p \in PowerChange(n, power, target, force), GetNode(n, id)
      PROVE  Ordered(n, id, p, AbortTargets(n.ps))
  <2> DEFINE new == [n EXCEPT !.power = target, !.lastErr = FALSE]
  <2>1. new.uuid = n.uuid /\ new.ps = n.ps
    BY DEF Nodes
  <2>2. Moves(n, Modify(n, new, "dirty"), {})
    BY <2>1, ModifyMoves
  <2>3. QED
    BY <1>2, <2>2 DEF PowerChange, ChangePower, Ordered, Moves, Out
<1>3. ASSUME NEW p \in AbortInspectionOrCleaning(n), GetNode(n, id)
      PROVE  Ordered(n, id, p, AbortTargets(n.ps))
  <2>1. \/ n.ps = "inspect wait" /\ p \in Abort(n, "inspect failed")
        \/ n.ps = "clean wait" /\ p \in Abort(n, "clean failed")
        \/ n.ps = "inspect failed" /\ p \in To(n, "manageable")
        \/ p = Out(n, "dirty")
    BY <1>3 DEF AbortInspectionOrCleaning
  <2>2. /\ Moves(n, Abort(n, "inspect failed"), {"inspect failed"})
        /\ Moves(n, Abort(n, "clean failed"), {"clean failed"})
        /\ Moves(n, To(n, "manageable"), {"manageable"})
    BY <1>1, ChangesMove
  <2>3. CASE n.ps = "inspect wait" /\ p \in Abort(n, "inspect failed")
    <3>1. "inspect failed" \in AbortTargets(n.ps)
      BY <2>3 DEF AbortTargets
    <3>2. QED
      BY <1>3, <2>2, <2>3, <3>1, ChangeOrders
  <2>4. CASE n.ps = "clean wait" /\ p \in Abort(n, "clean failed")
    <3>1. "clean failed" \in AbortTargets(n.ps)
      BY <2>4 DEF AbortTargets
    <3>2. QED
      BY <1>3, <2>2, <2>4, <3>1, ChangeOrders
  <2>5. CASE n.ps = "inspect failed" /\ p \in To(n, "manageable")
    <3>1. "manageable" \in AbortTargets(n.ps)
      BY <2>5 DEF AbortTargets
    <3>2. QED
      BY <1>3, <2>2, <2>5, <3>1, ChangeOrders
  <2>6. CASE p = Out(n, "dirty")
    BY <2>6 DEF Ordered, Out
  <2>7. QED
    BY <2>1, <2>3, <2>4, <2>5, <2>6
<1>4. CASE o \in PowerOn(n, id, power, force)
  BY <1>2, <1>4, ForNodeOrders DEF PowerOn
<1>5. CASE o \in PowerOff(n, id, power, force)
  BY <1>2, <1>3, <1>5, ForNodeOrders DEF PowerOff
<1>6. QED
  BY <1>4, <1>5

\* Delete and Detach remove the node, or abort what it does.
LEMMA DetachOrders ==
    ASSUME NEW n \in Nodes, NEW id, NEW force \in BOOLEAN,
           NEW o \in Detach(n, id, force)
    PROVE  /\ o.n.uuid = n.uuid
           /\ \/ o.n.ps \in {n.ps, "absent"}
              \/ GetNode(n, id) /\ o.n.ps \in AbortTargets(n.ps)
<1>1. {"deploy failed", "inspect failed", "clean failed", "deleting"} \subseteq ProvisionStates
  BY DEF ProvisionStates, Failed, Transient, Busy
<1>2. \A new \in {Gone(n), [n EXCEPT !.maint = TRUE]} :
         Moves(n, Modify(n, new, "dirty"), {"absent"})
  <2>1. /\ Gone(n).uuid = n.uuid /\ Gone(n).ps = "absent"
        /\ [n EXCEPT !.maint = TRUE].uuid = n.uuid /\ [n EXCEPT !.maint = TRUE].ps = n.ps
    BY DEF Nodes, Gone, FreshNode
  <2>2. QED
    BY <2>1, ModifyMoves
<1>3. /\ Moves(n, Abort(n, "inspect failed"), {"inspect failed"})
      /\ Moves(n, Abort(n, "clean failed"), {"clean failed"})
      /\ Moves(n, Abort(n, "deploy failed"), {"deploy failed"})
      /\ Moves(n, To(n, "deleting"), {"deleting"})
  BY <1>1, ChangesMove
<1>4. CASE o.n = n
  BY <1>4
<1>5. CASE o.n # n
  <2>1. GetNode(n, id) /\ o \in RealDelete(n, force)
    BY <1>5 DEF Detach, Out
  <2> DEFINE new == IF n.maint THEN Gone(n) ELSE [n EXCEPT !.maint = TRUE]
  <2> HIDE DEF new
  <2>2. \/ o \in Modify(n, Gone(n), "dirty")
        \/ o \in Modify(n, new, "dirty")
        \/ n.ps = "deploy wait" /\ o \in AbortDeployment(n)
        \/ n.ps = "inspect wait" /\ o \in Abort(n, "inspect failed")
        \/ n.ps = "clean wait" /\ o \in Abort(n, "clean failed")
    <3>0. o # Out(n, "dirty")
      BY <1>5 DEF Out
    <3>1. CASE n.ps \in {"verifying", "deploying", "cleaning", "inspecting", "deleting",
                         "enroll", "available", "manageable"}
      BY <2>1, <3>0, <3>1 DEF RealDelete
    <3>2. CASE n.ps \in {"deploy wait", "inspect wait", "clean wait"}
      BY <2>1, <3>0, <3>2 DEF RealDelete
    <3>3. CASE ~(n.ps \in {"verifying", "deploying", "cleaning", "inspecting", "deleting",
                           "enroll", "available", "manageable",
                           "deploy wait", "inspect wait", "clean wait"})
      BY <2>1, <3>3 DEF RealDelete, new
    <3>4. QED
      BY <3>1, <3>2, <3>3
  <2>3. AbortDeployment(n) \in {Abort(n, "deploy failed"), To(n, "deleting")}
    BY DEF AbortDeployment
  <2>4. new \in {Gone(n), [n EXCEPT !.maint = TRUE]}
    BY DEF new
  <2>5. QED
    BY <1>2, <1>3, <2>1, <2>2, <2>3, <2>4 DEF Moves, AbortTargets
<1>6. QED
  BY <1>4, <1>5

\* Register enrols a new node or goes on with the registration of an enrolled one.
LEMMA RegisterOrders ==
    ASSUME NEW n \in Nodes, NEW credsChanged \in BOOLEAN, NEW restart \in BOOLEAN,
           NEW o \in Register(n, credsChanged, restart)
    PROVE  \/ o.n.uuid = n.uuid /\ o.n.ps = n.ps
           \/ n.ps = "enroll" /\ o.n.uuid = n.uuid /\ o.n.ps = "verifying"
           \/ n.ps = "absent" /\ o.n.uuid = n.uuid + 1 /\ o.n.ps \in {"enroll", "verifying"}
<1>1. "verifying" \in ProvisionStates
  BY DEF ProvisionStates, Transient
<1>2. CASE n.ps = "absent"
  <2> DEFINE new == FreshNode("enroll", n.uuid + 1)
  <2>1. new \in Nodes
    BY DEF FreshNode, Nodes, ProvisionStates, RAIDs, MaybeImage
  <2>2. Moves(new, To(new, "verifying"), {"verifying"})
    BY <1>1, <2>1, ChangesMove
  <2>3. new.uuid = n.uuid + 1 /\ new.ps = "enroll"
    BY DEF FreshNode
  <2>4. o \in Refused(n) \union To(new, "verifying")
    BY <1>2 DEF Register, EnrollNode
  <2>5. o \in Refused(n) => o.n = n
    BY DEF Refused
  <2> HIDE DEF new
  <2>6. QED
    BY <1>2, <2>2, <2>3, <2>4, <2>5 DEF Moves
<1>3. CASE n.ps # "absent"
  <2>1. \/ o \in Refused(n) \/ (\E r \in Results : o = Out(n, r))
        \/ n.ps = "enroll" /\ o \in To(n, "verifying")
    BY <1>3 DEF Register, Results
  <2>2. Moves(n, To(n, "verifying"), {"verifying"})
    BY <1>1, ChangesMove
  <2>3. QED
    BY <2>1, <2>2 DEF Refused, Out, Moves
<1>4. QED
  BY <1>2, <1>3

-----------------------------------------------------------------------------
(***************************************************************************)
(* What one reconcile may do: to which states it drives the node, given    *)
(* the copy of the host it has read, and which hosts it writes.            *)
(***************************************************************************)
\* The provision states that a reconcile of the copy c moves a node to from `ps'.
Targets(c, ps) ==
    AbortTargets(ps)
      \union {to \in InspectTargets(ps) : c.state = "inspecting"}
      \union {to \in RepairTargets(ps) : c.state = "preparing"}
      \union {to \in PrepareTargets(ps) : c.state = "preparing" /\ Unprepared(c)}
      \union {to \in ProvisionTargets(ps) : c.state = "provisioning"}
      \union {to \in DeprovisionTargets(ps) : c.state = "deprovisioning"}
      \union {to \in AdoptTargets(ps) : c.state \in RunningStates \union {"deprovisioning"}}

\* A reconcile of the copy c leaves node n as m.
Drive(c, n, m) ==
    \/ m.uuid = n.uuid /\ m.ps \in {n.ps, "absent"}
    \/ n.ps = "enroll" /\ m.uuid = n.uuid /\ m.ps = "verifying"
    \/ n.ps = "absent" /\ m.uuid = n.uuid + 1 /\ m.ps \in {"enroll", "verifying"}
    \/ GetNode(n, c.id) /\ m.uuid = n.uuid /\ m.ps \in Targets(c, n.ps)

\* The states that the handler of the state of copy c goes on to when it finds node n.
NextStates(c, n) ==
    CASE c.state = "none" -> {"registering", "unmanaged"}
      [] c.state = "unmanaged" -> {"registering"}
      [] c.state = "registering" -> {"externally provisioned", "inspecting", "preparing"}
      [] c.state = "inspecting" -> {"preparing"}
      [] c.state = "preparing" -> {s \in {"available"} : n.ps \in {"available", "manageable"} /\ ~Unprepared(c)}
      [] c.state = "available" -> {"externally provisioned", "inspecting", "preparing", "provisioning"}
      [] c.state = "provisioning" -> {"deprovisioning"} \union {s \in {"provisioned"} : n.ps = "active"}
      [] c.state = "externally provisioned" -> {"provisioned"}
      [] c.state = "provisioned" -> {"deprovisioning"}
      [] c.state = "deprovisioning" -> {s \in {"available"} : n.ps = "available"}
      [] OTHER -> {}

LeavingStates == {"powering off before delete", "deleting"}

\* GaveUpOnHost, of the host h that is written.
GivesUp(h) ==
    /\ cache.deleting
    /\ \/ h.errCount > retryCount
       \/ cache.op = "detached"
       \/ secret = 0 /\ ~GetNode(node, cache.id)

\* h may be written by a reconcile that leaves the node as m.
Written(m, h) ==
    /\ cache.id <= h.id
    /\ \/ /\ h.exists /\ h.fin
          /\ \/ h.state \in {cache.state} \union LeavingStates
             \/ m = node /\ h.state \in NextStates(cache, node)
       \/ ~h.exists /\ cache.state = "deleting" /\ h.state = "deleting"
    /\ cache.state = "deprovisioning" /\ h.state # "deprovisioning"
         => node.ps = "available" \/ GivesUp(h)

Reconciled ==
    /\ UNCHANGED <<cache, machine>>
    /\ Drive(cache, node, node')
    /\ \/ host' = host
       \/ cache = host /\ Written(node', host')

\* The end of a reconcile, in the form the handlers use it.
LEMMA EndOfReconcile ==
    ASSUME NEW o, Drive(cache, node, o.n)
    PROVE  /\ Discard(o) => Reconciled
           /\ \A h : Written(o.n, h) /\ Commit(o, h) => Reconciled
           /\ \A h, old : Written(o.n, h) /\ CommitIfChanged(o, h, old) => Reconciled
<1>1. Discard(o) => Reconciled
  BY DEF Discard, Reconciled
<1>2. ASSUME NEW h, Written(o.n, h), Commit(o, h) PROVE Reconciled
  BY <1>2 DEF Commit, Reconciled
<1>3. QED
  BY <1>1, <1>2 DEF CommitIfChanged

\* The hosts with a state in S that a reconcile holds in memory when the node
\* is n.
Holding(n, S) == {h \in Workable(n) : h.state \in S /\ cache.id <= h.id}

\* The status helpers keep the state and the ID of a host.
LEMMA HelpersHold ==
    ASSUME NEW n \in Nodes, NEW S, NEW h \in Holding(n, S)
    PROVE  /\ ClearError(h) \in Holding(n, S)
           /\ \A t \in ErrorTypes : Fail(h, t) \in Holding(n, S)
           /\ ResetErrors(h) \in Holding(n, S)
           /\ ClearSettings(h) \in Holding(n, S)
           /\ \A b \in BOOLEAN : [h EXCEPT !.powered = b] \in Holding(n, S)
           /\ \A b \in BOOLEAN : [h EXCEPT !.refresh = b] \in Holding(n, S)
           /\ \A i \in MaybeImage : [h EXCEPT !.pimage = i] \in Holding(n, S)
           /\ \A c \in RecordedRAIDs : [h EXCEPT !.praid = c] \in Holding(n, S)
           /\ \A c \in Nat, b \in BOOLEAN : [h EXCEPT !.good = c, !.open = b] \in Holding(n, S)
           /\ \A c \in Nat, b \in BOOLEAN : [h EXCEPT !.tried = c, !.open = b] \in Holding(n, S)
           /\ [h EXCEPT !.profile = TRUE] \in Holding(n, S)
<1>1. h \in Workable(n) /\ h \in Hosts /\ h.state \in S /\ cache.id <= h.id
  BY DEF Holding, Workable
<1>2. /\ ClearError(h).state = h.state /\ ClearError(h).id = h.id
      /\ \A t : Fail(h, t).state = h.state /\ Fail(h, t).id = h.id
      /\ ResetErrors(h).state = h.state /\ ResetErrors(h).id = h.id
      /\ ClearSettings(h).state = h.state /\ ClearSettings(h).id = h.id
  BY <1>1 DEF Hosts, ClearError, Fail, ResetErrors, ClearSettings
<1>3. /\ \A b : [h EXCEPT !.powered = b].state = h.state /\ [h EXCEPT !.powered = b].id = h.id
      /\ \A b : [h EXCEPT !.refresh = b].state = h.state /\ [h EXCEPT !.refresh = b].id = h.id
      /\ \A i : [h EXCEPT !.pimage = i].state = h.state /\ [h EXCEPT !.pimage = i].id = h.id
      /\ \A c : [h EXCEPT !.praid = c].state = h.state /\ [h EXCEPT !.praid = c].id = h.id
  BY <1>1 DEF Hosts
<1>4. /\ \A c, b : /\ [h EXCEPT !.good = c, !.open = b].state = h.state
                   /\ [h EXCEPT !.good = c, !.open = b].id = h.id
      /\ \A c, b : /\ [h EXCEPT !.tried = c, !.open = b].state = h.state
                   /\ [h EXCEPT !.tried = c, !.open = b].id = h.id
      /\ [h EXCEPT !.profile = TRUE].state = h.state /\ [h EXCEPT !.profile = TRUE].id = h.id
  BY <1>1 DEF Hosts
<1>5. QED
  BY <1>1, <1>2, <1>3, <1>4, HelpersKeep DEF Holding

\* A change of state.
LEMMA MovesHold ==
    ASSUME NEW n \in Nodes, NEW S, NEW h \in Holding(n, S), NEW s \in States
    PROVE  /\ [h EXCEPT !.state = s] \in Holding(n, {s})
           /\ \A m : MoveTo(h, s, m) \in Holding(n, S \union {s})
<1>1. h \in Workable(n) /\ h \in Hosts /\ h.state \in S /\ cache.id <= h.id
  BY DEF Holding, Workable
<1>2. [h EXCEPT !.state = s].state = s /\ [h EXCEPT !.state = s].id = h.id
  BY <1>1 DEF Hosts
<1>3. \A m : MoveTo(h, s, m).state \in {h.state, s} /\ MoveTo(h, s, m).id = h.id
  BY <1>1 DEF Hosts, MoveTo
<1>4. QED
  BY <1>1, <1>2, <1>3, HelpersKeep DEF Holding

\* Hosts in one of several states, and of a later node.
LEMMA HoldingGrows ==
    ASSUME NEW n \in Nodes, NEW m \in Nodes, n.uuid <= m.uuid, cache.id <= n.uuid,
           cache.id \in Nat, NEW S, NEW h \in Holding(n, S)
    PROVE  /\ \A T : S \subseteq T => h \in Holding(n, T)
           /\ h \in Holding(m, S)
           /\ [h EXCEPT !.id = m.uuid] \in Holding(m, S)
<1>1. /\ h \in Workable(n) /\ h \in Hosts /\ h.state \in S /\ cache.id <= h.id
      /\ n.uuid \in Nat /\ m.uuid \in Nat
  BY DEF Holding, Workable, Nodes
<1>2. [h EXCEPT !.id = m.uuid].state = h.state /\ [h EXCEPT !.id = m.uuid].id = m.uuid
  BY <1>1 DEF Hosts
<1>3. h \in Workable(m) /\ [h EXCEPT !.id = m.uuid] \in Workable(m)
  BY <1>1, LaterNodeKeeps
<1>4. cache.id <= m.uuid
  BY <1>1
<1>5. \A T : S \subseteq T => h \in Holding(n, T)
  BY <1>1 DEF Holding
<1>6. h \in Holding(m, S) /\ [h EXCEPT !.id = m.uuid] \in Holding(m, S)
  BY <1>1, <1>2, <1>3, <1>4 DEF Holding
<1>7. QED
  BY <1>5, <1>6

\* A host that stays in its state, or is on its way out, may be written, unless it
\* leaves Deprovisioning.
LEMMA HeldIsWritten ==
    ASSUME NEW n, NEW m
    PROVE  /\ \A h \in Holding(n, {cache.state}) : Written(m, h)
           /\ cache.state # "deprovisioning" \/ node.ps = "available" =>
                 /\ \A h \in Holding(n, {cache.state} \union LeavingStates) : Written(m, h)
                 /\ \A h \in Holding(n, {cache.state} \union NextStates(cache, node)) :
                       Written(node, h)
BY DEF Holding, Written, Workable

\* registerHost keeps the state of the host and never goes back to an earlier ID.
LEMMA RegistrationHolds ==
    ASSUME NEW n \in Nodes, NEW o, o.n \in Nodes, n.uuid <= o.n.uuid,
           cache.id <= n.uuid, secret \in Nat,
           NEW S, cache \in Holding(n, S)
    PROVE  /\ Tried \in Holding(o.n, S)
           /\ Identified(Tried, o) \in Holding(o.n, S)
           /\ Accepted(o) \in Holding(o.n, S)
<1>1. Tried \in Holding(n, S)
  <2>1. (cache.open \/ Retrying) \in BOOLEAN
    OBVIOUS
  <2>2. QED
    BY <2>1, HelpersHold DEF Tried
<1>2. cache.id \in Nat
  BY DEF Holding, Workable, Hosts
<1>3. Tried \in Holding(o.n, S) /\ [Tried EXCEPT !.id = o.n.uuid] \in Holding(o.n, S)
  BY <1>1, <1>2, HoldingGrows
<1>4. Identified(Tried, o) \in Holding(o.n, S)
  BY <1>3, HelpersHold DEF Identified
<1> DEFINE b == Identified(Tried, o).open /\ cache.state = "registering"
           h == [Identified(Tried, o) EXCEPT !.good = secret, !.open = b]
<1>5. b \in BOOLEAN
  OBVIOUS
<1> HIDE DEF b
<1>6. h \in Holding(o.n, S)
  BY <1>4, <1>5, HelpersHold
<1>7. ClearError(h) \in Holding(o.n, S)
  <2> HIDE DEF h
  <2>1. QED
    BY <1>6, HelpersHold
<1>8. Accepted(o) \in {h, ClearError(h)}
  BY DEF Accepted, b
<1>9. QED
  BY <1>3, <1>4, <1>6, <1>7, <1>8

\* What the state handlers read and hold.
LEMMA CurrentHolds ==
    ASSUME IInv, Attached
    PROVE  /\ node \in Nodes
           /\ cache \in Holding(node, {cache.state})
           /\ Current \in Holding(node, {cache.state})
<1>1. /\ node \in Nodes /\ cache \in Workable(node) /\ secret \in Nat
      /\ cache.id \in Nat /\ node.uuid \in Nat /\ cache.id <= node.uuid
  BY CurrentIsWorkable, CacheFields DEF Hosts, Nodes, IInv
<1>2. cache \in Holding(node, {cache.state})
  BY <1>1 DEF Holding
<1>3. NoCall.n = node /\ node.uuid <= node.uuid
  BY <1>1 DEF NoCall, Out
<1>4. Accepted(NoCall) \in Holding(node, {cache.state})
  BY <1>1, <1>2, <1>3, RegistrationHolds
<1>5. QED
  BY <1>1, <1>2, <1>4 DEF Current

\* What a reconcile orders.
LEMMA OrdersDrive ==
    ASSUME NEW o, NEW to, Ordered(node, cache.id, o, to), to \subseteq Targets(cache, node.ps)
    PROVE  Drive(cache, node, o.n)
BY DEF Ordered, Drive

\* A reconcile without a call leaves the node as it is.
LEMMA NoCallDrives ==
    NoCall.n = node /\ Drive(cache, node, NoCall.n)
BY DEF NoCall, Out, Drive

-----------------------------------------------------------------------------
(***************************************************************************)
(* Every step of Reconcile does no more than that.                         *)
(***************************************************************************)
\* checkInitiateDelete leaves Deprovisioning only when it gives up.
LEMMA DeletionStates ==
    ASSUME cache \in Hosts, DeletionState # cache.state
    PROVE  /\ \/ DeletionState \in LeavingStates
              \/ cache.state \in {"provisioning", "provisioned"} /\ DeletionState = "deprovisioning"
           /\ cache.state = "deprovisioning" =>
                 cache.deleting /\ (cache.op = "detached" \/ cache.errCount > retryCount)
<1>1. cache.deleting
  BY DEF DeletionState
<1>2. CASE cache.op = "detached"
  BY <1>1, <1>2 DEF DeletionState, LeavingStates
<1>3. CASE cache.op # "detached" /\ cache.state \in {"registering", "unmanaged", "none"}
  BY <1>1, <1>3 DEF DeletionState, LeavingStates
<1>4. CASE cache.op # "detached" /\ cache.state \in {"provisioning", "provisioned"}
  BY <1>1, <1>4 DEF DeletionState, LeavingStates
<1>5. CASE cache.op # "detached" /\ cache.state \in {"deprovisioning", "powering off before delete"}
  BY <1>1, <1>5 DEF DeletionState, LeavingStates, retryCount
<1>6. CASE /\ cache.op # "detached"
           /\ cache.state \notin {"registering", "unmanaged", "none", "provisioning", "provisioned",
                                  "deprovisioning", "powering off before delete"}
  BY <1>1, <1>6 DEF DeletionState, LeavingStates
<1>7. QED
  BY <1>2, <1>3, <1>4, <1>5, <1>6

\* The steps of Reconcile before the state handlers, when the host is not attached.
LEMMA EarlyStepsReconcile ==
    ASSUME IInv,
           AddFinalizer \/ CredentialsError \/ CheckDelayedHost \/ InitiateDelete
             \/ DetachHost \/ ReattachHost
    PROVE  Reconciled
<1>1. /\ node \in Nodes /\ cache \in Hosts /\ cache.id \in Nat /\ cache.id <= cache.id
      /\ cache.errCount \in Nat
  <2>1. cache.id \in Nat /\ cache \in Hosts /\ cache.errCount \in 0..retryCount + 1
    BY CacheFields DEF Hosts
  <2>2. QED
    BY <2>1, CacheFields DEF retryCount
<1>2. ASSUME NEW h, h.state = cache.state, h.id = cache.id, h.exists, h.fin, NEW m
      PROVE  Written(m, h)
  BY <1>1, <1>2 DEF Written
<1>3. CASE AddFinalizer
  <2> DEFINE h == [cache EXCEPT !.fin = TRUE]
  <2>1. h.state = cache.state /\ h.id = cache.id /\ h.exists /\ h.fin
    BY <1>1, <1>3 DEF AddFinalizer, Hosts
  <2> HIDE DEF h
  <2>2. Commit(NoCall, h)
    BY <1>3 DEF AddFinalizer, h
  <2>3. QED
    BY <1>2, <2>1, <2>2, NoCallDrives, EndOfReconcile
<1>4. CASE CredentialsError
  <2> DEFINE h == Fail(cache, "registration error")
  <2>1. h.state = cache.state /\ h.id = cache.id /\ h.exists /\ h.fin
    BY <1>1, <1>4 DEF CredentialsError, Reconciling, Fail, Hosts
  <2> HIDE DEF h
  <2>2. Commit(NoCall, h)
    BY <1>4 DEF CredentialsError, h
  <2>3. QED
    BY <1>2, <2>1, <2>2, NoCallDrives, EndOfReconcile
<1>5. CASE CheckDelayedHost
  <2>1. \A h \in {ClearError(cache), [cache EXCEPT !.op = "delayed"]} :
           h.state = cache.state /\ h.id = cache.id /\ h.exists /\ h.fin
    BY <1>1, <1>5 DEF CheckDelayedHost, CredentialsResolved, Reconciling, ClearError, Hosts
  <2>2. PICK h \in {ClearError(cache), [cache EXCEPT !.op = "delayed"]} : Commit(NoCall, h)
    BY <1>5 DEF CheckDelayedHost
  <2>3. QED
    BY <1>2, <2>1, <2>2, NoCallDrives, EndOfReconcile
<1>6. CASE InitiateDelete
  <2> DEFINE h == MoveTo(cache, DeletionState, node)
  <2>1. Commit(NoCall, h) /\ DeletionState # cache.state /\ cache.exists /\ cache.fin
    BY <1>6 DEF InitiateDelete, Undelayed, CredentialsResolved, Reconciling
  <2>2. /\ h.id = cache.id /\ h.exists = cache.exists /\ h.fin = cache.fin
        /\ h.errCount = cache.errCount
        /\ h.state \in {cache.state, DeletionState}
    <3> DEFINE next == DeletionState
               b == next = "registering" \/ (cache.open /\ cache.state # "registering")
    <3>1. h \in {[cache EXCEPT !.op = "delayed"], [cache EXCEPT !.state = next, !.open = b]}
      BY DEF MoveTo
    <3> HIDE DEF next, b, h
    <3>2. QED
      BY <1>1, <3>1 DEF Hosts, next
  <2>3. Written(node, h)
    <3> HIDE DEF h
    <3>1. CASE h.state = cache.state
      BY <1>2, <2>1, <2>2, <3>1
    <3>2. CASE h.state = DeletionState
      <4>1. cache.state = "deprovisioning" => GivesUp(h)
        BY <1>1, <2>1, <2>2, DeletionStates DEF GivesUp
      <4>2. h.state \in LeavingStates \/ h.state \in NextStates(cache, node)
        BY <1>1, <2>1, <3>2, DeletionStates DEF NextStates
      <4>3. QED
        BY <1>1, <2>1, <2>2, <4>1, <4>2 DEF Written
    <3>3. QED
      BY <2>2, <3>1, <3>2
  <2> HIDE DEF h
  <2>4. QED
    BY <2>1, <2>3, NoCallDrives, EndOfReconcile
<1>7. CASE DetachHost
  <2> DEFINE force == cache.state \notin Detachable
             h == [cache EXCEPT !.op = "detached"]
  <2>1. PICK o \in Detach(node, cache.id, force) :
           \/ o.r = "complete" /\ CommitIfChanged(o, h, cache)
           \/ o.r # "complete" /\ Discard(o)
    BY <1>7 DEF DetachHost
  <2>2. Drive(cache, node, o.n)
    <3>1. force \in BOOLEAN
      OBVIOUS
    <3> HIDE DEF force
    <3>2. /\ o.n.uuid = node.uuid
          /\ \/ o.n.ps \in {node.ps, "absent"}
             \/ GetNode(node, cache.id) /\ o.n.ps \in AbortTargets(node.ps)
      BY <1>1, <2>1, <3>1, DetachOrders
    <3>3. QED
      BY <3>2 DEF Drive, Targets
  <2>3. h.state = cache.state /\ h.id = cache.id /\ h.exists /\ h.fin
    BY <1>1, <1>7 DEF DetachHost, Undeleted, Undelayed, CredentialsResolved, Reconciling, Hosts
  <2> HIDE DEF h
  <2>4. QED
    BY <1>2, <2>1, <2>2, <2>3, EndOfReconcile
<1>8. CASE ReattachHost
  <2> DEFINE h == [cache EXCEPT !.op = IF cache.errType = "none" THEN "OK" ELSE "error"]
  <2>1. h.state = cache.state /\ h.id = cache.id /\ h.exists /\ h.fin
    BY <1>1, <1>8 DEF ReattachHost, Undeleted, Undelayed, CredentialsResolved, Reconciling, Hosts
  <2> HIDE DEF h
  <2>2. Commit(NoCall, h)
    BY <1>8 DEF ReattachHost, h
  <2>3. QED
    BY <1>2, <2>1, <2>2, NoCallDrives, EndOfReconcile
<1>9. QED
  BY <1>3, <1>4, <1>5, <1>6, <1>7, <1>8

\* registerHost.
LEMMA RegisterHostReconciles ==
    ASSUME IInv, RegisterHost
    PROVE  Reconciled
<1>1. Attached
  BY DEF RegisterHost
<1>2. PICK o \in Register(node, cache.tried # secret, cache.errType = "registration error") :
         LET h == Identified(Tried, o)
         IN
         \/ o.r = "error"  /\ Discard(o)
         \/ o.r = "failed" /\ Commit(o, Fail(Tried, "registration error"))
         \/ o.r = "dirty"  /\ CommitIfChanged(o, ClearError(h), [cache EXCEPT !.open = h.open])
         \/ o.r = "complete" /\ ~h.profile /\ Commit(o, [h EXCEPT !.profile = TRUE])
         \/ o.r = "complete" /\ h.profile /\ RegistrationDirty /\ Commit(o, Accepted(o))
  BY DEF RegisterHost
<1>3. node \in Nodes /\ secret \in Nat /\ cache.id <= node.uuid
  BY CacheFields DEF IInv
<1>4. Drive(cache, node, o.n)
  BY <1>2, <1>3, RegisterOrders DEF Drive
<1>5. o.n \in Nodes /\ node.uuid <= o.n.uuid
  BY <1>2, <1>3, RegisterIdentity, OutcomeKeepsSafe DEF IInv, TypeOK
<1> DEFINE S == {cache.state}
<1>6. /\ Tried \in Holding(o.n, S)
      /\ Identified(Tried, o) \in Holding(o.n, S)
      /\ Accepted(o) \in Holding(o.n, S)
  BY <1>1, <1>3, <1>5, CurrentHolds, RegistrationHolds
<1>7. /\ Fail(Tried, "registration error") \in Holding(o.n, S)
      /\ ClearError(Identified(Tried, o)) \in Holding(o.n, S)
      /\ [Identified(Tried, o) EXCEPT !.profile = TRUE] \in Holding(o.n, S)
  BY <1>5, <1>6, HelpersHold DEF ErrorTypes
<1>8. \A h \in Holding(o.n, S) : Written(o.n, h)
  BY HeldIsWritten
<1>9. QED
  BY <1>2, <1>4, <1>6, <1>7, <1>8, EndOfReconcile

\* A handler that ends without an order, or with a written host of one of its states.
LEMMA HandlerReconciles ==
    ASSUME NEW o, Drive(cache, node, o.n)
    PROVE  /\ Discard(o) => Reconciled
           /\ \A h \in Holding(node, {cache.state}) : Commit(o, h) => Reconciled
           /\ \A h \in Holding(node, {cache.state}) : \A old :
                 CommitIfChanged(o, h, old) => Reconciled
           /\ o.n = node /\ (cache.state # "deprovisioning" \/ node.ps = "available") =>
                 \A h \in Holding(node, {cache.state} \union NextStates(cache, node)) :
                    Commit(o, h) => Reconciled
<1>1. \A h \in Holding(node, {cache.state}) : Written(o.n, h)
  BY HeldIsWritten
<1>2. cache.state # "deprovisioning" \/ node.ps = "available" =>
         \A h \in Holding(node, {cache.state} \union NextStates(cache, node)) : Written(node, h)
  BY HeldIsWritten
<1>3. QED
  BY <1>1, <1>2, EndOfReconcile

\* A handler moves the host to one of the next states of its state.
LEMMA MovesToNext ==
    ASSUME IInv, NEW h \in Holding(node, {cache.state}),
           NEW s \in NextStates(cache, node), s \in States
    PROVE  /\ [h EXCEPT !.state = s] \in Holding(node, {cache.state} \union NextStates(cache, node))
           /\ MoveTo(h, s, node) \in Holding(node, {cache.state} \union NextStates(cache, node))
<1>1. node \in Nodes
  BY CacheFields
<1>2. /\ [h EXCEPT !.state = s] \in Holding(node, {s})
      /\ MoveTo(h, s, node) \in Holding(node, {cache.state} \union {s})
  BY <1>1, MovesHold
<1>3. QED
  BY <1>2 DEF Holding

\* The handlers of the states before a host is available.
LEMMA PreparationReconciles ==
    ASSUME IInv,
           HandleNone \/ HandleUnmanaged \/ HandleRegistering \/ HandleInspecting
             \/ HandlePreparing
    PROVE  Reconciled
<1>1. Attached
  BY DEF HandleNone, HandleUnmanaged, HandleRegistering, HandleInspecting, HandlePreparing,
         In, Registered
<1> DEFINE S == {cache.state}
           T == {cache.state} \union NextStates(cache, node)
<1>2. /\ node \in Nodes /\ cache \in Holding(node, S) /\ Current \in Holding(node, S)
      /\ cache \in Hosts
  BY <1>1, CurrentHolds, CacheFields
<1>3. {"unmanaged", "registering", "externally provisioned", "inspecting", "preparing",
       "available"} \subseteq States
  BY DEF States
<1>4. "inspection error" \in ErrorTypes /\ "preparation error" \in ErrorTypes
  BY DEF ErrorTypes
<1> HIDE DEF S, T
<1>5. CASE HandleNone
  <2>1. cache.state = "none"
    BY <1>5 DEF HandleNone, In
  <2>2. {"registering", "unmanaged"} \subseteq NextStates(cache, node)
    BY <2>1 DEF NextStates
  <2>3. [cache EXCEPT !.op = "discovered"] \in Holding(node, S)
    BY <1>2 DEF Holding, Workable, Hosts, OperationalStatuses
  <2>4. /\ MoveTo(cache, "registering", node) \in Holding(node, T)
        /\ MoveTo([cache EXCEPT !.op = "discovered"], "unmanaged", node) \in Holding(node, T)
    BY <1>2, <1>3, <2>2, <2>3, MovesToNext DEF S, T
  <2>5. QED
    BY <1>5, <2>1, <2>4, NoCallDrives, HandlerReconciles DEF HandleNone, T
<1>6. CASE HandleUnmanaged
  <2>1. cache.state = "unmanaged"
    BY <1>6 DEF HandleUnmanaged, In
  <2>2. "registering" \in NextStates(cache, node)
    BY <2>1 DEF NextStates
  <2>3. MoveTo(cache, "registering", node) \in Holding(node, T)
    BY <1>2, <1>3, <2>2, MovesToNext DEF S, T
  <2>4. QED
    BY <1>6, <2>1, <2>3, NoCallDrives, HandlerReconciles DEF HandleUnmanaged, T
<1>7. CASE HandleRegistering
  <2> DEFINE next == CASE cache.ext -> "externally provisioned"
                       [] ~cache.ext /\ cache.inspect -> "inspecting"
                       [] OTHER -> "preparing"
  <2>1. cache.state = "registering"
    BY <1>7 DEF HandleRegistering, In
  <2>2. next \in NextStates(cache, node) /\ next \in States
    BY <1>3, <2>1 DEF NextStates
  <2> HIDE DEF next
  <2>3. ResetErrors(Current) \in Holding(node, S)
    BY <1>2, HelpersHold
  <2>4. MoveTo(ResetErrors(Current), next, node) \in Holding(node, T)
    BY <1>2, <2>2, <2>3, MovesToNext DEF S, T
  <2>5. Commit(NoCall, MoveTo(ResetErrors(Current), next, node))
    BY <1>7 DEF HandleRegistering, next
  <2>6. QED
    BY <2>1, <2>4, <2>5, NoCallDrives, HandlerReconciles DEF T
<1>8. CASE HandleInspecting
  <2>1. cache.state = "inspecting"
    BY <1>8 DEF HandleInspecting, In
  <2>2. "preparing" \in NextStates(cache, node)
    BY <2>1 DEF NextStates
  <2>3. CASE ~cache.inspect
    <3> DEFINE h == [Current EXCEPT !.state = "preparing"]
    <3>1. h \in Holding(node, T)
      BY <1>2, <1>3, <2>2, MovesToNext DEF S, T
    <3> HIDE DEF h
    <3>2. ResetErrors(h) \in Holding(node, T)
      BY <1>2, <3>1, HelpersHold
    <3>3. Commit(NoCall, ResetErrors(h))
      BY <1>8, <2>3 DEF HandleInspecting, h
    <3>4. QED
      BY <2>1, <3>2, <3>3, NoCallDrives, HandlerReconciles DEF T
  <2>4. CASE cache.inspect
    <3> DEFINE h == ResetErrors(ClearError(Current))
               done == [h EXCEPT !.state = "preparing"]
    <3>1. PICK o \in InspectHardware(node, cache.id, cache.errType = "inspection error",
                                     cache.refresh) :
             \/ o.r \in {"error", "unregistered"} /\ Discard(o)
             \/ o.r = "failed" /\ Commit(o, Fail(Current, "inspection error"))
             \/ /\ o.r = "started" /\ cache.refresh
                /\ Commit(o, [cache EXCEPT !.refresh = FALSE])
             \/ /\ o.r = "dirty" \/ (o.r = "started" /\ ~cache.refresh)
                /\ CommitIfChanged(o, ClearError(Current), Current)
             \/ o.r = "complete" /\ Commit(o, done)
      BY <1>8, <2>4 DEF HandleInspecting
    <3>2. cache.refresh \in BOOLEAN
      BY <1>2 DEF Hosts
    <3>3. Ordered(node, cache.id, o, InspectTargets(node.ps))
      BY <1>2, <3>1, <3>2, InspectOrders
    <3>4. InspectTargets(node.ps) \subseteq Targets(cache, node.ps)
      BY <2>1 DEF Targets
    <3>5. Drive(cache, node, o.n) /\ (o.r = "complete" => o.n = node)
      BY <3>3, <3>4, OrdersDrive DEF Ordered
    <3>6. /\ h \in Holding(node, S) /\ ClearError(Current) \in Holding(node, S)
          /\ Fail(Current, "inspection error") \in Holding(node, S)
          /\ [cache EXCEPT !.refresh = FALSE] \in Holding(node, S)
      BY <1>2, <1>4, HelpersHold
    <3> HIDE DEF h
    <3>7. done \in Holding(node, T)
      BY <1>2, <1>3, <2>2, <3>6, MovesToNext DEF S, T
    <3> HIDE DEF done
    <3>8. QED
      BY <2>1, <3>1, <3>5, <3>6, <3>7, HandlerReconciles DEF S, T
  <2>5. QED
    BY <2>3, <2>4
<1>9. CASE HandlePreparing
  <2> DEFINE dirty == SettingsDirty(cache) \/ cache.errType = "preparation error"
             saved == ClearError([Current EXCEPT !.praid = TargetRAID(cache)])
             needed == HasRAIDSteps(TargetRAID(cache), ActualRAID(cache))
             restart == cache.errType = "preparation error"
             kept == ResetErrors(IF dirty THEN saved ELSE Current)
             done == [kept EXCEPT !.state = "available"]
             failed == Fail(IF dirty THEN ClearSettings(Current) ELSE Current,
                            "preparation error")
  <2>1. cache.state = "preparing"
    BY <1>9 DEF HandlePreparing, In
  <2>2. PICK o \in Prepare(node, cache.id, Volumes(TargetRAID(cache)), dirty, needed, restart) :
           \/ o.r \in {"error", "unregistered"} /\ Discard(o)
           \/ o.r = "failed" /\ Commit(o, failed)
           \/ o.r = "started" /\ Commit(o, saved)
           \/ o.r = "dirty" /\ dirty  /\ Commit(o, Current)
           \/ o.r = "dirty" /\ ~dirty /\ CommitIfChanged(o, Current, Current)
           \/ o.r = "complete" /\ Commit(o, done)
    BY <1>9 DEF HandlePreparing
  <2>3. /\ dirty \in BOOLEAN /\ needed \in BOOLEAN /\ restart \in BOOLEAN
        /\ TargetRAID(cache) \in RecordedRAIDs /\ Volumes(TargetRAID(cache)) \in RAIDs
    BY <1>2, CacheFields, TargetRAIDType DEF SettingsDirty
  <2>4. Unprepared(cache) <=> dirty /\ needed
    BY DEF Unprepared
  <2>5. [Current EXCEPT !.praid = TargetRAID(cache)] \in Holding(node, S)
    BY <1>2, <2>3, HelpersHold
  <2>6. saved \in Holding(node, S)
    BY <1>2, <2>5, HelpersHold
  <2> HIDE DEF dirty, saved, needed, restart
  <2>7. kept \in Holding(node, S) /\ failed \in Holding(node, S)
    BY <1>2, <1>4, <2>6, HelpersHold
  <2>8. /\ dirty /\ needed => Ordered(node, cache.id, o, PrepareTargets(node.ps))
        /\ ~(dirty /\ needed) => Ordered(node, cache.id, o, RepairTargets(node.ps))
        /\ o.r = "complete" => node.ps \in {"available", "manageable"} /\ ~(dirty /\ needed)
    BY <1>2, <2>2, <2>3, PrepareOrders
  <2>9. /\ dirty /\ needed => PrepareTargets(node.ps) \subseteq Targets(cache, node.ps)
        /\ RepairTargets(node.ps) \subseteq Targets(cache, node.ps)
    BY <2>1, <2>4 DEF Targets
  <2>10. Drive(cache, node, o.n) /\ (o.r = "complete" => o.n = node)
    BY <2>8, <2>9, OrdersDrive DEF Ordered
  <2> HIDE DEF kept, failed
  <2>11. o.r = "complete" => done \in Holding(node, T)
    <3>1. o.r = "complete" => "available" \in NextStates(cache, node)
      BY <2>1, <2>4, <2>8 DEF NextStates
    <3>2. QED
      BY <1>2, <1>3, <2>7, <3>1, MovesToNext DEF S, T
  <2> HIDE DEF done
  <2>12. QED
    BY <1>2, <2>1, <2>2, <2>6, <2>7, <2>10, <2>11, HandlerReconciles DEF S, T
<1>10. QED
  BY <1>5, <1>6, <1>7, <1>8, <1>9

\* manageHostPower, for a host that is attached.
LEMMA ManageHostPowerReconciles ==
    ASSUME IInv, Attached, ManageHostPower
    PROVE  Reconciled
<1> DEFINE S == {cache.state}
           forced == cache.errType = "power management error"
           discovered == machine.power = "on"
<1>1. node \in Nodes /\ Current \in Holding(node, S) /\ cache.online \in BOOLEAN
  BY CurrentHolds, CacheFields
<1>2. "power management error" \in ErrorTypes /\ forced \in BOOLEAN
  BY DEF ErrorTypes
<1> HIDE DEF S
<1>3. CASE Discard(NoCall)
  BY <1>3, NoCallDrives, HandlerReconciles
<1>4. CASE Commit(NoCall, [(IF cache.op = "error" /\ forced THEN ClearError(Current) ELSE Current)
                             EXCEPT !.powered = discovered])
  <2> DEFINE cleared == IF cache.op = "error" /\ forced THEN ClearError(Current) ELSE Current
             h == [cleared EXCEPT !.powered = discovered]
  <2>1. cleared \in Holding(node, S)
    BY <1>1, HelpersHold
  <2>2. discovered \in BOOLEAN
    OBVIOUS
  <2>3. Commit(NoCall, h)
    BY <1>4
  <2> HIDE DEF cleared, discovered
  <2>4. h \in Holding(node, S)
    BY <1>1, <2>1, <2>2, HelpersHold
  <2> HIDE DEF h
  <2>5. QED
    BY <2>3, <2>4, NoCallDrives, HandlerReconciles DEF S
<1>5. CASE \E o \in (IF cache.online THEN PowerOn(node, cache.id, machine.power, forced)
                                     ELSE PowerOff(node, cache.id, machine.power, forced)) :
              \/ o.r \in {"error", "unregistered"} /\ Discard(o)
              \/ o.r = "failed" /\ Commit(o, Fail(Current, "power management error"))
              \/ o.r = "dirty"  /\ CommitIfChanged(o, ClearError(Current), Current)
              \/ /\ o.r = "complete"
                 /\ Commit(o, ResetErrors([Current EXCEPT !.powered = cache.online]))
  <2> DEFINE h == ResetErrors([Current EXCEPT !.powered = cache.online])
  <2> HIDE DEF forced
  <2>1. PICK o \in PowerOn(node, cache.id, machine.power, forced)
                     \union PowerOff(node, cache.id, machine.power, forced) :
              \/ o.r \in {"error", "unregistered"} /\ Discard(o)
              \/ o.r = "failed" /\ Commit(o, Fail(Current, "power management error"))
              \/ o.r = "dirty"  /\ CommitIfChanged(o, ClearError(Current), Current)
              \/ o.r = "complete" /\ Commit(o, h)
    BY <1>5
  <2>2. Ordered(node, cache.id, o, AbortTargets(node.ps))
    BY <1>1, <1>2, <2>1, PowerOrders
  <2>3. Drive(cache, node, o.n)
    BY <2>2, OrdersDrive DEF Targets
  <2>4. /\ h \in Holding(node, S) /\ ClearError(Current) \in Holding(node, S)
        /\ Fail(Current, "power management error") \in Holding(node, S)
    BY <1>1, <1>2, HelpersHold
  <2> HIDE DEF h
  <2>5. QED
    BY <2>1, <2>3, <2>4, HandlerReconciles DEF S
<1>6. QED
  BY <1>3, <1>4, <1>5 DEF ManageHostPower

\* actionManageSteadyState.
LEMMA SteadyStateReconciles ==
    ASSUME IInv, Attached, cache.state \in RunningStates, ManageSteadyState
    PROVE  Reconciled
<1> DEFINE S == {cache.state}
<1>1. node \in Nodes /\ Current \in Holding(node, S)
  BY CurrentHolds
<1> HIDE DEF S
<1>2. PICK o \in Adopt(node, cache.id, cache.state,
                       cache.errType = "provisioned registration error") :
         \/ o.r \in {"error", "unregistered"} /\ Discard(o)
         \/ o.r = "failed" /\ Commit(o, Fail(Current, "provisioned registration error"))
         \/ o.r = "dirty"  /\ CommitIfChanged(o, ClearError(Current), Current)
         \/ o.r = "complete" /\ ManageHostPower
  BY DEF ManageSteadyState
<1>3. Ordered(node, cache.id, o, AdoptTargets(node.ps))
  BY <1>1, <1>2, AdoptOrders
<1>4. AdoptTargets(node.ps) \subseteq Targets(cache, node.ps)
  BY DEF Targets
<1>5. Drive(cache, node, o.n)
  BY <1>3, <1>4, OrdersDrive
<1>6. /\ Fail(Current, "provisioned registration error") \in Holding(node, S)
      /\ ClearError(Current) \in Holding(node, S)
  BY <1>1, HelpersHold DEF ErrorTypes
<1>7. QED
  BY <1>2, <1>5, <1>6, HandlerReconciles, ManageHostPowerReconciles DEF S

\* The handlers of the states of a host that is or can be provisioned.
LEMMA ServiceReconciles ==
    ASSUME IInv,
           HandleExternallyProvisioned \/ HandleAvailable \/ HandleProvisioning
             \/ HandleProvisioned
    PROVE  Reconciled
<1>1. Attached
  BY DEF HandleExternallyProvisioned, HandleAvailable, HandleProvisioning, HandleProvisioned,
         In, Registered
<1> DEFINE S == {cache.state}
           T == {cache.state} \union NextStates(cache, node)
<1>2. /\ node \in Nodes /\ Current \in Holding(node, S)
      /\ cache.image \in MaybeImage
  BY <1>1, CurrentHolds, CacheFields
<1>3. {"provisioned", "externally provisioned", "inspecting", "preparing", "provisioning",
       "deprovisioning"} \subseteq States
  BY DEF States
<1>4. "provisioning error" \in ErrorTypes
  BY DEF ErrorTypes
<1>5. Current \in Hosts
  BY <1>2 DEF Holding, Workable
<1> HIDE DEF S, T
<1>6. CASE HandleExternallyProvisioned
  <2> DEFINE image == IF cache.image = NoImage THEN Current.pimage ELSE cache.image
             set == [Current EXCEPT !.pimage = image]
             h == [Current EXCEPT !.pimage = image, !.state = "provisioned"]
  <2>1. cache.state = "externally provisioned"
    BY <1>6 DEF HandleExternallyProvisioned, In
  <2>2. ManageSteadyState \/ Commit(NoCall, h)
    BY <1>6 DEF HandleExternallyProvisioned
  <2>3. image \in MaybeImage
    BY <1>2, <1>5 DEF Hosts
  <2> HIDE DEF image
  <2>4. set \in Holding(node, S)
    BY <1>2, <2>3, HelpersHold
  <2>5. h = [set EXCEPT !.state = "provisioned"]
    BY <1>5 DEF Hosts
  <2> HIDE DEF h, set
  <2>6. h \in Holding(node, T)
    <3>1. "provisioned" \in NextStates(cache, node)
      BY <2>1 DEF NextStates
    <3>2. QED
      BY <1>3, <2>4, <2>5, <3>1, MovesToNext DEF S, T
  <2>7. CASE ManageSteadyState
    BY <1>1, <2>1, <2>7, SteadyStateReconciles DEF RunningStates
  <2>8. CASE Commit(NoCall, h)
    BY <2>1, <2>6, <2>8, NoCallDrives, HandlerReconciles DEF T
  <2>9. QED
    BY <2>2, <2>7, <2>8
<1>7. CASE HandleAvailable
  <2>1. cache.state = "available"
    BY <1>7 DEF HandleAvailable, In
  <2>2. {"externally provisioned", "inspecting", "preparing", "provisioning"}
          \subseteq NextStates(cache, node)
    BY <2>1 DEF NextStates
  <2>3. ClearSettings(Current) \in Holding(node, S) /\ ClearError(Current) \in Holding(node, S)
    BY <1>2, HelpersHold
  <2>4. /\ MoveTo(ClearSettings(Current), "externally provisioned", node) \in Holding(node, T)
        /\ MoveTo(Current, "inspecting", node) \in Holding(node, T)
        /\ MoveTo(Current, "preparing", node) \in Holding(node, T)
        /\ MoveTo(ClearError(Current), "provisioning", node) \in Holding(node, T)
    BY <1>2, <1>3, <2>2, <2>3, MovesToNext DEF S, T
  <2>5. \/ \E h \in Holding(node, T) : Commit(NoCall, h)
        \/ ManageHostPower
    BY <1>7, <2>4 DEF HandleAvailable
  <2>6. CASE ManageHostPower
    BY <1>1, <2>6, ManageHostPowerReconciles
  <2>7. CASE \E h \in Holding(node, T) : Commit(NoCall, h)
    BY <2>1, <2>7, NoCallDrives, HandlerReconciles DEF T
  <2>8. QED
    BY <2>5, <2>6, <2>7
<1>8. CASE HandleProvisioning
  <2> DEFINE set == [Current EXCEPT !.pimage = cache.image]
             h == [Current EXCEPT !.pimage = cache.image, !.state = "provisioned"]
  <2>1. cache.state = "provisioning"
    BY <1>8 DEF HandleProvisioning, In
  <2>2. "deprovisioning" \in NextStates(cache, node)
    BY <2>1 DEF NextStates
  <2>3. MoveTo(Current, "deprovisioning", node) \in Holding(node, T)
    BY <1>2, <1>3, <2>2, MovesToNext DEF S, T
  <2>4. CASE Commit(NoCall, MoveTo(Current, "deprovisioning", node))
    BY <2>1, <2>3, <2>4, NoCallDrives, HandlerReconciles DEF T
  <2>5. CASE /\ ~ProvisioningCancelled(cache)
             /\ \E o \in Provision(node, cache.id, cache.image) :
                \/ o.r \in {"error", "unregistered"} /\ Discard(o)
                \/ o.r = "failed" /\ Commit(o, Fail(Current, "provisioning error"))
                \/ o.r = "dirty"  /\ CommitIfChanged(o, ClearError(Current), Current)
                \/ o.r = "complete" /\ Commit(o, ResetErrors(h))
    <3>1. cache.image \in Images
      BY <1>2, <2>5 DEF ProvisioningCancelled, MaybeImage
    <3>2. PICK o \in Provision(node, cache.id, cache.image) :
                \/ o.r \in {"error", "unregistered"} /\ Discard(o)
                \/ o.r = "failed" /\ Commit(o, Fail(Current, "provisioning error"))
                \/ o.r = "dirty"  /\ CommitIfChanged(o, ClearError(Current), Current)
                \/ o.r = "complete" /\ Commit(o, ResetErrors(h))
      BY <2>5
    <3>3. /\ Ordered(node, cache.id, o, ProvisionTargets(node.ps))
          /\ o.r = "complete" => node.ps = "active"
      BY <1>2, <3>1, <3>2, ProvisionOrders
    <3>4. ProvisionTargets(node.ps) \subseteq Targets(cache, node.ps)
      BY <2>1 DEF Targets
    <3>5. Drive(cache, node, o.n) /\ (o.r = "complete" => o.n = node)
      BY <3>3, <3>4, OrdersDrive DEF Ordered
    <3>6. /\ set \in Holding(node, S) /\ ClearError(Current) \in Holding(node, S)
          /\ Fail(Current, "provisioning error") \in Holding(node, S)
      BY <1>2, <1>4, HelpersHold
    <3>7. h = [set EXCEPT !.state = "provisioned"]
      BY <1>5 DEF Hosts
    <3> HIDE DEF h, set
    <3>8. o.r = "complete" => ResetErrors(h) \in Holding(node, T)
      <4>1. o.r = "complete" => "provisioned" \in NextStates(cache, node)
        BY <2>1, <3>3 DEF NextStates
      <4>2. o.r = "complete" => h \in Holding(node, T)
        BY <1>3, <3>6, <3>7, <4>1, MovesToNext DEF S, T
      <4>3. QED
        BY <1>2, <4>2, HelpersHold
    <3>9. QED
      BY <2>1, <3>2, <3>5, <3>6, <3>8, HandlerReconciles DEF S, T
  <2>6. QED
    BY <1>8, <2>4, <2>5 DEF HandleProvisioning
<1>9. CASE HandleProvisioned
  <2>1. cache.state = "provisioned"
    BY <1>9 DEF HandleProvisioned, In
  <2>2. "deprovisioning" \in NextStates(cache, node)
    BY <2>1 DEF NextStates
  <2>3. MoveTo(Current, "deprovisioning", node) \in Holding(node, T)
    BY <1>2, <1>3, <2>2, MovesToNext DEF S, T
  <2>4. CASE Commit(NoCall, MoveTo(Current, "deprovisioning", node))
    BY <2>1, <2>3, <2>4, NoCallDrives, HandlerReconciles DEF T
  <2>5. CASE ManageSteadyState
    BY <1>1, <2>1, <2>5, SteadyStateReconciles DEF RunningStates
  <2>6. QED
    BY <1>9, <2>4, <2>5 DEF HandleProvisioned
<1>10. QED
  BY <1>6, <1>7, <1>8, <1>9

\* The ways out of a removal step that failed: handleDeprovisioning and
\* handlePoweringOffBeforeDelete give up on the machine or try again.
LEMMA RemovalReconciles ==
    ASSUME IInv, Attached, cache.state \in {"deprovisioning", "powering off before delete"},
           NEW o, NEW to, Ordered(node, cache.id, o, to), to \subseteq Targets(cache, node.ps)
    PROVE  /\ UnregisteredDeletion(o) => Reconciled
           /\ \A t \in ErrorTypes : FailedDeprovisioning(o, t) => Reconciled
           /\ Discard(o) => Reconciled
           /\ CommitIfChanged(o, ClearError(Current), Current) => Reconciled
<1> DEFINE S == {cache.state}
<1>1. node \in Nodes /\ Current \in Holding(node, S)
  BY CurrentHolds
<1>2. Drive(cache, node, o.n)
  BY OrdersDrive
<1>3. LeavingStates \subseteq States
  BY DEF LeavingStates, States
<1>4. ASSUME NEW s, NEW h \in Holding(node, {s}), s \in LeavingStates,
             cache.state = "deprovisioning" => GivesUp(h)
      PROVE  Written(o.n, h)
  BY <1>4 DEF Holding, Workable, Written
<1> HIDE DEF S
<1>5. ASSUME UnregisteredDeletion(o) PROVE Reconciled
  <2> DEFINE h == [Current EXCEPT !.state = "deleting"]
  <2>1. CASE Discard(o)
    BY <1>2, <2>1, HandlerReconciles
  <2>2. CASE o.r = "unregistered" /\ ~HaveCreds /\ cache.deleting /\ Commit(o, h)
    <3>1. h \in Holding(node, {"deleting"})
      BY <1>1, <1>3, MovesHold DEF LeavingStates
    <3>2. secret = 0 /\ ~GetNode(node, cache.id)
      BY <2>2 DEF HaveCreds, Ordered
    <3> HIDE DEF h
    <3>3. GivesUp(h)
      BY <2>2, <3>2 DEF GivesUp
    <3>4. QED
      BY <1>2, <1>4, <2>2, <3>1, <3>3, EndOfReconcile DEF LeavingStates
  <2>3. QED
    BY <1>5, <2>1, <2>2 DEF UnregisteredDeletion
<1>6. ASSUME NEW t \in ErrorTypes, FailedDeprovisioning(o, t) PROVE Reconciled
  <2> DEFINE h == Fail(Current, t)
             left == [h EXCEPT !.state = "powering off before delete"]
  <2>1. \/ Commit(o, h)
        \/ cache.deleting /\ h.errCount > retryCount /\ Commit(o, left)
    BY <1>6 DEF FailedDeprovisioning
  <2>2. h \in Holding(node, S)
    BY <1>1, HelpersHold
  <2> HIDE DEF h
  <2>3. left \in Holding(node, {"powering off before delete"})
    BY <1>1, <1>3, <2>2, MovesHold DEF LeavingStates
  <2>4. left.errCount = h.errCount
    BY <2>2 DEF Holding, Workable, Hosts
  <2> HIDE DEF left
  <2>5. CASE Commit(o, h)
    BY <1>2, <2>2, <2>5, HandlerReconciles DEF S
  <2>6. CASE cache.deleting /\ h.errCount > retryCount /\ Commit(o, left)
    <3>1. GivesUp(left)
      BY <2>4, <2>6 DEF GivesUp
    <3>2. QED
      BY <1>2, <1>4, <2>3, <2>6, <3>1, EndOfReconcile DEF LeavingStates
  <2>7. QED
    BY <2>1, <2>5, <2>6
<1>7. ClearError(Current) \in Holding(node, S)
  BY <1>1, HelpersHold
<1>8. QED
  BY <1>2, <1>5, <1>6, <1>7, HandlerReconciles DEF S

\* actionDeprovisioning after Adopt: a host that is done has an available node.
LEMMA DeprovisionStepReconciles ==
    ASSUME IInv, Attached, cache.state = "deprovisioning", DeprovisionStep
    PROVE  Reconciled
<1> DEFINE S == {cache.state}
           after == IF cache.deleting THEN "powering off before delete" ELSE "available"
           cleared == [ClearSettings(Current) EXCEPT !.pimage = NoImage]
           done == [ClearSettings(Current) EXCEPT !.pimage = NoImage, !.state = after]
<1>1. node \in Nodes /\ Current \in Holding(node, S) /\ NoImage \in MaybeImage
  BY CurrentHolds, CacheFields
<1>2. "provisioning error" \in ErrorTypes /\ after \in States
  BY DEF ErrorTypes, States
<1>3. PICK o \in Deprovision(node, cache.id, cache.errType = "provisioning error") :
         \/ o.r \in {"error", "unregistered"} /\ UnregisteredDeletion(o)
         \/ o.r = "failed" /\ FailedDeprovisioning(o, "provisioning error")
         \/ o.r = "dirty"  /\ CommitIfChanged(o, ClearError(Current), Current)
         \/ o.r = "complete" /\ Commit(o, ResetErrors(done))
  BY DEF DeprovisionStep
<1>4. /\ Ordered(node, cache.id, o, DeprovisionTargets(node.ps))
      /\ o.r = "complete" => node.ps = "available"
  BY <1>1, <1>3, DeprovisionOrders
<1>5. DeprovisionTargets(node.ps) \subseteq Targets(cache, node.ps)
  BY DEF Targets
<1>6. Drive(cache, node, o.n) /\ (o.r = "complete" => o.n = node)
  BY <1>4, <1>5, OrdersDrive DEF Ordered
<1> HIDE DEF S
<1>7. ASSUME o.r = "complete", Commit(o, ResetErrors(done)) PROVE Reconciled
  <2>1. ClearSettings(Current) \in Holding(node, S)
    BY <1>1, HelpersHold
  <2>2. cleared \in Holding(node, S)
    BY <1>1, <2>1, HelpersHold
  <2>3. done = [cleared EXCEPT !.state = after]
    <3> HIDE DEF after
    <3>1. QED
      BY <2>1 DEF Holding, Workable, Hosts
  <2> HIDE DEF done, cleared
  <2>4. done \in Holding(node, {after})
    BY <1>1, <1>2, <2>2, <2>3, MovesHold
  <2>5. ResetErrors(done) \in Holding(node, {after})
    BY <1>1, <2>4, HelpersHold
  <2>6. after \in LeavingStates \union NextStates(cache, node)
    BY <1>4, <1>7 DEF LeavingStates, NextStates
  <2>7. Written(node, ResetErrors(done))
    <3> HIDE DEF after
    <3>1. QED
      BY <1>4, <1>7, <2>5, <2>6 DEF Written, Holding, Workable
  <2>8. QED
    BY <1>6, <1>7, <2>7, EndOfReconcile
<1>8. QED
  BY <1>2, <1>3, <1>4, <1>5, <1>7, RemovalReconciles

\* The handlers on the way out.
LEMMA RemovalHandlersReconcile ==
    ASSUME IInv,
           HandleDeprovisioning \/ HandlePoweringOffBeforeDelete \/ HandleDeleting
    PROVE  Reconciled
<1>1. Attached
  BY DEF HandleDeprovisioning, HandlePoweringOffBeforeDelete, HandleDeleting, In, Registered
<1> DEFINE S == {cache.state}
<1>2. /\ node \in Nodes /\ Current \in Holding(node, S) /\ cache \in Holding(node, S)
      /\ cache \in Hosts
  BY <1>1, CurrentHolds, CacheFields
<1>3. {"provisioned registration error", "power management error"} \subseteq ErrorTypes
  BY DEF ErrorTypes
<1> HIDE DEF S
<1>4. CASE HandleDeprovisioning
  <2>1. cache.state = "deprovisioning"
    BY <1>4 DEF HandleDeprovisioning, In
  <2>2. CASE DeprovisionStep
    BY <1>1, <2>1, <2>2, DeprovisionStepReconciles
  <2>3. CASE \E o \in Adopt(node, cache.id, cache.state,
                            cache.errType = "provisioned registration error") :
                \/ o.r \in {"error", "unregistered"} /\ UnregisteredDeletion(o)
                \/ o.r = "failed" /\ FailedDeprovisioning(o, "provisioned registration error")
                \/ o.r = "dirty"  /\ CommitIfChanged(o, ClearError(Current), Current)
                \/ o.r = "complete" /\ DeprovisionStep
    <3>1. PICK o \in Adopt(node, cache.id, cache.state,
                            cache.errType = "provisioned registration error") :
                \/ o.r \in {"error", "unregistered"} /\ UnregisteredDeletion(o)
                \/ o.r = "failed" /\ FailedDeprovisioning(o, "provisioned registration error")
                \/ o.r = "dirty"  /\ CommitIfChanged(o, ClearError(Current), Current)
                \/ o.r = "complete" /\ DeprovisionStep
      BY <2>3
    <3>2. Ordered(node, cache.id, o, AdoptTargets(node.ps))
      BY <1>2, <3>1, AdoptOrders
    <3>3. AdoptTargets(node.ps) \subseteq Targets(cache, node.ps)
      BY <2>1 DEF Targets
    <3>4. QED
      BY <1>1, <1>3, <2>1, <2>2, <3>1, <3>2, <3>3, RemovalReconciles
  <2>4. QED
    BY <1>4, <2>2, <2>3 DEF HandleDeprovisioning
<1>5. CASE HandlePoweringOffBeforeDelete
  <2> DEFINE h == Fail(Current, "power management error")
             moved == [Current EXCEPT !.state = "deleting"]
             off == [Current EXCEPT !.state = "deleting", !.powered = FALSE]
  <2>1. PICK o \in PowerOff(node, cache.id, machine.power,
                            cache.errType = "power management error") :
           \/ o.r \in {"error", "unregistered"} /\ UnregisteredDeletion(o)
           \/ /\ o.r = "failed"
              /\ Commit(o, IF h.errCount > retryCount THEN [h EXCEPT !.state = "deleting"] ELSE h)
           \/ o.r = "dirty" /\ CommitIfChanged(o, ClearError(Current), Current)
           \/ o.r = "complete" /\ Commit(o, ResetErrors(off))
    BY <1>5 DEF HandlePoweringOffBeforeDelete
  <2>2. cache.state = "powering off before delete"
    BY <1>5 DEF HandlePoweringOffBeforeDelete, In
  <2>3. Ordered(node, cache.id, o, AbortTargets(node.ps))
    BY <1>2, <2>1, PowerOrders
  <2>4. AbortTargets(node.ps) \subseteq Targets(cache, node.ps)
    BY DEF Targets
  <2>5. Drive(cache, node, o.n)
    BY <2>3, <2>4, OrdersDrive
  <2>6. h \in Holding(node, S)
    BY <1>2, <1>3, HelpersHold
  <2>7. off = [moved EXCEPT !.powered = FALSE]
    BY <1>2 DEF Holding, Workable, Hosts
  <2>8. "deleting" \in States
    BY DEF States
  <2>9. moved \in Holding(node, {"deleting"})
    BY <1>2, <2>8, MovesHold
  <2> HIDE DEF h, moved, off
  <2>10. off \in Holding(node, {"deleting"}) /\ [h EXCEPT !.state = "deleting"] \in Holding(node, {"deleting"})
    BY <1>2, <2>6, <2>7, <2>8, <2>9, MovesHold, HelpersHold
  <2>11. ResetErrors(off) \in Holding(node, {"deleting"})
    BY <1>2, <2>10, HelpersHold
  <2>12. ASSUME NEW x \in Holding(node, S) \union Holding(node, {"deleting"})
         PROVE  Written(o.n, x)
    BY <2>2 DEF S, Written, Holding, Workable, LeavingStates
  <2>13. CASE /\ o.r = "failed"
              /\ Commit(o, IF h.errCount > retryCount THEN [h EXCEPT !.state = "deleting"] ELSE h)
    BY <2>5, <2>6, <2>10, <2>12, <2>13, EndOfReconcile
  <2>14. CASE o.r = "complete" /\ Commit(o, ResetErrors(off))
    BY <2>5, <2>11, <2>12, <2>14, EndOfReconcile
  <2>15. QED
    BY <1>1, <2>1, <2>2, <2>3, <2>4, <2>13, <2>14, RemovalReconciles
<1>6. CASE HandleDeleting
  <2> DEFINE h == [cache EXCEPT !.fin = FALSE, !.exists = FALSE]
  <2>1. PICK o \in Detach(node, cache.id, FALSE) :
           \/ o.r = "complete" /\ Commit(o, h)
           \/ o.r # "complete" /\ Discard(o)
    BY <1>6 DEF HandleDeleting, Delete
  <2>2. cache.state = "deleting"
    BY <1>6 DEF HandleDeleting, In
  <2>3. h.id = cache.id /\ h.exists = FALSE /\ h.state = cache.state
    BY <1>2 DEF Hosts
  <2>4. /\ o.n.uuid = node.uuid
        /\ \/ o.n.ps \in {node.ps, "absent"}
           \/ GetNode(node, cache.id) /\ o.n.ps \in AbortTargets(node.ps)
    <3>1. ASSUME NEW force \in BOOLEAN, o \in Detach(node, cache.id, force)
          PROVE  /\ o.n.uuid = node.uuid
                 /\ \/ o.n.ps \in {node.ps, "absent"}
                    \/ GetNode(node, cache.id) /\ o.n.ps \in AbortTargets(node.ps)
      BY <1>2, <3>1, DetachOrders
    <3>2. QED
      BY <2>1, <3>1
  <2>5. Drive(cache, node, o.n)
    BY <2>4 DEF Drive, Targets
  <2>6. Written(o.n, h)
    <3>1. cache.id <= cache.id
      BY <1>2 DEF Hosts
    <3> HIDE DEF h
    <3>2. QED
      BY <2>2, <2>3, <3>1 DEF Written
  <2> HIDE DEF h
  <2>7. QED
    BY <2>1, <2>5, <2>6, EndOfReconcile
<1>7. QED
  BY <1>4, <1>5, <1>6

\* Whatever a reconcile finds, it drives the node and writes the host as Reconciled says.
LEMMA ReconcileIsReconciled ==
    ASSUME IInv, Reconcile
    PROVE  Reconciled
BY EarlyStepsReconcile, RegisterHostReconciles, PreparationReconciles, ServiceReconciles,
   RemovalHandlersReconcile DEF Reconcile

-----------------------------------------------------------------------------
(***************************************************************************)
(* The invariant is inductive.                                             *)
(***************************************************************************)
\* A reconcile of the object or of an old copy leaves the node in a provision state
\* that fits the state of the object.
LEMMA DriveKeepsStage ==
    ASSUME IInv, DiskInv, NEW m, Drive(cache, node, m)
    PROVE  Stage(host.state, m.ps)
<1>1. /\ Stage(host.state, node.ps) /\ Behind(host.state, cache.state) /\ Harmless
  BY DEF DiskInv
<1>2. CASE m.ps \in Early \union {node.ps}
  BY <1>1, <1>2 DEF Stage
<1>3. CASE m.ps \notin Early \union {node.ps}
  <2>1. GetNode(node, cache.id) /\ m.ps \in Targets(cache, node.ps)
    BY <1>3 DEF Drive, Early
  <2>2. CASE host.state \in {"none", "unmanaged", "registering"}
    <3>1. node.ps \in Early /\ cache.state \in {"none", "unmanaged", "registering"}
      BY <1>1, <2>2 DEF Stage, Behind
    <3>2. m.ps \in AbortTargets(node.ps)
      BY <2>1, <3>1 DEF Targets, RunningStates
    <3>3. QED
      BY <3>1, <3>2 DEF AbortTargets, Early
  <2>3. CASE host.state = "inspecting"
    <3>1. /\ node.ps \in Early \union {"available"} \union Inspections
          /\ cache.state \in {"registering", "available", "inspecting"}
      BY <1>1, <2>3 DEF Stage, Behind
    <3>2. m.ps \in AbortTargets(node.ps) \union InspectTargets(node.ps)
      BY <2>1, <3>1 DEF Targets, RunningStates
    <3>3. m.ps \in Early \union Inspections
      BY <3>1, <3>2 DEF AbortTargets, InspectTargets, Early, Inspections
    <3>4. QED
      BY <2>3, <3>3 DEF Stage, RunningStates
  <2>4. CASE host.state = "preparing"
    <3>1. /\ node.ps \in Early \union {"available"} \union Inspections \union Cleanings
          /\ cache.state \in {"registering", "inspecting", "available", "preparing"}
      BY <1>1, <2>4 DEF Stage, Behind
    <3>2. m.ps \in AbortTargets(node.ps) \union InspectTargets(node.ps) \union PrepareTargets(node.ps)
                    \union RepairTargets(node.ps)
      BY <2>1, <3>1 DEF Targets, RunningStates
    <3>3. m.ps \in Early \union Inspections \union Cleanings
      BY <3>1, <3>2 DEF AbortTargets, InspectTargets, PrepareTargets, RepairTargets, Early,
                        Inspections, Cleanings
    <3>4. QED
      BY <2>4, <3>3 DEF Stage, RunningStates
  <2>5. CASE host.state = "available"
    <3>1. /\ node.ps \in Early \union {"available"}
          /\ cache.state \in {"preparing", "deprovisioning", "available"}
          /\ cache.state = "preparing" => ~Unprepared(cache)
          /\ cache.state = "deprovisioning" => node.ps = "available"
      BY <1>1, <2>1, <2>5 DEF Stage, Behind, Harmless
    <3>2. CASE cache.state = "deprovisioning"
      <4>1. m.ps \in AbortTargets("available") \union AdoptTargets("available")
                      \union DeprovisionTargets("available")
        BY <2>1, <3>1, <3>2 DEF Targets
      <4>2. QED
        BY <4>1 DEF AbortTargets, AdoptTargets, DeprovisionTargets
    <3>3. CASE cache.state \in {"preparing", "available"}
      <4>1. m.ps \in AbortTargets(node.ps) \union RepairTargets(node.ps)
        BY <2>1, <3>1, <3>3 DEF Targets, RunningStates
      <4>2. QED
        BY <3>1, <4>1 DEF AbortTargets, RepairTargets, Early
    <3>4. QED
      BY <3>1, <3>2, <3>3
  <2>6. CASE host.state \in RunningStates
    <3>1. /\ node.ps \in Early \union {"available"} \union Adoptions
          /\ cache.state \in {"registering", "available", "externally provisioned",
                              "provisioning", "provisioned"}
          /\ cache.state = "provisioning" => node.ps = "active"
      BY <1>1, <2>1, <2>6 DEF Stage, Behind, Harmless, RunningStates
    <3>2. m.ps \in AbortTargets(node.ps) \union AdoptTargets(node.ps)
                    \union {to \in ProvisionTargets(node.ps) : node.ps = "active"}
      BY <2>1, <3>1 DEF Targets
    <3>3. m.ps = "adopting"
      BY <3>1, <3>2 DEF AbortTargets, AdoptTargets, ProvisionTargets, Early, Adoptions
    <3>4. QED
      BY <2>6, <3>3 DEF Stage, RunningStates, Adoptions
  <2>7. QED
    BY <2>2, <2>3, <2>4, <2>5, <2>6 DEF Stage
<1>4. QED
  BY <1>2, <1>3

\* No reconcile makes a node available: only Ironic does, when it has cleaned it.
LEMMA DriveNeverProvides ==
    ASSUME NEW c, NEW n, NEW m, Drive(c, n, m), m.ps = "available"
    PROVE  n.ps = "available"
<1>1. "available" \notin Targets(c, n.ps)
  BY DEF Targets, AbortTargets, InspectTargets, RepairTargets, PrepareTargets, ProvisionTargets,
         DeprovisionTargets, AdoptTargets
<1>2. QED
  BY <1>1 DEF Drive

\* A node that the copy knows stays the node it knows.
LEMMA DriveKeepsKnown ==
    ASSUME NEW c, NEW n \in Nodes, NEW m, Drive(c, n, m), c.id <= n.uuid, c.id \in Nat,
           n.ps \notin Early => GetNode(n, c.id)
    PROVE  /\ m.ps \notin Early => GetNode(m, c.id)
           /\ GetNode(m, c.id) => GetNode(n, c.id) /\ (m.ps = n.ps \/ n.ps = "enroll" \/ m.ps \in Targets(c, n.ps))
<1>1. n.uuid \in Nat
  BY DEF Nodes
<1>2. QED
  BY <1>1 DEF Drive, GetNode, Early

\* A reconcile keeps the invariant.
LEMMA ReconciledKeepsDisk ==
    ASSUME IInv, DiskInv, Reconciled
    PROVE  DiskInv'
<1>1. /\ cache' = cache /\ machine' = machine /\ Drive(cache, node, node')
      /\ host' = host \/ (cache = host /\ Written(node', host'))
  BY DEF Reconciled
<1>2. /\ node \in Nodes /\ cache.id \in Nat /\ cache.id <= node.uuid /\ cache.id <= host.id
      /\ node.ps \notin Early => GetNode(node, cache.id)
  BY CacheFields DEF IInv, DiskInv, Known, Hosts
<1>3. Stage(host.state, node'.ps)
  BY <1>1, DriveKeepsStage
<1>4. /\ node'.ps \notin Early => GetNode(node', cache.id)
      /\ GetNode(node', cache.id) => /\ GetNode(node, cache.id)
                                     /\ \/ node'.ps = node.ps \/ node.ps = "enroll"
                                        \/ node'.ps \in Targets(cache, node.ps)
  BY <1>1, <1>2, DriveKeepsKnown
<1>5. node'.ps = "available" => machine'.disk = Blank
  BY <1>1, DriveNeverProvides DEF DiskInv
<1>6. CASE host' = host
  <2>1. Harmless'
    <3>1. Harmless
      BY DEF DiskInv
    <3>2. host.state = "available" /\ cache.state = "deprovisioning" /\ GetNode(node', cache.id)
            => node'.ps = "available"
      <4>1. SUFFICES ASSUME host.state = "available", cache.state = "deprovisioning",
                            GetNode(node', cache.id)
                     PROVE  node'.ps = "available"
        OBVIOUS
      <4>2. node.ps = "available"
        BY <1>4, <3>1, <4>1 DEF Harmless
      <4>3. node'.ps \notin Targets(cache, "available")
        BY <4>1 DEF Targets, RunningStates, AbortTargets, DeprovisionTargets, AdoptTargets
      <4>4. QED
        BY <1>4, <4>1, <4>2, <4>3
    <3>3. host.state = "provisioned" /\ cache.state = "provisioning" /\ GetNode(node', cache.id)
            => node'.ps = "active"
      <4>1. SUFFICES ASSUME host.state = "provisioned", cache.state = "provisioning",
                            GetNode(node', cache.id)
                     PROVE  node'.ps = "active"
        OBVIOUS
      <4>2. node.ps = "active"
        BY <1>4, <3>1, <4>1 DEF Harmless
      <4>3. node'.ps \notin Targets(cache, "active")
        BY <4>1 DEF Targets, RunningStates, AbortTargets, ProvisionTargets
      <4>4. QED
        BY <1>4, <4>1, <4>2, <4>3
    <3>4. QED
      BY <1>1, <1>6, <3>1, <3>2, <3>3 DEF Harmless
  <2>2. QED
    BY <1>1, <1>2, <1>3, <1>4, <1>5, <1>6, <2>1 DEF DiskInv, Known
<1>7. CASE cache = host /\ Written(node', host')
  <2>1. Known'
    BY <1>1, <1>4, <1>7 DEF Known, Written
  <2>2. host'.exists /\ ~host'.fin => host'.state = "none"
    BY <1>7 DEF Written
  <2>3. CASE host'.state = host.state
    BY <1>1, <1>3, <1>5, <1>7, <2>1, <2>2, <2>3 DEF DiskInv, Harmless
  <2>4. CASE host'.state \in LeavingStates
    <3>1. Stage(host'.state, node'.ps) /\ Behind(host'.state, cache.state)
      BY <2>4 DEF LeavingStates, Stage, Behind, RunningStates
    <3>2. Harmless' /\ host'.state \notin IdleStates
      BY <2>4 DEF LeavingStates, Harmless, IdleStates
    <3>3. QED
      BY <1>1, <1>5, <2>1, <2>2, <3>1, <3>2 DEF DiskInv
  <2>5. CASE node' = node /\ host'.state \in NextStates(host, node) /\ host'.state # host.state
    <3>1. /\ Stage(host.state, node.ps)
          /\ host.state \in IdleStates => machine.disk \notin Images
          /\ node.ps = "available" => machine.disk = Blank
      BY DEF DiskInv
    <3>2. Stage(host'.state, node.ps)
      BY <2>5, <3>1 DEF NextStates, Stage, RunningStates, Early, Adoptions
    <3>3. Behind(host'.state, host.state)
      BY <2>5 DEF NextStates, Behind
    <3>4. Harmless'
      BY <1>1, <1>7, <2>5 DEF NextStates, Harmless
    <3>5. host'.state \in IdleStates => machine.disk \notin Images
      BY <2>5, <3>1, DiskAssumption DEF NextStates, IdleStates
    <3>6. QED
      BY <1>1, <1>5, <1>7, <2>1, <2>2, <2>5, <3>2, <3>3, <3>4, <3>5 DEF DiskInv
  <2>6. QED
    BY <1>7, <2>3, <2>4, <2>5 DEF Written, LeavingStates
<1>8. QED
  BY <1>1, <1>6, <1>7

\* What users do to the host: only the deletion of a host without finalizer shows.
Edited ==
    /\ UNCHANGED <<cache, node, machine>>
    /\ host'.state = host.state /\ host'.id = host.id /\ host'.fin = host.fin
    /\ host'.praid = host.praid /\ host'.errType = host.errType
    /\ \/ host'.exists = host.exists
       \/ host.exists /\ host'.exists = host.fin

\* Every edit of a user is of that kind.
LEMMA UserEdits ==
    ASSUME IInv, User
    PROVE  Edited
<1>1. host \in Hosts
  BY DEF IInv, TypeOK
<1> DEFINE SameStatus(h) == /\ h.state = host.state /\ h.id = host.id /\ h.fin = host.fin
                            /\ h.praid = host.praid /\ h.errType = host.errType
<1>2. ASSUME NEW op, NEW h, Edit(op, h), SameStatus(h), h.exists = host.exists
      PROVE  Edited
  BY <1>2 DEF Edit, Edited
<1>3. CASE SetImage
  <2>1. PICK i \in MaybeImage : Edit("image", [host EXCEPT !.image = i])
    BY <1>3 DEF SetImage
  <2> DEFINE h == [host EXCEPT !.image = i]
  <2>2. SameStatus(h) /\ h.exists = host.exists
    BY <1>1 DEF Hosts
  <2> HIDE DEF h
  <2>3. Edit("image", h)
    BY <2>1 DEF h
  <2>4. QED
    BY <1>2, <2>2, <2>3
<1>4. CASE SetExternallyProvisioned
  <2>1. PICK b \in BOOLEAN : Edit("ext", [host EXCEPT !.ext = b])
    BY <1>4 DEF SetExternallyProvisioned
  <2> DEFINE h == [host EXCEPT !.ext = b]
  <2>2. SameStatus(h) /\ h.exists = host.exists
    BY <1>1 DEF Hosts
  <2> HIDE DEF h
  <2>3. Edit("ext", h)
    BY <2>1 DEF h
  <2>4. QED
    BY <1>2, <2>2, <2>3
<1>5. CASE SetField
  <2>1. PICK b \in BOOLEAN, raid \in RAIDs :
           \/ Edit("online", [host EXCEPT !.online = b])
           \/ Edit("inspect", [host EXCEPT !.inspect = b])
           \/ Edit("raid", [host EXCEPT !.raid = raid])
    <3>1. /\ [host EXCEPT !.online = ~@] = [host EXCEPT !.online = ~host.online]
          /\ [host EXCEPT !.inspect = ~@] = [host EXCEPT !.inspect = ~host.inspect]
          /\ (~host.online) \in BOOLEAN /\ (~host.inspect) \in BOOLEAN /\ host.raid \in RAIDs
      BY <1>1 DEF Hosts
    <3>2. QED
      BY <1>5, <3>1 DEF SetField
  <2> DEFINE Same(h) == SameStatus(h) /\ h.exists = host.exists
  <2>2. /\ Same([host EXCEPT !.online = b]) /\ Same([host EXCEPT !.inspect = b])
        /\ Same([host EXCEPT !.raid = raid])
    BY <1>1 DEF Hosts
  <2>3. QED
    BY <1>2, <2>1, <2>2
<1>6. CASE RequestInspection
  <2> DEFINE h == [host EXCEPT !.refresh = TRUE]
  <2>1. SameStatus(h) /\ h.exists = host.exists
    BY <1>1 DEF Hosts
  <2> HIDE DEF h
  <2>2. Edit("refresh", h)
    BY <1>6 DEF RequestInspection, h
  <2>3. QED
    BY <1>2, <2>1, <2>2
<1>7. CASE SetDetached
  <2>1. PICK d \in Detachments : Edit("detach", [host EXCEPT !.detach = d])
    BY <1>7 DEF SetDetached
  <2> DEFINE h == [host EXCEPT !.detach = d]
  <2>2. SameStatus(h) /\ h.exists = host.exists
    BY <1>1 DEF Hosts
  <2> HIDE DEF h
  <2>3. Edit("detach", h)
    BY <2>1 DEF h
  <2>4. QED
    BY <1>2, <2>2, <2>3
<1>8. CASE AddBMCDetails
  <2> DEFINE h == [host EXCEPT !.bmc = TRUE]
  <2>1. SameStatus(h) /\ h.exists = host.exists
    BY <1>1 DEF Hosts
  <2> HIDE DEF h
  <2>2. Edit("bmc", h)
    BY <1>8 DEF AddBMCDetails, h
  <2>3. QED
    BY <1>2, <2>1, <2>2
<1>9. CASE DeleteHost
  <2> DEFINE h == [host EXCEPT !.deleting = TRUE, !.exists = host.fin]
  <2>1. SameStatus(h) /\ h.exists = host.fin
    BY <1>1 DEF Hosts
  <2> HIDE DEF h
  <2>2. Edit("delete", h)
    BY <1>9 DEF DeleteHost, h
  <2>3. QED
    BY <2>1, <2>2 DEF Edit, Edited
<1>10. CASE ChangeSecret
  BY <1>10 DEF ChangeSecret, Edited
<1>11. QED
  BY <1>3, <1>4, <1>5, <1>6, <1>7, <1>8, <1>9, <1>10 DEF User

\* An edit keeps the invariant.
LEMMA EditedKeepsDisk ==
    ASSUME IInv, DiskInv, Edited
    PROVE  DiskInv'
<1>1. host.exists \in BOOLEAN /\ host.fin \in BOOLEAN
  BY DEF IInv, TypeOK, Hosts
<1>2. host'.exists /\ ~host'.fin => host'.state = "none"
  BY <1>1 DEF Edited, DiskInv
<1>3. QED
  BY <1>2 DEF Edited, DiskInv, Known, Harmless

\* What Ironic does by itself to a node, and with it to the disk.
LEMMA IronicWorks ==
    ASSUME NEW n \in Nodes, n.ps \in Transient, NEW m \in Machines
    PROVE  /\ Progress(n).uuid = n.uuid /\ Failure(n).uuid = n.uuid
           /\ n.ps = "verifying" => Progress(n).ps = "manageable" /\ Failure(n).ps = "enroll"
           /\ n.ps \in {"inspecting", "inspect wait"} =>
                 /\ Progress(n).ps \in {"inspect wait", "manageable"}
                 /\ Failure(n).ps = "inspect failed"
           /\ n.ps \in {"cleaning", "clean wait"} =>
                 /\ \/ n.ps = "cleaning" /\ Progress(n).ps = "clean wait"
                    \/ n.ps = "clean wait" /\ Progress(n).ps \in {"manageable", "available"}
                 /\ Failure(n).ps = "clean failed"
           /\ n.ps = "adopting" => Progress(n).ps = "active" /\ Failure(n).ps = "adopt failed"
           /\ n.ps \in {"deploying", "deploy wait", "deleting"} =>
                 /\ Progress(n).ps \in {"deploy wait", "active", "cleaning"}
                 /\ Failure(n).ps \in {"deploy failed", "error"}
           /\ n.ps = "clean wait" => ProgressMachine(n, m).disk = Blank
           /\ n.ps = "deploy wait" => ProgressMachine(n, m).disk = n.img
           /\ n.ps \notin {"clean wait", "deploy wait"} => ProgressMachine(n, m).disk = m.disk
<1>1. /\ Failure(n).uuid = n.uuid /\ Failure(n).ps = FailedState(n.ps)
  <2> DEFINE ps == FailedState(n.ps)
             maint == n.maint \/ n.ps \in {"cleaning", "clean wait"}
  <2>1. Failure(n) = [n EXCEPT !.ps = ps, !.lastErr = TRUE, !.maint = maint]
    BY DEF Failure
  <2> HIDE DEF ps, maint
  <2>2. Failure(n).uuid = n.uuid /\ Failure(n).ps = ps
    BY <2>1 DEF Nodes
  <2>3. QED
    BY <2>2 DEF ps
<1>2. /\ n.ps = "clean wait" => ProgressMachine(n, m).disk = Blank
      /\ n.ps = "deploy wait" => ProgressMachine(n, m).disk = n.img
      /\ n.ps \notin {"clean wait", "deploy wait"} => ProgressMachine(n, m).disk = m.disk
  BY DEF ProgressMachine, Machines
<1>3. CASE n.ps \in {"verifying", "adopting"}
  BY <1>1, <1>2, <1>3 DEF Progress, FailedState, Nodes
<1>4. CASE n.ps \in {"inspecting", "inspect wait"}
  BY <1>1, <1>2, <1>4 DEF Progress, FailedState, Nodes
<1>5. CASE n.ps = "clean wait"
  <2>1. Progress(n) \in {[n EXCEPT !.ps = ps, !.manual = FALSE, !.raid = "none"] :
                            ps \in {"manageable", "available"}}
    BY <1>5 DEF Progress
  <2>2. Progress(n).uuid = n.uuid /\ Progress(n).ps \in {"manageable", "available"}
    BY <2>1 DEF Nodes
  <2>3. QED
    BY <1>1, <1>2, <1>5, <2>2 DEF FailedState
<1>6. CASE n.ps = "cleaning"
  BY <1>1, <1>2, <1>6 DEF Progress, FailedState, Nodes
<1>7. CASE n.ps \in {"deploying", "deploy wait", "deleting"}
  BY <1>1, <1>2, <1>7 DEF Progress, FailedState, Nodes
<1>8. QED
  BY <1>3, <1>4, <1>5, <1>6, <1>7 DEF Transient, Busy

\* A step of Ironic on the node, with what it does to the disk.
Worked ==
    /\ UNCHANGED <<host, cache>>
    /\ \/ /\ node'.ps = node.ps /\ node'.uuid = node.uuid
          /\ node'.manual = node.manual /\ node'.raid = node.raid
          /\ machine'.disk = machine.disk /\ machine'.raid = machine.raid
       \/ node'.ps = "absent" /\ machine'.disk = machine.disk /\ machine'.raid = machine.raid
       \/ /\ node.ps \in Transient
          /\ \/ node' = Progress(node) /\ machine' = ProgressMachine(node, machine)
             \/ node' = Failure(node) /\ machine' = machine

\* Every step of the environment is one, or a delivery to the cache.
LEMMA EnvironmentWorks ==
    ASSUME IInv, Environment
    PROVE  Worked \/ SyncCache
<1>1. node \in Nodes /\ machine \in Machines
  BY DEF IInv, TypeOK
<1>2. CASE IronicProgress
  BY <1>2 DEF IronicProgress, Worked
<1>3. CASE IronicPower
  <2>1. /\ [node EXCEPT !.power = "none"].ps = node.ps
        /\ [node EXCEPT !.power = "none"].uuid = node.uuid
        /\ [node EXCEPT !.power = "none"].manual = node.manual
        /\ [node EXCEPT !.power = "none"].raid = node.raid
        /\ [machine EXCEPT !.power = node.power].disk = machine.disk
        /\ [machine EXCEPT !.power = node.power].raid = machine.raid
    BY <1>1 DEF Nodes, Machines
  <2>2. QED
    BY <1>3, <2>1 DEF IronicPower, Worked
<1>4. CASE IronicFailure
  <2>1. /\ [node EXCEPT !.power = "none", !.lastErr = TRUE].ps = node.ps
        /\ [node EXCEPT !.power = "none", !.lastErr = TRUE].uuid = node.uuid
        /\ [node EXCEPT !.power = "none", !.lastErr = TRUE].manual = node.manual
        /\ [node EXCEPT !.power = "none", !.lastErr = TRUE].raid = node.raid
    BY <1>1 DEF Nodes
  <2>2. QED
    BY <1>4, <2>1 DEF IronicFailure, Worked
<1>5. CASE LoseDatabase
  BY <1>1, <1>5, GoneKeeps DEF LoseDatabase, Worked
<1>6. CASE TakeSlot \/ FreeSlot
  BY <1>6 DEF TakeSlot, FreeSlot, Worked
<1>7. QED
  BY <1>2, <1>3, <1>4, <1>5, <1>6 DEF Environment

\* A step of Ironic keeps the invariant.
LEMMA WorkedKeepsDisk ==
    ASSUME IInv, DiskInv, Worked
    PROVE  DiskInv'
<1>1. node \in Nodes /\ machine \in Machines /\ host' = host /\ cache' = cache
  BY DEF IInv, TypeOK, Worked
<1>2. /\ Stage(host.state, node.ps) /\ Known /\ Harmless /\ Behind(host.state, cache.state)
      /\ node.ps = "available" => machine.disk = Blank
      /\ host.state \in IdleStates => machine.disk \notin Images
      /\ host.exists /\ ~host.fin => host.state = "none"
  BY DEF DiskInv
<1>3. CASE node'.ps = node.ps /\ node'.uuid = node.uuid /\ machine'.disk = machine.disk
  BY <1>1, <1>2, <1>3 DEF DiskInv, Known, Harmless, GetNode
<1>4. CASE node'.ps = "absent" /\ machine'.disk = machine.disk
  <2>1. Stage(host.state, "absent") /\ "absent" \in Early
    BY DEF Stage, Early
  <2>2. QED
    BY <1>1, <1>2, <1>4, <2>1 DEF DiskInv, Known, Harmless, GetNode
<1>5. CASE /\ node.ps \in Transient
           /\ \/ node' = Progress(node) /\ machine' = ProgressMachine(node, machine)
              \/ node' = Failure(node) /\ machine' = machine
  <2>1. node'.uuid = node.uuid
    BY <1>1, <1>5, IronicWorks
  <2>2. node'.ps = "available" => machine'.disk = Blank
    BY <1>1, <1>5, IronicWorks DEF Transient, Busy
  <2>3. Stage(host.state, node'.ps)
    BY <1>1, <1>2, <1>5, IronicWorks
       DEF Stage, Early, Inspections, Cleanings, Adoptions, Transient, Busy, RunningStates
  <2>4. host.state \in IdleStates => machine'.disk \notin Images
    <3>1. host.state \in IdleStates => node.ps # "deploy wait"
      BY <1>2 DEF IdleStates, Stage, Early, Inspections, Cleanings
    <3>2. machine'.disk \in {Blank, machine.disk} \/ node.ps = "deploy wait"
      BY <1>1, <1>5, IronicWorks
    <3>3. QED
      BY <1>2, <3>1, <3>2, DiskAssumption
  <2>5. Known'
    <3>1. node.ps # "absent"
      BY <1>5 DEF Transient, Busy
    <3>2. node'.ps \notin Early => node.ps \notin Early /\ node'.ps # "absent"
      BY <1>1, <1>5, IronicWorks DEF Early, Transient, Busy
    <3>3. QED
      BY <1>1, <1>2, <2>1, <3>1, <3>2 DEF Known, GetNode
  <2>6. Harmless'
    BY <1>1, <1>2, <1>5, <2>1 DEF Harmless, GetNode, Transient, Busy
  <2>7. QED
    BY <1>1, <1>2, <2>2, <2>3, <2>4, <2>5, <2>6 DEF DiskInv
<1>6. QED
  BY <1>3, <1>4, <1>5 DEF Worked

\* A delivery to the cache keeps the invariant.
LEMMA SyncKeepsDisk ==
    ASSUME IInv, DiskInv, SyncCache
    PROVE  DiskInv'
<1>1. cache' = host /\ UNCHANGED <<host, node, machine>>
  BY DEF SyncCache
<1>2. /\ host.id \in Nat /\ node.uuid \in Nat /\ cache.id \in Nat
      /\ cache.id <= host.id /\ host.id <= node.uuid
  BY DEF IInv, TypeOK, Hosts, Nodes, DiskInv, Known, Safe
<1>3. GetNode(node, cache.id) => GetNode(node, host.id)
  BY <1>2 DEF GetNode
<1>4. Known'
  BY <1>1, <1>2, <1>3 DEF DiskInv, Known
<1>5. Behind(host.state, host.state)
  BY DEF Behind
<1>6. Harmless'
  BY <1>1 DEF Harmless
<1>7. QED
  BY <1>1, <1>4, <1>5, <1>6 DEF DiskInv

\* The invariant holds initially.
LEMMA InitHasDisk == Init => DiskInv
<1> SUFFICES ASSUME Init PROVE DiskInv
  OBVIOUS
<1>0. PICK bmc \in BOOLEAN, image \in MaybeImage, ext \in BOOLEAN, inspect \in BOOLEAN :
         /\ host = NewHost(bmc, image, ext, inspect)
         /\ machine = [disk |-> IF ext THEN Foreign ELSE Blank,
                       power |-> IF ext THEN "on" ELSE "off",
                       raid |-> "none"]
  BY DEF Init
<1>1. host.id = 0 /\ host.state = "none" /\ cache = host
  BY <1>0 DEF Init, NewHost
<1>2. machine.disk \in {Foreign, Blank}
  BY <1>0
<1>3. node.ps = "absent"
  BY DEF Init, FreshNode
<1>4. Known
  BY <1>1, <1>3 DEF Known, Early
<1>5. Stage("none", "absent") /\ Behind("none", "none")
  BY DEF Stage, Early, Behind, RunningStates
<1>6. QED
  BY <1>1, <1>2, <1>3, <1>4, <1>5, DiskAssumption DEF DiskInv, Harmless

\* Every step keeps the invariant.
LEMMA NextKeepsDisk == IInv /\ DiskInv /\ [Next]_vars => DiskInv'
<1> SUFFICES ASSUME IInv, DiskInv, [Next]_vars PROVE DiskInv'
  OBVIOUS
<1>1. CASE Reconcile
  BY <1>1, ReconcileIsReconciled, ReconciledKeepsDisk
<1>2. CASE User
  BY <1>2, UserEdits, EditedKeepsDisk
<1>3. CASE Environment
  BY <1>3, EnvironmentWorks, WorkedKeepsDisk, SyncKeepsDisk
<1>4. CASE UNCHANGED vars
  BY <1>4 DEF vars, DiskInv, Known, Harmless
<1>5. QED
  BY <1>1, <1>2, <1>3, <1>4 DEF Next

\* The node, the disk and the states of the host and of its cached copy always fit.
THEOREM DiskInvariant == Spec => [](IInv /\ DiskInv)
<1>1. QED
  BY InitIsSafe, NextIsSafe, InitHasDisk, NextKeepsDisk, PTL DEF Spec

-----------------------------------------------------------------------------
(***************************************************************************)
(* What follows.                                                           *)
(***************************************************************************)
\* A host that is offered for provisioning holds none of our images and nothing is
\* being written to it, for any images, edits, faults and bounds.
THEOREM AvailableHostIsCleanAlways == Spec => []AvailableHostIsClean
<1>1. DiskInv => AvailableHostIsClean
  BY DEF DiskInv, AvailableHostIsClean, IdleStates, Stage, Early
<1>2. QED
  BY <1>1, DiskInvariant, PTL

\* No step writes to the disk of a host that stays Provisioned or
\* ExternallyProvisioned.
THEOREM WorkloadUntouchedAlways == Spec => WorkloadUntouched
<1> DEFINE Step == /\ host.state \in {"provisioned", "externally provisioned"}
                   /\ host'.state = host.state
                   => machine'.disk = machine.disk
<1>1. ASSUME IInv, DiskInv, [Next]_vars PROVE [Step]_vars
  <2>1. node \in Nodes /\ machine \in Machines
    BY <1>1 DEF IInv, TypeOK
  <2>2. CASE Reconcile
    BY <1>1, <2>2, ReconcileIsReconciled DEF Reconciled
  <2>3. CASE User
    BY <1>1, <2>3, UserEdits DEF Edited
  <2>4. CASE Environment
    <3>1. CASE Worked
      <4>1. host.state \in {"provisioned", "externally provisioned"}
              => node.ps \notin {"clean wait", "deploy wait"}
        BY <1>1 DEF DiskInv, Stage, RunningStates, Early, Adoptions
      <4>2. QED
        BY <2>1, <3>1, <4>1, IronicWorks DEF Worked
    <3>2. CASE SyncCache
      BY <3>2 DEF SyncCache
    <3>3. QED
      BY <1>1, <2>4, <3>1, <3>2, EnvironmentWorks
  <2>5. QED
    BY <1>1, <2>2, <2>3, <2>4 DEF Next
<1>2. QED
  BY <1>1, DiskInvariant, PTL DEF Spec, WorkloadUntouched

\* A host leaves Deprovisioning with an erased disk, unless the controller gave up on
\* it.
THEOREM DeprovisioningErasesAlways == Spec => DeprovisioningErases
<1> DEFINE Step == host.state = "deprovisioning" /\ host'.state # "deprovisioning" /\ ~GaveUpOnHost
                   => machine.disk = Blank
<1>1. ASSUME IInv, DiskInv, [Next]_vars PROVE [Step]_vars
  <2>1. CASE Reconcile
    <3>1. Reconciled
      BY <1>1, <2>1, ReconcileIsReconciled
    <3>2. CASE host' = host
      BY <3>2
    <3>3. CASE cache = host /\ Written(node', host')
      BY <1>1, <3>3 DEF Written, GivesUp, GaveUpOnHost, DiskInv
    <3>4. QED
      BY <3>1, <3>2, <3>3 DEF Reconciled
  <2>2. CASE User
    BY <1>1, <2>2, UserEdits DEF Edited
  <2>3. CASE Environment
    BY <1>1, <2>3, EnvironmentWorks DEF Worked, SyncCache
  <2>4. QED
    BY <1>1, <2>1, <2>2, <2>3 DEF Next, vars
<1>2. QED
  BY <1>1, DiskInvariant, PTL DEF Spec, DeprovisioningErases

-----------------------------------------------------------------------------
(***************************************************************************)
(* The refinement: each step maps to a step of the life cycle or changes   *)
(* neither phase nor disk.                                                 *)
(***************************************************************************)
\* Phase, of any host.
PhaseOf(exists, state) ==
    CASE ~exists -> "gone"
      [] exists /\ state = "provisioning" -> "deploying"
      [] exists /\ state \in {"provisioned", "externally provisioned"} -> "running"
      [] exists /\ state = "deprovisioning" -> "tearing down"
      [] exists /\ state \in {"powering off before delete", "deleting"} -> "leaving"
      [] OTHER -> "idle"

\* The mapped phase before and after a step.
LEMMA PhaseIsPhaseOf ==
    /\ Phase = PhaseOf(host.exists, host.state)
    /\ Phase' = PhaseOf(host'.exists, host'.state)
BY DEF Phase, PhaseOf

\* A phase for every kind of state.
LEMMA PhaseOfStates ==
    ASSUME NEW state \in States
    PROVE  /\ PhaseOf(FALSE, state) = "gone"
           /\ state \in IdleStates => PhaseOf(TRUE, state) = "idle"
           /\ state = "provisioning" => PhaseOf(TRUE, state) = "deploying"
           /\ state \in RunningStates => PhaseOf(TRUE, state) = "running"
           /\ state = "deprovisioning" => PhaseOf(TRUE, state) = "tearing down"
           /\ state \in LeavingStates => PhaseOf(TRUE, state) = "leaving"
BY DEF PhaseOf, IdleStates, RunningStates, LeavingStates, States

\* There are no other states.
LEMMA KindsOfStates ==
    ASSUME NEW state \in States
    PROVE  \/ state \in IdleStates
           \/ state \in RunningStates
           \/ state \in LeavingStates
           \/ state \in {"provisioning", "deprovisioning"}
BY DEF IdleStates, RunningStates, LeavingStates, States

\* Only a host that the cache still shows is reconciled.
LEMMA ReconcileNeedsCopy == Reconcile => cache.exists
<1>1. Reconciling => cache.exists
  BY DEF Reconciling
<1>2. CredentialsResolved => Reconciling
  BY DEF CredentialsResolved
<1>3. Undelayed => CredentialsResolved
  BY DEF Undelayed
<1>4. Undeleted => Undelayed
  BY DEF Undeleted
<1>5. Attached => Undeleted
  BY DEF Attached
<1>6. AddFinalizer => cache.exists
  BY DEF AddFinalizer
<1>7. CredentialsError \/ CheckDelayedHost \/ InitiateDelete \/ DetachHost \/ ReattachHost
         \/ RegisterHost => Reconciling
  BY <1>2, <1>3, <1>4, <1>5
     DEF CredentialsError, CheckDelayedHost, InitiateDelete, DetachHost, ReattachHost, RegisterHost
<1>8. \A state : In(state) => Attached
  BY DEF In, Registered
<1>9. HandleNone \/ HandleUnmanaged \/ HandleRegistering \/ HandleInspecting \/ HandlePreparing
         => Attached
  BY <1>8 DEF HandleNone, HandleUnmanaged, HandleRegistering, HandleInspecting, HandlePreparing
<1>10. HandleExternallyProvisioned \/ HandleAvailable \/ HandleProvisioning \/ HandleProvisioned
         => Attached
  BY <1>8 DEF HandleExternallyProvisioned, HandleAvailable, HandleProvisioning, HandleProvisioned
<1>11. HandleDeprovisioning \/ HandlePoweringOffBeforeDelete \/ HandleDeleting => Attached
  BY <1>8 DEF HandleDeprovisioning, HandlePoweringOffBeforeDelete, HandleDeleting
<1>12. QED
  BY <1>1, <1>2, <1>3, <1>4, <1>5, <1>6, <1>7, <1>9, <1>10, <1>11 DEF Reconcile

\* What a reconcile of an existing host does to its phase.
LEMMA ReconcileMovesPhase ==
    ASSUME IInv, IInv', DiskInv, Reconciled, cache.exists
    PROVE  Lifecycle!Next \/ UNCHANGED Lifecycle!vars
<1>1. UNCHANGED machine.disk
  BY DEF Reconciled
<1>2. CASE host' = host
  BY <1>1, <1>2, PhaseIsPhaseOf DEF Lifecycle!vars
<1>3. CASE cache = host /\ Written(node', host')
  <2>1. /\ host.exists = TRUE /\ host'.exists \in BOOLEAN
        /\ host.state \in States /\ host'.state \in States
    BY <1>3 DEF IInv, TypeOK, Hosts
  <2>2. CASE ~host'.exists
    <3>1. host.state \in LeavingStates
      BY <1>3, <2>2 DEF Written, LeavingStates
    <3>2. Phase = "leaving" /\ Phase' = "gone"
      BY <2>1, <2>2, <3>1, PhaseIsPhaseOf, PhaseOfStates
    <3>3. QED
      BY <1>1, <3>2 DEF Lifecycle!Next, Lifecycle!Vanish, Lifecycle!Go
  <2>3. CASE host'.exists
    <3>1. Phase = PhaseOf(TRUE, host.state) /\ Phase' = PhaseOf(TRUE, host'.state)
      BY <2>1, <2>3, PhaseIsPhaseOf
    <3>2. CASE host'.state = host.state
      BY <1>1, <3>1, <3>2 DEF Lifecycle!vars
    <3>3. CASE host'.state \in LeavingStates
      <4>1. Phase' = "leaving"
        BY <2>1, <3>1, <3>3, PhaseOfStates
      <4>2. Phase \in {"idle", "deploying", "running", "tearing down", "leaving"}
        BY <2>1, <3>1, PhaseOfStates, KindsOfStates
      <4>3. QED
        BY <1>1, <4>1, <4>2 DEF Lifecycle!Next, Lifecycle!Leave, Lifecycle!Go, Lifecycle!vars
    <3>4. CASE host'.state \in NextStates(host, node)
      <4>1. CASE host.state \in IdleStates
        <5>1. Phase = "idle" /\ machine.disk \notin Images
          BY <2>1, <3>1, <4>1, PhaseOfStates DEF DiskInv
        <5>2. host'.state \in IdleStates \union RunningStates \union {"provisioning"}
          BY <3>4, <4>1 DEF NextStates, IdleStates, RunningStates
        <5>3. Phase' \in {"idle", "running", "deploying"}
          BY <2>1, <3>1, <5>2, PhaseOfStates
        <5>4. QED
          BY <1>1, <5>1, <5>3
             DEF Lifecycle!Next, Lifecycle!StartDeploy, Lifecycle!Run, Lifecycle!Go, Lifecycle!vars
      <4>2. CASE host.state = "provisioning"
        <5>1. host'.state \in RunningStates \union {"deprovisioning"}
          BY <3>4, <4>2 DEF NextStates, RunningStates
        <5>2. Phase = "deploying" /\ Phase' \in {"running", "tearing down"}
          BY <2>1, <3>1, <4>2, <5>1, PhaseOfStates
        <5>3. QED
          BY <1>1, <5>2 DEF Lifecycle!Next, Lifecycle!Run, Lifecycle!StartTeardown, Lifecycle!Go
      <4>3. CASE host.state \in RunningStates
        <5>1. host'.state \in RunningStates \union {"deprovisioning"}
          BY <3>4, <4>3 DEF NextStates, RunningStates
        <5>2. Phase = "running" /\ Phase' \in {"running", "tearing down"}
          BY <2>1, <3>1, <4>3, <5>1, PhaseOfStates
        <5>3. QED
          BY <1>1, <5>2 DEF Lifecycle!Next, Lifecycle!StartTeardown, Lifecycle!Go, Lifecycle!vars
      <4>4. CASE host.state = "deprovisioning"
        <5>1. host'.state \in IdleStates /\ node.ps = "available"
          BY <3>4, <4>4 DEF NextStates, IdleStates
        <5>2. Phase = "tearing down" /\ Phase' = "idle" /\ machine.disk = Blank
          BY <2>1, <3>1, <4>4, <5>1, PhaseOfStates DEF DiskInv
        <5>3. QED
          BY <1>1, <5>2 DEF Lifecycle!Next, Lifecycle!FinishTeardown, Lifecycle!Go
      <4>5. CASE host.state \in LeavingStates
        BY <3>4, <4>5 DEF NextStates, LeavingStates
      <4>6. QED
        BY <2>1, <4>1, <4>2, <4>3, <4>4, <4>5, KindsOfStates
    <3>5. QED
      BY <1>3, <2>3, <3>2, <3>3, <3>4 DEF Written
  <2>4. QED
    BY <2>2, <2>3
<1>4. QED
  BY <1>2, <1>3 DEF Reconciled

\* An edit changes the phase only when it deletes a host nobody has worked on.
LEMMA EditMovesPhase ==
    ASSUME IInv, IInv', DiskInv, Edited
    PROVE  Lifecycle!Next \/ UNCHANGED Lifecycle!vars
<1>1. /\ UNCHANGED machine.disk
      /\ host.state \in States /\ host'.state = host.state
      /\ host.exists \in BOOLEAN /\ host'.exists \in BOOLEAN /\ host.fin \in BOOLEAN
  BY DEF Edited, IInv, TypeOK, Hosts
<1>2. CASE host'.exists = host.exists
  BY <1>1, <1>2, PhaseIsPhaseOf DEF Lifecycle!vars
<1>3. CASE host.exists /\ ~host'.exists
  <2>1. host.state \in IdleStates
    BY <1>1, <1>3 DEF Edited, DiskInv, IdleStates
  <2>2. Phase = "idle" /\ Phase' = "gone"
    BY <1>1, <1>3, <2>1, PhaseIsPhaseOf, PhaseOfStates
  <2>3. QED
    BY <1>1, <2>2 DEF Lifecycle!Next, Lifecycle!Vanish, Lifecycle!Go
<1>4. QED
  BY <1>1, <1>2, <1>3 DEF Edited

\* Ironic writes to the disk only in the phases in which it may.
LEMMA WorkKeepsPhase ==
    ASSUME IInv, DiskInv, Worked
    PROVE  Lifecycle!Next \/ UNCHANGED Lifecycle!vars
<1>1. /\ node \in Nodes /\ machine \in Machines /\ host' = host
      /\ host.state \in States /\ host.exists \in BOOLEAN
      /\ Loaded(node)
  BY DEF Worked, IInv, TypeOK, Hosts, Safe
<1>2. Phase' = Phase
  BY <1>1, PhaseIsPhaseOf
<1>3. CASE machine'.disk = machine.disk
  BY <1>2, <1>3 DEF Lifecycle!vars
<1>4. CASE /\ node.ps = "clean wait" /\ node.ps \in Transient
           /\ machine' = ProgressMachine(node, machine)
  <2>1. machine'.disk = Blank
    BY <1>1, <1>4, IronicWorks
  <2>2. host.state \notin RunningStates
    BY <1>4 DEF DiskInv, Stage, Early, Adoptions
  <2>3. Phase # "running"
    BY <1>1, <2>2, PhaseIsPhaseOf, PhaseOfStates, KindsOfStates
  <2>4. QED
    BY <1>2, <2>1, <2>3 DEF Lifecycle!Next, Lifecycle!Erase
<1>5. CASE /\ node.ps = "deploy wait" /\ node.ps \in Transient
           /\ machine' = ProgressMachine(node, machine)
  <2>1. machine'.disk \in Images
    BY <1>1, <1>5, IronicWorks DEF Loaded, Deploying
  <2>2. host.state \notin RunningStates \union IdleStates
    BY <1>5 DEF DiskInv, Stage, Early, Adoptions, Inspections, Cleanings, IdleStates
  <2>3. Phase \in {"deploying", "tearing down", "leaving", "gone"}
    BY <1>1, <2>2, PhaseIsPhaseOf, PhaseOfStates, KindsOfStates
  <2>4. QED
    BY <1>2, <2>1, <2>3 DEF Lifecycle!Next, Lifecycle!Write
<1>6. QED
  BY <1>1, <1>3, <1>4, <1>5, IronicWorks DEF Worked

\* Every step of the controller, of Ironic and of the users is a step of the life cycle.
LEMMA NextIsLifecycle ==
    IInv /\ IInv' /\ DiskInv /\ [Next]_vars => [Lifecycle!Next]_(Lifecycle!vars)
<1> SUFFICES ASSUME IInv, IInv', DiskInv, [Next]_vars
             PROVE  Lifecycle!Next \/ UNCHANGED Lifecycle!vars
  OBVIOUS
<1>1. CASE Reconcile
  BY <1>1, ReconcileIsReconciled, ReconcileNeedsCopy, ReconcileMovesPhase
<1>2. CASE User
  BY <1>2, UserEdits, EditMovesPhase
<1>3. CASE Environment
  <2>1. CASE SyncCache
    BY <2>1, PhaseIsPhaseOf DEF SyncCache, Lifecycle!vars
  <2>2. QED
    BY <1>3, <2>1, EnvironmentWorks, WorkKeepsPhase
<1>4. CASE UNCHANGED vars
  BY <1>4, PhaseIsPhaseOf DEF vars, Lifecycle!vars
<1>5. QED
  BY <1>1, <1>2, <1>3, <1>4 DEF Next

\* A new host is idle, and no disk holds one of our images.
LEMMA InitIsLifecycle == Init => Lifecycle!Init
<1> SUFFICES ASSUME Init PROVE Lifecycle!Init
  OBVIOUS
<1>1. PICK bmc \in BOOLEAN, image \in MaybeImage, ext \in BOOLEAN, inspect \in BOOLEAN :
         host = NewHost(bmc, image, ext, inspect)
  BY DEF Init
<1>2. host.exists = TRUE /\ host.state = "none"
  BY <1>1 DEF NewHost
<1>3. Phase = "idle"
  BY <1>2 DEF Phase
<1>4. machine.disk \notin Images
  BY <1>2, InitHasDisk DEF DiskInv, IdleStates
<1>5. QED
  BY <1>3, <1>4 DEF Lifecycle!Init

\* The controller, with stale reads, lost saves, failing calls and a forgetful Ironic,
\* implements the life cycle that the API promises, for any images and bounds.
THEOREM HostImplementsLifecycle == Spec => ImplementsLifecycle
<1>1. QED
  BY DiskInvariant, InitIsLifecycle, NextIsLifecycle, PTL
     DEF Spec, ImplementsLifecycle, Lifecycle!Spec

==============================================================================
