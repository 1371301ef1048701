-------------------------- MODULE HostSettingsProofs --------------------------
(***************************************************************************)
(* Proofs about the RAID configuration of a host, for any images, edits,   *)
(* faults and bounds: the volumes that the status reports were created on  *)
(* the machine, as long as a host that is being prepared is not disturbed  *)
(* (Undisturbed).                                                          *)
(***************************************************************************)
EXTENDS HostDiskProofs

Running == {"cleaning", "clean wait"}

\* The volumes on record, and those that the next cleaning leaves.
Vol(h) == Volumes(h.praid)
Goal(h) == Volumes(TargetRAID(h))

\* Without a RAID configuration in the spec the hardware volumes are kept.
LEMMA GoalOfHost ==
    ASSUME NEW h \in Hosts
    PROVE  /\ Vol(h) \in RAIDs
           /\ h.raid # "none" => Goal(h) = h.raid
           /\ h.raid = "none" => Goal(h) = IF Vol(h) = "hardware" THEN "hardware" ELSE "none"
<1>1. h.raid \in RAIDs /\ h.praid \in RecordedRAIDs
  BY DEF Hosts
<1>2. QED
  BY <1>1 DEF Vol, Goal, TargetRAID, Volumes, RAIDs, RecordedRAIDs

\* A host that needs no cleaning has its goal on record, or forgets its software volumes.
LEMMA GoalNeedsNothing ==
    ASSUME NEW h \in Hosts, ~HasRAIDSteps(TargetRAID(h), ActualRAID(h))
    PROVE  \/ Goal(h) = Vol(h)
           \/ Vol(h) = "software" /\ Goal(h) = "none"
<1>1. h.raid \in RAIDs /\ h.praid \in RecordedRAIDs
  BY DEF Hosts
<1>2. ActualRAID(h) \in {"none", h.praid}
  BY DEF ActualRAID
<1>3. QED
  BY <1>1, <1>2 DEF Vol, Goal, TargetRAID, Volumes, RAIDs, RecordedRAIDs, HasRAIDSteps

\* Without a preparation error it has its goal on record.
LEMMA PreparedHasGoal ==
    ASSUME NEW h \in Hosts, h.errType # "preparation error", ~Unprepared(h)
    PROVE  Goal(h) = Vol(h)
<1>1. h.raid \in RAIDs /\ h.praid \in RecordedRAIDs
  BY DEF Hosts
<1>2. ActualRAID(h) = h.praid
  BY DEF ActualRAID
<1>3. TargetRAID(h) = h.praid \/ ~HasRAIDSteps(TargetRAID(h), h.praid)
  BY <1>2 DEF Unprepared, SettingsDirty
<1>4. QED
  BY <1>1, <1>3 DEF Vol, Goal, TargetRAID, Volumes, RAIDs, RecordedRAIDs, HasRAIDSteps

\* Ironic is applying settings: manual cleaning is under way.
Applying(n) == n.ps \in Running /\ n.manual

-----------------------------------------------------------------------------
(***************************************************************************)
(* The provisioner: only Prepare has settings applied, and no method lets  *)
(* a cleaning that applies settings become another one.                    *)
(***************************************************************************)
\* A method that leaves node n as m starts no manual cleaning, and does not turn a
\* running cleaning into another one.
Spares(n, m) ==
    \/ /\ m.manual = n.manual /\ m.raid = n.raid
       /\ m.ps \in Running => m.ps = n.ps
    \/ m.ps = "cleaning" /\ ~m.manual /\ n.ps \notin Running
    \/ m.ps \in {"absent", "enroll", "verifying"}

\* Doing nothing spares the node.
LEMMA IdleSpares ==
    ASSUME NEW n
    PROVE  Spares(n, n)
BY DEF Spares

\* The outcome o of a method leaves node n as it was.
Still(n, o) == \E r \in Results, f \in {0, 1} : o = [n |-> n, r |-> r, f |-> f]

\* So such an outcome spares it.
LEMMA StillSpares ==
    ASSUME NEW n, NEW o, Still(n, o)
    PROVE  o.n = n /\ Spares(n, o.n)
BY IdleSpares DEF Still

\* An API call that makes the node `new'.
LEMMA ModifySpares ==
    ASSUME NEW n, NEW new, Spares(n, new), NEW ok, NEW o \in Modify(n, new, ok)
    PROVE  Spares(n, o.n)
<1>1. o.n \in {n, new}
  BY DEF Modify, Refused, Out
<1>2. QED
  BY <1>1, IdleSpares

\* tryChangeNodeProvisionState.
LEMMA TryChangeSpares ==
    ASSUME NEW n \in Nodes, NEW moved \in Nodes, Spares(n, moved), NEW ok,
           NEW o \in TryChange(n, moved, ok)
    PROVE  Spares(n, o.n)
<1>1. Spares(n, [n EXCEPT !.maint = FALSE])
  BY DEF Nodes, Spares
<1>2. Spares(n, [moved EXCEPT !.lastErr = FALSE])
  BY DEF Nodes, Spares
<1>3. QED
  BY <1>1, <1>2, ModifySpares DEF TryChange

\* The changes the methods ask for, except for manual cleaning.
LEMMA ChangesSpare ==
    ASSUME NEW n \in Nodes
    PROVE  /\ \A ps \in ProvisionStates \ Running :
                 \A o \in To(n, ps) \union Abort(n, ps) : Spares(n, o.n)
           /\ n.ps \notin Running => \A o \in Provide(n) : Spares(n, o.n)
           /\ \A o \in StartInspection(n) : Spares(n, o.n)
           /\ \A image \in Images : \A o \in Deploy(n, image) : Spares(n, o.n)
<1>1. {"cleaning", "inspecting", "deploying"} \subseteq ProvisionStates
  BY DEF ProvisionStates, Transient, Busy
<1>2. ASSUME NEW ps \in ProvisionStates \ Running, NEW o \in To(n, ps) \union Abort(n, ps)
      PROVE  Spares(n, o.n)
  <2> DEFINE new == [n EXCEPT !.ps = ps]
  <2>1. new \in Nodes /\ Spares(n, new)
    BY DEF Nodes, Spares
  <2>2. QED
    BY <2>1, TryChangeSpares DEF To, Abort
<1>3. ASSUME n.ps \notin Running, NEW o \in Provide(n) PROVE Spares(n, o.n)
  <2> DEFINE new == [n EXCEPT !.ps = "cleaning", !.manual = FALSE]
  <2>1. new \in Nodes /\ Spares(n, new)
    BY <1>1, <1>3 DEF Nodes, Spares
  <2>2. QED
    BY <2>1, TryChangeSpares DEF Provide
<1>4. ASSUME NEW o \in StartInspection(n) PROVE Spares(n, o.n)
  <2> DEFINE new == [n EXCEPT !.ps = "inspecting", !.inv = FALSE]
  <2>1. new \in Nodes /\ Spares(n, new)
    BY <1>1 DEF Nodes, Spares, Running
  <2>2. QED
    BY <2>1, TryChangeSpares DEF StartInspection
<1>5. ASSUME NEW image \in Images, NEW o \in Deploy(n, image) PROVE Spares(n, o.n)
  <2> DEFINE new == [n EXCEPT !.ps = "deploying", !.img = image]
  <2>1. new \in Nodes /\ Spares(n, new)
    BY <1>1 DEF Nodes, Spares, MaybeImage, Running
  <2>2. \/ o \in TryChange(n, new, "dirty")
        \/ o.n = [n EXCEPT !.img = image]
    BY <1>5 DEF Deploy
  <2>3. Spares(n, [n EXCEPT !.img = image])
    BY DEF Nodes, Spares
  <2> HIDE DEF new
  <2>4. QED
    BY <2>1, <2>2, <2>3, TryChangeSpares
<1>6. QED
  BY <1>2, <1>3, <1>4, <1>5

\* The methods that find their node with getNode.
LEMMA OperationsSpare ==
    ASSUME NEW n \in Nodes, NEW id
    PROVE  /\ \A restart, refresh \in BOOLEAN : \A o \in InspectHardware(n, id, restart, refresh) :
                 Spares(n, o.n)
           /\ \A image \in Images : \A o \in Provision(n, id, image) : Spares(n, o.n)
           /\ \A state : \A restart \in BOOLEAN : \A o \in Adopt(n, id, state, restart) : Spares(n, o.n)
           /\ \A restart \in BOOLEAN : \A o \in Deprovision(n, id, restart) : Spares(n, o.n)
<1>1. {"manageable", "adopting", "deleting"} \subseteq ProvisionStates \ Running
  BY DEF ProvisionStates, Transient, Busy, Running
<1>2. \A o : Still(n, o) => Spares(n, o.n)
  BY StillSpares
<1>3. ASSUME NEW restart \in BOOLEAN, NEW refresh \in BOOLEAN, NEW o \in InspectHardware(n, id, restart, refresh)
      PROVE  Spares(n, o.n)
  <2>1. Still(n, o) \/ o \in To(n, "manageable") \/ o \in StartInspection(n)
    BY <1>3 DEF InspectHardware, ForNode, Out, Still, Results
  <2>2. QED
    BY <1>1, <1>2, <2>1, ChangesSpare
<1>4. ASSUME NEW image \in Images, NEW o \in Provision(n, id, image) PROVE Spares(n, o.n)
  <2>1. \/ Still(n, o) \/ o \in To(n, "manageable") \/ o \in Deploy(n, image)
        \/ n.ps = "manageable" /\ o \in Provide(n)
    BY <1>4 DEF Provision, ForNode, Out, Still, Results
  <2>2. QED
    BY <1>1, <1>2, <2>1, ChangesSpare DEF Running
<1>5. ASSUME NEW state, NEW restart \in BOOLEAN, NEW o \in Adopt(n, id, state, restart)
      PROVE  Spares(n, o.n)
  <2>1. \/ Still(n, o) \/ o \in To(n, "adopting")
        \/ o \in Modify(n, [n EXCEPT !.maint = FALSE], "dirty")
    BY <1>5 DEF Adopt, ForNode, Out, Still, Results
  <2>2. Spares(n, [n EXCEPT !.maint = FALSE])
    BY DEF Nodes, Spares
  <2>3. QED
    BY <1>1, <1>2, <2>1, <2>2, ChangesSpare, ModifySpares
<1>6. ASSUME NEW restart \in BOOLEAN, NEW o \in Deprovision(n, id, restart) PROVE Spares(n, o.n)
  <2>1. \/ Still(n, o) \/ o \in To(n, "manageable") \/ o \in To(n, "deleting")
        \/ n.ps = "manageable" /\ o \in Provide(n)
    BY <1>6 DEF Deprovision, ForNode, Out, Still, Results
  <2>2. QED
    BY <1>1, <1>2, <2>1, ChangesSpare DEF Running
<1>7. QED
  BY <1>3, <1>4, <1>5, <1>6

\* PowerOn and PowerOff; to abort a cleaning is not to start one.
LEMMA PowerSpares ==
    ASSUME NEW n \in Nodes, NEW id, NEW power, NEW force \in BOOLEAN,
           NEW o \in PowerOn(n, id, power, force) \union PowerOff(n, id, power, force)
    PROVE  Spares(n, o.n)
<1>1. {"manageable", "inspect failed", "clean failed"} \subseteq ProvisionStates \ Running
  BY DEF ProvisionStates, Failed, Running
<1>2. \A p : Still(n, p) => Spares(n, p.n)
  BY StillSpares
<1>3. ASSUME NEW target, NEW p \in PowerChange(n, power, target, force) PROVE Spares(n, p.n)
  <2> DEFINE new == [n EXCEPT !.power = target, !.lastErr = FALSE]
  <2>1. Still(n, p) \/ p \in Modify(n, new, "dirty")
    BY <1>3 DEF PowerChange, ChangePower, Out, Still, Results
  <2>2. Spares(n, new)
    BY DEF Nodes, Spares
  <2>3. QED
    BY <1>2, <2>1, <2>2, ModifySpares
<1>4. ASSUME NEW p \in AbortInspectionOrCleaning(n) PROVE Spares(n, p.n)
  <2>1. \/ Still(n, p) \/ p \in To(n, "manageable")
        \/ p \in Abort(n, "inspect failed") \/ p \in Abort(n, "clean failed")
    BY <1>4 DEF AbortInspectionOrCleaning, Out, Still, Results
  <2>2. QED
    BY <1>1, <1>2, <2>1, ChangesSpare
<1>5. \/ Still(n, o) \/ o \in AbortInspectionOrCleaning(n)
      \/ o \in PowerChange(n, power, "on", force) \/ o \in PowerChange(n, power, "off", force)
  BY DEF PowerOn, PowerOff, ForNode, Out, Still, Results
<1>6. QED
  BY <1>2, <1>3, <1>4, <1>5

\* Delete and Detach.
LEMMA DetachSpares ==
    ASSUME NEW n \in Nodes, NEW id, NEW force \in BOOLEAN, NEW o \in Detach(n, id, force)
    PROVE  Spares(n, o.n)
<1>1. {"deploy failed", "inspect failed", "clean failed", "deleting"}
        \subseteq ProvisionStates \ Running
  BY DEF ProvisionStates, Failed, Transient, Busy, Running
<1>2. Spares(n, n)
  BY IdleSpares
<1>3. Spares(n, Gone(n)) /\ Spares(n, [n EXCEPT !.maint = TRUE])
  BY DEF Nodes, Spares, Gone, FreshNode
<1> DEFINE new == IF n.maint THEN Gone(n) ELSE [n EXCEPT !.maint = TRUE]
<1>4. Spares(n, new)
  BY <1>3
<1> HIDE DEF new
<1>5. o.n = n \/ o \in RealDelete(n, force)
  BY DEF Detach, Out
<1>6. ASSUME o.n # n, o \in RealDelete(n, force)
      PROVE  \/ o \in Modify(n, Gone(n), "dirty") \/ o \in Modify(n, new, "dirty")
             \/ o \in AbortDeployment(n)
             \/ o \in Abort(n, "inspect failed") \/ o \in Abort(n, "clean failed")
  <2>0. o # Out(n, "dirty")
    BY <1>6 DEF Out
  <2>1. CASE n.ps \in {"verifying", "deploying", "cleaning", "inspecting", "deleting",
                       "enroll", "available", "manageable"}
    BY <1>6, <2>0, <2>1 DEF RealDelete
  <2>2. CASE n.ps \in {"deploy wait", "inspect wait", "clean wait"}
    BY <1>6, <2>0, <2>2 DEF RealDelete
  <2>3. CASE ~(n.ps \in {"verifying", "deploying", "cleaning", "inspecting", "deleting",
                         "enroll", "available", "manageable",
                         "deploy wait", "inspect wait", "clean wait"})
    BY <1>6, <2>3 DEF RealDelete, new
  <2>4. QED
    BY <2>1, <2>2, <2>3
<1>7. AbortDeployment(n) \in {Abort(n, "deploy failed"), To(n, "deleting")}
  BY DEF AbortDeployment
<1>8. QED
  BY <1>1, <1>2, <1>3, <1>4, <1>5, <1>6, <1>7, ChangesSpare, ModifySpares

\* Register.
LEMMA RegisterSpares ==
    ASSUME NEW n \in Nodes, NEW credsChanged \in BOOLEAN, NEW restart \in BOOLEAN,
           NEW o \in Register(n, credsChanged, restart)
    PROVE  Spares(n, o.n)
<1>1. CASE n.ps = "absent"
  <2>1. \/ o.n.ps = n.ps
        \/ o.n.ps \in {"enroll", "verifying"}
    BY <1>1, RegisterOrders
  <2>2. QED
    BY <1>1, <2>1 DEF Spares
<1>2. CASE n.ps # "absent"
  <2>1. Still(n, o) \/ o \in To(n, "verifying")
    BY <1>2 DEF Register, Refused, Out, Still, Results
  <2>2. "verifying" \in ProvisionStates \ Running
    BY DEF ProvisionStates, Transient, Running
  <2>3. QED
    BY <2>1, <2>2, ChangesSpare, StillSpares
<1>3. QED
  BY <1>1, <1>2

\* A method that leaves node n as m starts to apply the settings raid.
Applies(n, m, raid) ==
    m.ps = "cleaning" /\ m.manual /\ m.raid = raid /\ n.ps \notin Running

\* Prepare reports that it started to apply settings exactly when it did.
LEMMA PrepareApplies ==
    ASSUME NEW n \in Nodes, NEW id, NEW raid \in RAIDs, NEW unprepared \in BOOLEAN,
           NEW needed \in BOOLEAN, NEW restart \in BOOLEAN,
           NEW o \in Prepare(n, id, raid, unprepared, needed, restart)
    PROVE  /\ \/ o.r # "started" /\ Spares(n, o.n)
              \/ o.r = "started" /\ Applies(n, o.n, raid)
           /\ o.r = "failed" => n.ps = "clean failed"
<1> DEFINE Answer(r, f) == /\ o = [n |-> n, r |-> r, f |-> f]
                           /\ r = "failed" => n.ps = "clean failed"
<1>1. \/ \E r \in Results \ {"started"}, f \in {0, 1} : Answer(r, f)
      \/ o \in To(n, "manageable")
      \/ n.ps = "manageable" /\ o \in Clean(n, raid)
  <2>1. \/ o = [n |-> n, r |-> "error", f |-> 1]
        \/ \E r \in Results \ {"started", "failed"} : o = Out(n, r)
        \/ n.ps = "clean failed" /\ o = Out(n, "failed")
        \/ o \in To(n, "manageable")
        \/ n.ps = "manageable" /\ o \in Clean(n, raid)
    BY DEF Prepare, ForNode, Out, Results
  <2>2. CASE o = [n |-> n, r |-> "error", f |-> 1]
    <3>1. Answer("error", 1) /\ "error" \in Results \ {"started"} /\ 1 \in {0, 1}
      BY <2>2 DEF Results
    <3>2. QED
      BY <3>1
  <2>3. CASE \E r \in Results \ {"started", "failed"} : o = Out(n, r)
    BY <2>3 DEF Out
  <2>4. CASE n.ps = "clean failed" /\ o = Out(n, "failed")
    BY <2>4 DEF Out, Results
  <2>5. QED
    BY <2>1, <2>2, <2>3, <2>4
<1>2. CASE \E r \in Results \ {"started"}, f \in {0, 1} : Answer(r, f)
  <2>1. PICK r \in Results \ {"started"}, f \in {0, 1} : Answer(r, f)
    BY <1>2
  <2>2. o.n = n /\ o.r = r
    BY <2>1
  <2>3. QED
    BY <2>1, <2>2, IdleSpares
<1>3. CASE o \in To(n, "manageable")
  <2>1. "manageable" \in ProvisionStates \ Running
    BY DEF ProvisionStates, Running
  <2>2. o.r \in {"dirty", "error"}
    BY <1>3 DEF To, TryChange, Modify, Refused, Out
  <2>3. QED
    BY <1>3, <2>1, <2>2, ChangesSpare
<1>4. CASE n.ps = "manageable" /\ o \in Clean(n, raid)
  <2> DEFINE out == [n EXCEPT !.maint = FALSE]
             moved == [n EXCEPT !.ps = "cleaning", !.manual = TRUE, !.raid = raid]
             new == [moved EXCEPT !.lastErr = FALSE]
  <2>1. new.ps = "cleaning" /\ new.manual = TRUE /\ new.raid = raid
    BY DEF Nodes
  <2>2. Spares(n, out)
    BY DEF Nodes, Spares
  <2>3. o \in Modify(n, out, "dirty") \/ o \in Modify(n, new, "started")
    BY <1>4 DEF Clean, TryChange
  <2> HIDE DEF out, new
  <2>4. \/ o.n \in {n, out} /\ o.r \in {"dirty", "error"}
        \/ o.n = new /\ o.r = "started"
    BY <2>3 DEF Modify, Refused, Out
  <2>5. QED
    BY <1>4, <2>1, <2>2, <2>4, IdleSpares DEF Running, Applies
<1>5. QED
  BY <1>1, <1>2, <1>3, <1>4

-----------------------------------------------------------------------------
(***************************************************************************)
(* What one reconcile may do: to a cleaning of the node, given the copy of *)
(* the host it has read, and which settings it writes.                     *)
(***************************************************************************)
\* A reconcile leaves the node as m, and has begun to apply the settings it has read.
Begins(m) ==
    cache.state = "preparing" /\ Applies(node, m, Goal(cache))

\* h reports no other volumes than the copy that was read: all of them, or all but the
\* software volumes; those of a host that is being prepared are gone with its node.
Carries(h) ==
    /\ \/ Vol(h) = Vol(cache)
       \/ Vol(cache) = "software" /\ Vol(h) = "none"
    /\ cache.state = "preparing" /\ h.id # cache.id => Vol(h) # "software"

\* h may be written by a reconcile that leaves the node as m: volumes are recorded
\* only when it begins to create them.
Configured(m, h) ==
    /\ h.raid = cache.raid
    /\ h.errType = "preparation error" =>
          \/ cache.errType = "preparation error"
          \/ cache.state = "preparing" /\ node.ps = "clean failed"
    /\ \/ Carries(h)
       \/ h.state = "preparing" /\ Begins(m) /\ Vol(h) = Goal(cache)
    /\ cache.state = "preparing" /\ h.state = "available" => GetNode(node, cache.id)

Handled ==
    /\ Spares(node, node') \/ Begins(node')
    /\ \/ host' = host
       \/ cache = host /\ Configured(node', host')

\* The end of a reconcile, in the form the handlers use it.
LEMMA EndIsHandled ==
    ASSUME NEW o, Spares(node, o.n) \/ Begins(o.n)
    PROVE  /\ Discard(o) => Handled
           /\ \A h : Configured(o.n, h) /\ Commit(o, h) => Handled
           /\ \A h, old : Configured(o.n, h) /\ CommitIfChanged(o, h, old) => Handled
<1>1. Discard(o) => Handled
  BY DEF Discard, Handled
<1>2. ASSUME NEW h, Configured(o.n, h), Commit(o, h) PROVE Handled
  BY <1>2 DEF Commit, Handled
<1>3. QED
  BY <1>1, <1>2 DEF CommitIfChanged

\* The hosts with a state in S that say no more about settings than the copy that
\* was read.
Unaltered(S) ==
    {h \in Hosts : /\ h.state \in S
                   /\ h.raid = cache.raid
                   /\ Carries(h)
                   /\ h.errType = "preparation error" => cache.errType = "preparation error"}

\* What clearHostProvisioningSettings leaves of the volumes on record.
LEMMA ClearedVolumes ==
    ASSUME NEW r \in RecordedRAIDs
    PROVE  /\ Cleared(r) \in RecordedRAIDs
           /\ Volumes(Cleared(r)) # "software"
           /\ \/ Volumes(Cleared(r)) = Volumes(r)
              \/ Volumes(r) = "software" /\ Volumes(Cleared(r)) = "none"
BY DEF Cleared, Volumes, RecordedRAIDs, RAIDs

\* The status helpers alter nothing.
LEMMA HelpersUnaltered ==
    ASSUME NEW S, NEW h \in Unaltered(S)
    PROVE  /\ ClearError(h) \in Unaltered(S)
           /\ \A t \in ErrorTypes \ {"preparation error"} : Fail(h, t) \in Unaltered(S)
           /\ ResetErrors(h) \in Unaltered(S)
           /\ ClearSettings(h) \in Unaltered(S)
           /\ \A op \in OperationalStatuses : [h EXCEPT !.op = op] \in Unaltered(S)
           /\ \A b \in BOOLEAN : [h EXCEPT !.fin = b] \in Unaltered(S)
           /\ \A b \in BOOLEAN : [h EXCEPT !.powered = b] \in Unaltered(S)
           /\ \A b \in BOOLEAN : [h EXCEPT !.refresh = b] \in Unaltered(S)
           /\ \A i \in MaybeImage : [h EXCEPT !.pimage = i] \in Unaltered(S)
           /\ \A c \in Nat, b \in BOOLEAN : [h EXCEPT !.good = c, !.open = b] \in Unaltered(S)
           /\ \A c \in Nat, b \in BOOLEAN : [h EXCEPT !.tried = c, !.open = b] \in Unaltered(S)
           /\ [h EXCEPT !.profile = TRUE] \in Unaltered(S)
<1>1. ClearError(h) \in Unaltered(S)
  BY DEF ClearError, Unaltered, Carries, Vol, Hosts, OperationalStatuses, ErrorTypes
<1>2. \A t \in ErrorTypes \ {"preparation error"} : Fail(h, t) \in Unaltered(S)
  <2> DEFINE more == IF h.errCount > retryCount THEN h.errCount ELSE h.errCount + 1
  <2>0. h.errCount \in 0..retryCount + 1
    BY DEF Unaltered, Carries, Vol, Hosts
  <2>1. more \in 0..retryCount + 1
    BY <2>0 DEF retryCount
  <2>2. \A t \in ErrorTypes \ {"preparation error"}, c \in 0..retryCount + 1 :
           [h EXCEPT !.op = "error", !.errType = t, !.errCount = c] \in Unaltered(S)
    BY DEF Unaltered, Carries, Vol, Hosts, OperationalStatuses
  <2> HIDE DEF more
  <2>3. \A t \in ErrorTypes \ {"preparation error"} :
           [h EXCEPT !.op = "error", !.errType = t, !.errCount = more] \in Unaltered(S)
    BY <2>1, <2>2
  <2>4. QED
    BY <2>3 DEF Fail, more
<1>3. ResetErrors(h) \in Unaltered(S)
  <2>1. 0 \in 0..retryCount + 1
    BY DEF retryCount
  <2>2. QED
    BY <2>1 DEF ResetErrors, Unaltered, Carries, Vol, Hosts
<1>4. ClearSettings(h) \in Unaltered(S)
  BY ClearedVolumes DEF ClearSettings, Unaltered, Carries, Vol, Hosts
<1>5. /\ \A op \in OperationalStatuses : [h EXCEPT !.op = op] \in Unaltered(S)
      /\ \A b \in BOOLEAN : [h EXCEPT !.fin = b] \in Unaltered(S)
      /\ \A b \in BOOLEAN : [h EXCEPT !.powered = b] \in Unaltered(S)
      /\ \A b \in BOOLEAN : [h EXCEPT !.refresh = b] \in Unaltered(S)
      /\ \A i \in MaybeImage : [h EXCEPT !.pimage = i] \in Unaltered(S)
  <2>1. \A op \in OperationalStatuses : [h EXCEPT !.op = op] \in Unaltered(S)
    BY DEF Unaltered, Carries, Vol, Hosts
  <2>2. \A b \in BOOLEAN : [h EXCEPT !.fin = b] \in Unaltered(S)
    BY DEF Unaltered, Carries, Vol, Hosts
  <2>3. \A b \in BOOLEAN : [h EXCEPT !.powered = b] \in Unaltered(S)
    BY DEF Unaltered, Carries, Vol, Hosts
  <2>4. \A b \in BOOLEAN : [h EXCEPT !.refresh = b] \in Unaltered(S)
    BY DEF Unaltered, Carries, Vol, Hosts
  <2>5. \A i \in MaybeImage : [h EXCEPT !.pimage = i] \in Unaltered(S)
    BY DEF Unaltered, Carries, Vol, Hosts
  <2>6. QED
    BY <2>1, <2>2, <2>3, <2>4, <2>5
<1>6. \A c \in Nat, b \in BOOLEAN : [h EXCEPT !.good = c, !.open = b] \in Unaltered(S)
  BY DEF Unaltered, Carries, Vol, Hosts
<1>7. \A c \in Nat, b \in BOOLEAN : [h EXCEPT !.tried = c, !.open = b] \in Unaltered(S)
  BY DEF Unaltered, Carries, Vol, Hosts
<1>8. [h EXCEPT !.profile = TRUE] \in Unaltered(S)
  BY DEF Unaltered, Carries, Vol, Hosts
<1>9. QED
  BY <1>1, <1>2, <1>3, <1>4, <1>5, <1>6, <1>7, <1>8

\* A change of state alters no settings.
LEMMA MovesUnaltered ==
    ASSUME NEW S, NEW h \in Unaltered(S), NEW s \in States
    PROVE  /\ [h EXCEPT !.state = s] \in Unaltered({s})
           /\ \A m : MoveTo(h, s, m) \in Unaltered(S \union {s})
<1>1. [h EXCEPT !.state = s] \in Unaltered({s})
  BY DEF Unaltered, Carries, Vol, Hosts
<1>2. [h EXCEPT !.op = "delayed"] \in Unaltered(S \union {s})
  BY DEF Unaltered, Carries, Vol, Hosts, OperationalStatuses
<1>3. \A b \in BOOLEAN : [h EXCEPT !.state = s, !.open = b] \in Unaltered(S \union {s})
  BY DEF Unaltered, Carries, Vol, Hosts
<1>4. (s = "registering" \/ (h.open /\ h.state # "registering")) \in BOOLEAN
  OBVIOUS
<1>5. QED
  BY <1>1, <1>2, <1>3, <1>4 DEF MoveTo

\* registerHost drops the settings of a host in Preparing whose node is a new one.
LEMMA RegistrationUnaltered ==
    ASSUME cache \in Hosts, secret \in Nat, NEW o, o.n \in Nodes
    PROVE  /\ cache \in Unaltered({cache.state})
           /\ Tried \in Unaltered({cache.state})
           /\ Identified(Tried, o) \in Unaltered({cache.state})
           /\ Accepted(o) \in Unaltered({cache.state})
<1> DEFINE S == {cache.state}
<1>1. cache \in Unaltered(S)
  BY DEF Unaltered, Carries
<1> HIDE DEF S
<1>2. Tried \in Unaltered(S)
  <2>1. (cache.open \/ Retrying) \in BOOLEAN
    OBVIOUS
  <2>2. QED
    BY <1>1, <2>1, HelpersUnaltered DEF Tried
<1>3. Tried.state = cache.state /\ Tried \in Hosts
  BY <1>2 DEF Unaltered, S
<1>4. Identified(Tried, o) \in Unaltered(S)
  <2> DEFINE h == [Tried EXCEPT !.id = o.n.uuid]
  <2>1. CASE Identified(Tried, o) = Tried
    BY <1>2, <2>1
  <2>2. CASE cache.state = "preparing" /\ Identified(Tried, o) = ClearSettings(h)
    <3>1. h \in Hosts /\ h.state \in S /\ h.raid = cache.raid /\ h.errType = Tried.errType
      BY <1>2 DEF Unaltered, Hosts, Nodes
    <3>2. Tried.errType = "preparation error" => cache.errType = "preparation error"
      BY <1>2 DEF Unaltered
    <3> HIDE DEF h
    <3>3. /\ ClearSettings(h).state = h.state /\ ClearSettings(h).raid = h.raid
          /\ ClearSettings(h).errType = h.errType /\ ClearSettings(h).praid = Cleared(h.praid)
          /\ ClearSettings(h) \in Hosts
      BY <3>1, ClearedVolumes DEF ClearSettings, Hosts
    <3>4. h.praid = Tried.praid
      BY <1>3 DEF h, Hosts
    <3>5. Tried.praid = cache.praid
      BY DEF Tried, Hosts
    <3>6. Carries(ClearSettings(h))
      BY <3>1, <3>3, <3>4, <3>5, ClearedVolumes DEF Carries, Vol, Hosts
    <3>7. ClearSettings(h) \in Unaltered(S)
      BY <3>1, <3>2, <3>3, <3>6 DEF Unaltered
    <3>8. QED
      BY <2>2, <3>7
  <2>3. CASE cache.state # "preparing" /\ Identified(Tried, o) = h
    <3>1. h \in Unaltered(S)
      BY <1>2, <2>3 DEF Unaltered, Carries, Vol, Hosts, Nodes
    <3>2. QED
      BY <2>3, <3>1
  <2>4. QED
    BY <1>3, <2>1, <2>2, <2>3 DEF Identified
<1> DEFINE b == Identified(Tried, o).open /\ cache.state = "registering"
           h == [Identified(Tried, o) EXCEPT !.good = secret, !.open = b]
<1>5. b \in BOOLEAN
  OBVIOUS
<1> HIDE DEF b
<1>6. h \in Unaltered(S)
  BY <1>4, <1>5, HelpersUnaltered
<1>7. ClearError(h) \in Unaltered(S)
  <2> HIDE DEF h
  <2>1. QED
    BY <1>6, HelpersUnaltered
<1>8. Accepted(o) \in {h, ClearError(h)}
  BY DEF Accepted, b
<1>9. QED
  BY <1>1, <1>2, <1>4, <1>6, <1>7, <1>8 DEF S

\* What the state handlers read and hold.
LEMMA CurrentUnaltered ==
    ASSUME IInv
    PROVE  /\ node \in Nodes /\ cache \in Hosts
           /\ cache \in Unaltered({cache.state})
           /\ Current \in Unaltered({cache.state})
<1>1. NoCall.n = node /\ node \in Nodes /\ cache \in Hosts /\ secret \in Nat
  BY CacheFields DEF NoCall, Out
<1>2. cache \in Unaltered({cache.state}) /\ Accepted(NoCall) \in Unaltered({cache.state})
  BY <1>1, RegistrationUnaltered
<1>3. QED
  BY <1>1, <1>2 DEF Current

\* A host whose node is found keeps its ID.
LEMMA CurrentID ==
    ASSUME cache \in Hosts, GetNode(node, cache.id)
    PROVE  Current.id = cache.id
<1>1. Tried.id = cache.id
  BY DEF Tried, Hosts
<1>2. Identified(Tried, NoCall) = Tried
  BY <1>1 DEF Identified, GetNode, NoCall, Out
<1>3. Accepted(NoCall).id = cache.id
  BY <1>1, <1>2 DEF Accepted, Tried, ClearError, Hosts
<1>4. QED
  BY <1>3 DEF Current

\* A handler that ends with such a host, in its state or on the way to a state of S
\* that promises nothing about settings.
LEMMA UnalteredIsHandled ==
    ASSUME NEW o, Spares(node, o.n), NEW S,
           cache.state = "preparing" => "available" \notin S
    PROVE  /\ Discard(o) => Handled
           /\ \A h \in Unaltered({cache.state} \union S) : Commit(o, h) => Handled
<1>1. \A h \in Unaltered({cache.state} \union S) : Configured(o.n, h)
  BY DEF Unaltered, Configured
<1>2. QED
  BY <1>1, EndIsHandled

\* The same for a handler that stays in its state.
LEMMA StayingIsHandled ==
    ASSUME NEW o, Spares(node, o.n)
    PROVE  /\ Discard(o) => Handled
           /\ \A h \in Unaltered({cache.state}) : Commit(o, h) => Handled
           /\ \A h \in Unaltered({cache.state}) : \A old : CommitIfChanged(o, h, old) => Handled
<1>1. \A h \in Unaltered({cache.state}) : Configured(o.n, h)
  BY DEF Unaltered, Configured
<1>2. QED
  BY <1>1, EndIsHandled

\* A reconcile without a call spares the node.
LEMMA NoCallSpares == NoCall.n = node /\ Spares(node, NoCall.n)
BY IdleSpares DEF NoCall, Out

-----------------------------------------------------------------------------
(***************************************************************************)
(* Every step of Reconcile does no more than that.                         *)
(***************************************************************************)
\* The steps of Reconcile before the state handlers, when the host is not attached.
LEMMA EarlyStepsHandle ==
    ASSUME IInv,
           AddFinalizer \/ CredentialsError \/ CheckDelayedHost \/ InitiateDelete
             \/ DetachHost \/ ReattachHost
    PROVE  Handled
<1> DEFINE S == {cache.state}
<1>1. node \in Nodes /\ cache \in Hosts /\ cache \in Unaltered(S)
  BY CurrentUnaltered
<1>2. \A h \in Unaltered(S) : Commit(NoCall, h) => Handled
  BY NoCallSpares, StayingIsHandled
<1> HIDE DEF S
<1>3. CASE AddFinalizer
  <2>1. [cache EXCEPT !.fin = TRUE] \in Unaltered(S)
    BY <1>1, HelpersUnaltered
  <2>2. QED
    BY <1>2, <1>3, <2>1 DEF AddFinalizer
<1>4. CASE CredentialsError
  <2>1. Fail(cache, "registration error") \in Unaltered(S)
    BY <1>1, HelpersUnaltered DEF ErrorTypes
  <2>2. QED
    BY <1>2, <1>4, <2>1 DEF CredentialsError
<1>5. CASE CheckDelayedHost
  <2>1. ClearError(cache) \in Unaltered(S) /\ [cache EXCEPT !.op = "delayed"] \in Unaltered(S)
    BY <1>1, HelpersUnaltered DEF OperationalStatuses
  <2>2. QED
    BY <1>2, <1>5, <2>1 DEF CheckDelayedHost
<1>6. CASE InitiateDelete
  <2> DEFINE T == {DeletionState}
             h == MoveTo(cache, DeletionState, node)
  <2>1. DeletionState # cache.state /\ Commit(NoCall, h)
    BY <1>6 DEF InitiateDelete
  <2>2. DeletionState \in LeavingStates \union {"deprovisioning"}
    BY <1>1, <2>1, DeletionStates
  <2>3. "available" \notin T
    BY <2>2 DEF LeavingStates
  <2>4. h \in Unaltered(S \union T)
    BY <1>1, MovesUnaltered, DeletionStateIsState
  <2> HIDE DEF T, h
  <2>5. QED
    BY <2>1, <2>3, <2>4, NoCallSpares, UnalteredIsHandled DEF S
<1>7. CASE DetachHost
  <2> DEFINE force == cache.state \notin Detachable
             h == [cache EXCEPT !.op = "detached"]
  <2>1. PICK o \in Detach(node, cache.id, force) :
           \/ o.r = "complete" /\ CommitIfChanged(o, h, cache)
           \/ o.r # "complete" /\ Discard(o)
    BY <1>7 DEF DetachHost
  <2>2. force \in BOOLEAN
    OBVIOUS
  <2> HIDE DEF force
  <2>3. Spares(node, o.n)
    BY <1>1, <2>1, <2>2, DetachSpares
  <2>4. h \in Unaltered(S)
    BY <1>1, HelpersUnaltered DEF OperationalStatuses
  <2> HIDE DEF h
  <2>5. QED
    BY <2>1, <2>3, <2>4, StayingIsHandled DEF S
<1>8. CASE ReattachHost
  <2> DEFINE op == IF cache.errType = "none" THEN "OK" ELSE "error"
  <2>1. op \in OperationalStatuses
    BY DEF OperationalStatuses
  <2>2. Commit(NoCall, [cache EXCEPT !.op = op])
    BY <1>8 DEF ReattachHost
  <2> HIDE DEF op
  <2>3. [cache EXCEPT !.op = op] \in Unaltered(S)
    BY <1>1, <2>1, HelpersUnaltered
  <2>4. QED
    BY <1>2, <2>2, <2>3
<1>9. QED
  BY <1>3, <1>4, <1>5, <1>6, <1>7, <1>8

\* registerHost.
LEMMA RegisterHostHandles ==
    ASSUME IInv, RegisterHost
    PROVE  Handled
<1>1. PICK o \in Register(node, cache.tried # secret, cache.errType = "registration error") :
         LET h == Identified(Tried, o)
         IN
         \/ o.r = "error"  /\ Discard(o)
         \/ o.r = "failed" /\ Commit(o, Fail(Tried, "registration error"))
         \/ o.r = "dirty"  /\ CommitIfChanged(o, ClearError(h), [cache EXCEPT !.open = h.open])
         \/ o.r = "complete" /\ ~h.profile /\ Commit(o, [h EXCEPT !.profile = TRUE])
         \/ o.r = "complete" /\ h.profile /\ RegistrationDirty /\ Commit(o, Accepted(o))
  BY DEF RegisterHost
<1>2. node \in Nodes /\ secret \in Nat /\ cache \in Hosts
  BY CacheFields
<1>3. o.n \in Nodes /\ node.uuid <= o.n.uuid
  BY <1>1, <1>2, RegisterIdentity, OutcomeKeepsSafe DEF IInv, TypeOK
<1>4. Spares(node, o.n)
  BY <1>1, <1>2, RegisterSpares
<1> DEFINE S == {cache.state}
<1>5. /\ Tried \in Unaltered(S)
      /\ Identified(Tried, o) \in Unaltered(S)
      /\ Accepted(o) \in Unaltered(S)
  BY <1>2, <1>3, RegistrationUnaltered
<1>6. /\ Fail(Tried, "registration error") \in Unaltered(S)
      /\ ClearError(Identified(Tried, o)) \in Unaltered(S)
      /\ [Identified(Tried, o) EXCEPT !.profile = TRUE] \in Unaltered(S)
  <2> HIDE DEF S
  <2>1. QED
    BY <1>5, HelpersUnaltered DEF ErrorTypes
<1>7. QED
  BY <1>1, <1>4, <1>5, <1>6, StayingIsHandled

\* The handlers of the states before a host is prepared.
LEMMA RegistrationHandles ==
    ASSUME IInv, HandleNone \/ HandleUnmanaged \/ HandleRegistering \/ HandleInspecting
    PROVE  Handled
<1> DEFINE S == {cache.state}
<1>1. node \in Nodes /\ cache \in Hosts /\ cache \in Unaltered(S) /\ Current \in Unaltered(S)
  BY CurrentUnaltered
<1>2. cache.state # "preparing"
  BY DEF HandleNone, HandleUnmanaged, HandleRegistering, HandleInspecting, In
<1>3. {"unmanaged", "registering", "externally provisioned", "inspecting", "preparing"}
        \subseteq States
  BY DEF States
<1>4. ASSUME NEW T, NEW h \in Unaltered(S \union T), Commit(NoCall, h) PROVE Handled
  BY <1>2, <1>4, NoCallSpares, UnalteredIsHandled
<1> HIDE DEF S
<1>5. CASE HandleNone
  <2>1. [cache EXCEPT !.op = "discovered"] \in Unaltered(S)
    BY <1>1, HelpersUnaltered DEF OperationalStatuses
  <2>2. /\ MoveTo(cache, "registering", node) \in Unaltered(S \union {"registering"})
        /\ MoveTo([cache EXCEPT !.op = "discovered"], "unmanaged", node)
             \in Unaltered(S \union {"unmanaged"})
    BY <1>1, <1>3, <2>1, MovesUnaltered
  <2>3. QED
    BY <1>4, <1>5, <2>2 DEF HandleNone
<1>6. CASE HandleUnmanaged
  <2>1. MoveTo(cache, "registering", node) \in Unaltered(S \union {"registering"})
    BY <1>1, <1>3, MovesUnaltered
  <2>2. QED
    BY <1>4, <1>6, <2>1 DEF HandleUnmanaged
<1>7. CASE HandleRegistering
  <2> DEFINE next == CASE cache.ext -> "externally provisioned"
                       [] ~cache.ext /\ cache.inspect -> "inspecting"
                       [] OTHER -> "preparing"
  <2>1. next \in States
    BY <1>3
  <2>2. Commit(NoCall, MoveTo(ResetErrors(Current), next, node))
    BY <1>7 DEF HandleRegistering
  <2> HIDE DEF next
  <2>3. ResetErrors(Current) \in Unaltered(S)
    BY <1>1, HelpersUnaltered
  <2>4. MoveTo(ResetErrors(Current), next, node) \in Unaltered(S \union {next})
    BY <2>1, <2>3, MovesUnaltered
  <2>5. QED
    BY <1>4, <2>2, <2>4
<1>8. CASE HandleInspecting
  <2>1. ASSUME NEW T, NEW h \in Unaltered(T) PROVE h \in Unaltered(S \union T)
    BY <2>1 DEF Unaltered
  <2>2. CASE ~cache.inspect
    <3> DEFINE h == [Current EXCEPT !.state = "preparing"]
    <3>1. h \in Unaltered({"preparing"})
      BY <1>1, <1>3, MovesUnaltered
    <3>2. Commit(NoCall, ResetErrors(h))
      BY <1>8, <2>2 DEF HandleInspecting
    <3> HIDE DEF h
    <3>3. ResetErrors(h) \in Unaltered({"preparing"})
      BY <3>1, HelpersUnaltered
    <3>4. QED
      BY <1>4, <2>1, <3>2, <3>3
  <2>3. CASE cache.inspect
    <3> DEFINE h == ResetErrors(ClearError(Current))
               done == [h EXCEPT !.state = "preparing"]
    <3>1. PICK o \in InspectHardware(node, cache.id, cache.errType = "inspection error",
                                     cache.refresh) :
             \/ o.r \in {"error", "unregistered"} /\ Discard(o)
             \/ o.r = "failed" /\ Commit(o, Fail(Current, "inspection error"))
             \/ /\ o.r = "started" /\ cache.refresh
                /\ Commit(o, [cache EXCEPT !.refresh = FALSE])
             \/ /\ o.r = "dirty" \/ (o.r = "started" /\ ~cache.refresh)
                /\ CommitIfChanged(o, ClearError(Current), Current)
             \/ o.r = "complete" /\ Commit(o, done)
      BY <1>8, <2>3 DEF HandleInspecting
    <3>2. cache.refresh \in BOOLEAN
      BY <1>1 DEF Hosts
    <3>3. Spares(node, o.n)
      BY <1>1, <3>1, <3>2, OperationsSpare
    <3>4. /\ ClearError(Current) \in Unaltered(S)
          /\ Fail(Current, "inspection error") \in Unaltered(S)
          /\ [cache EXCEPT !.refresh = FALSE] \in Unaltered(S)
          /\ h \in Unaltered(S)
      BY <1>1, HelpersUnaltered DEF ErrorTypes
    <3> HIDE DEF h
    <3>5. done \in Unaltered({"preparing"})
      BY <1>3, <3>4, MovesUnaltered
    <3> HIDE DEF done
    <3>6. Commit(o, done) => Handled
      BY <1>2, <2>1, <3>3, <3>5, UnalteredIsHandled DEF S
    <3>7. QED
      BY <3>1, <3>3, <3>4, <3>6, StayingIsHandled DEF S
  <2>4. QED
    BY <2>2, <2>3
<1>9. QED
  BY <1>5, <1>6, <1>7, <1>8

\* clearErrorCount touches nothing else.
LEMMA ResetErrorsOf ==
    ASSUME NEW h \in Hosts
    PROVE  /\ ResetErrors(h).raid = h.raid /\ ResetErrors(h).praid = h.praid
           /\ ResetErrors(h).errType = h.errType /\ ResetErrors(h).id = h.id
           /\ ResetErrors(h) \in Hosts
<1>1. 0 \in 0..retryCount + 1
  BY DEF retryCount
<1>2. ResetErrors(h) \in Hosts
  BY <1>1 DEF ResetErrors, Hosts
<1>3. QED
  BY <1>2 DEF ResetErrors, Hosts

\* handlePreparing records settings when it begins to apply them, and leaves
\* Preparing only with a node that getNode finds.
LEMMA PreparingHandles ==
    ASSUME IInv, HandlePreparing
    PROVE  Handled
<1> DEFINE S == {cache.state}
           dirty == SettingsDirty(cache) \/ cache.errType = "preparation error"
           set == [Current EXCEPT !.praid = TargetRAID(cache)]
           saved == ClearError(set)
           needed == HasRAIDSteps(TargetRAID(cache), ActualRAID(cache))
           restart == cache.errType = "preparation error"
           kept == ResetErrors(IF dirty THEN saved ELSE Current)
           done == [kept EXCEPT !.state = "available"]
           failed == Fail(IF dirty THEN ClearSettings(Current) ELSE Current,
                          "preparation error")
<1>1. node \in Nodes /\ cache \in Hosts /\ Current \in Unaltered(S) /\ Current \in Hosts
  BY CurrentUnaltered DEF Unaltered
<1>2. cache.state = "preparing"
  BY DEF HandlePreparing, In
<1>3. PICK o \in Prepare(node, cache.id, Goal(cache), dirty, needed, restart) :
         \/ o.r \in {"error", "unregistered"} /\ Discard(o)
         \/ o.r = "failed" /\ Commit(o, failed)
         \/ o.r = "started" /\ Commit(o, saved)
         \/ o.r = "dirty" /\ dirty  /\ Commit(o, Current)
         \/ o.r = "dirty" /\ ~dirty /\ CommitIfChanged(o, Current, Current)
         \/ o.r = "complete" /\ Commit(o, done)
  BY DEF HandlePreparing, Goal
<1>4. dirty \in BOOLEAN /\ needed \in BOOLEAN /\ restart \in BOOLEAN /\ Goal(cache) \in RAIDs
  BY <1>1, TargetRAIDType DEF SettingsDirty, Goal
<1>5. /\ \/ o.r # "started" /\ Spares(node, o.n)
         \/ o.r = "started" /\ Begins(o.n)
      /\ o.r = "failed" => node.ps = "clean failed"
  <2> HIDE DEF dirty, needed, restart
  <2>1. /\ \/ o.r # "started" /\ Spares(node, o.n)
           \/ o.r = "started" /\ Applies(node, o.n, Goal(cache))
        /\ o.r = "failed" => node.ps = "clean failed"
    BY <1>1, <1>4, PrepareApplies
  <2>2. QED
    BY <1>2, <2>1 DEF Begins
<1>6. o.r = "complete" => GetNode(node, cache.id) /\ ~(dirty /\ needed)
  <2> HIDE DEF dirty, needed, restart
  <2>1. QED
    BY <1>1, <1>3, <1>4, PrepareOrders DEF Ordered
<1>6a. o.r = "complete" => Current.id = cache.id
  BY <1>1, <1>6, CurrentID
<1>7. /\ saved \in Hosts /\ saved.raid = cache.raid /\ Vol(saved) = Goal(cache)
      /\ saved.id = Current.id
      /\ saved.errType = "none" /\ saved.state = cache.state
  <2>1. /\ set \in Hosts /\ set.raid = cache.raid /\ set.praid = TargetRAID(cache)
        /\ set.state = cache.state /\ set.id = Current.id
    BY <1>1, TargetRAIDType DEF Unaltered, Hosts
  <2> HIDE DEF set
  <2>2. QED
    BY <2>1 DEF ClearError, Hosts, OperationalStatuses, ErrorTypes, Vol, Goal
<1> HIDE DEF S
<1>8. CASE o.r = "failed" /\ Commit(o, failed)
  <2> DEFINE h == IF dirty THEN ClearSettings(Current) ELSE Current
  <2>1. h \in Unaltered(S)
    BY <1>1, HelpersUnaltered
  <2> HIDE DEF h
  <2>2. /\ Fail(h, "preparation error").raid = h.raid
        /\ Fail(h, "preparation error").praid = h.praid
        /\ Fail(h, "preparation error").id = h.id
        /\ Fail(h, "preparation error").state = h.state
    BY <2>1 DEF Fail, Unaltered, Hosts
  <2>3. Configured(o.n, Fail(h, "preparation error"))
    <3>1. h.raid = cache.raid /\ Carries(h) /\ h.state = "preparing"
      BY <1>2, <2>1 DEF Unaltered, S
    <3> DEFINE g == Fail(h, "preparation error")
    <3> HIDE DEF g
    <3>2. g.raid = cache.raid /\ Carries(g) /\ g.state = "preparing"
      BY <2>2, <3>1 DEF g, Carries, Vol
    <3>3. Configured(o.n, g)
      BY <1>2, <1>5, <1>8, <3>2 DEF Configured
    <3>4. QED
      BY <3>3 DEF g
  <2>4. failed = Fail(h, "preparation error")
    BY DEF h
  <2> HIDE DEF failed
  <2>5. QED
    BY <1>5, <1>8, <2>3, <2>4, EndIsHandled
<1>9. CASE o.r = "started" /\ Commit(o, saved)
  <2> HIDE DEF saved
  <2>1. Configured(o.n, saved)
    BY <1>2, <1>5, <1>7, <1>9 DEF Configured
  <2>2. QED
    BY <1>5, <1>9, <2>1, EndIsHandled
<1>10. CASE o.r = "complete" /\ Commit(o, done)
  <2> DEFINE h == IF dirty THEN saved ELSE Current
  <2>1. /\ h \in Hosts /\ h.raid = cache.raid /\ h.id = cache.id
        /\ \/ Vol(h) \in {Vol(cache), Vol(Current)}
           \/ Vol(cache) = "software" /\ Vol(h) = "none"
        /\ h.errType = "preparation error" => cache.errType = "preparation error"
    <3> HIDE DEF saved
    <3>1. CASE dirty
      <4>1. \/ Goal(cache) = Vol(cache)
            \/ Vol(cache) = "software" /\ Goal(cache) = "none"
        BY <1>1, <1>6, <1>10, <3>1, GoalNeedsNothing DEF dirty, needed
      <4>2. QED
        BY <1>7, <1>10, <3>1, <4>1, <1>6a
    <3>2. CASE ~dirty
      BY <1>1, <1>10, <3>2, <1>6a DEF Unaltered
    <3>3. QED
      BY <3>1, <3>2
  <2> HIDE DEF h
  <2>2. /\ done.raid = h.raid /\ done.praid = h.praid /\ done.errType = h.errType
        /\ done.id = h.id /\ done.state = "available"
    <3>1. kept = ResetErrors(h)
      BY DEF h
    <3>2. /\ ResetErrors(h).raid = h.raid /\ ResetErrors(h).praid = h.praid
          /\ ResetErrors(h).errType = h.errType /\ ResetErrors(h).id = h.id
          /\ ResetErrors(h) \in Hosts
      BY <2>1, ResetErrorsOf
    <3> HIDE DEF kept
    <3>3. QED
      BY <3>1, <3>2 DEF Hosts
  <2> HIDE DEF done
  <2>3. Carries(Current)
    BY <1>1 DEF Unaltered
  <2>4. Carries(done)
    BY <2>1, <2>2, <2>3 DEF Carries, Vol
  <2>5. Configured(o.n, done)
    BY <1>2, <1>6, <1>10, <2>1, <2>2, <2>4 DEF Configured
  <2>6. QED
    BY <1>5, <1>10, <2>5, EndIsHandled
<1>11. CASE \/ o.r \in {"error", "unregistered"} /\ Discard(o)
            \/ o.r = "dirty" /\ Commit(o, Current)
            \/ o.r = "dirty" /\ CommitIfChanged(o, Current, Current)
  BY <1>1, <1>5, <1>11, StayingIsHandled DEF S
<1>12. QED
  BY <1>3, <1>8, <1>9, <1>10, <1>11

\* manageHostPower.
LEMMA ManageHostPowerHandles ==
    ASSUME IInv, ManageHostPower
    PROVE  Handled
<1> DEFINE S == {cache.state}
           forced == cache.errType = "power management error"
           discovered == machine.power = "on"
<1>1. node \in Nodes /\ Current \in Unaltered(S) /\ cache.online \in BOOLEAN
  BY CurrentUnaltered, CacheFields
<1>2. forced \in BOOLEAN /\ discovered \in BOOLEAN
  OBVIOUS
<1> HIDE DEF S
<1>3. CASE Discard(NoCall)
  BY <1>3, NoCallSpares, StayingIsHandled
<1>4. CASE Commit(NoCall, [(IF cache.op = "error" /\ forced THEN ClearError(Current) ELSE Current)
                             EXCEPT !.powered = discovered])
  <2> DEFINE cleared == IF cache.op = "error" /\ forced THEN ClearError(Current) ELSE Current
             h == [cleared EXCEPT !.powered = discovered]
  <2>1. cleared \in Unaltered(S)
    BY <1>1, HelpersUnaltered
  <2>2. Commit(NoCall, h)
    BY <1>4
  <2> HIDE DEF cleared, discovered
  <2>3. h \in Unaltered(S)
    BY <1>2, <2>1, HelpersUnaltered
  <2> HIDE DEF h
  <2>4. QED
    BY <2>2, <2>3, NoCallSpares, StayingIsHandled DEF S
<1>5. CASE \E o \in (IF cache.online THEN PowerOn(node, cache.id, machine.power, forced)
                                     ELSE PowerOff(node, cache.id, machine.power, forced)) :
              \/ o.r \in {"error", "unregistered"} /\ Discard(o)
              \/ o.r = "failed" /\ Commit(o, Fail(Current, "power management error"))
              \/ o.r = "dirty"  /\ CommitIfChanged(o, ClearError(Current), Current)
              \/ /\ o.r = "complete"
                 /\ Commit(o, ResetErrors([Current EXCEPT !.powered = cache.online]))
  <2> DEFINE set == [Current EXCEPT !.powered = cache.online]
             h == ResetErrors(set)
  <2> HIDE DEF forced
  <2>1. PICK o \in PowerOn(node, cache.id, machine.power, forced)
                     \union PowerOff(node, cache.id, machine.power, forced) :
              \/ o.r \in {"error", "unregistered"} /\ Discard(o)
              \/ o.r = "failed" /\ Commit(o, Fail(Current, "power management error"))
              \/ o.r = "dirty"  /\ CommitIfChanged(o, ClearError(Current), Current)
              \/ o.r = "complete" /\ Commit(o, h)
    BY <1>5
  <2>2. Spares(node, o.n)
    BY <1>1, <1>2, <2>1, PowerSpares
  <2>3. /\ set \in Unaltered(S) /\ ClearError(Current) \in Unaltered(S)
        /\ Fail(Current, "power management error") \in Unaltered(S)
    BY <1>1, HelpersUnaltered DEF ErrorTypes
  <2> HIDE DEF set
  <2>4. h \in Unaltered(S)
    BY <2>3, HelpersUnaltered
  <2> HIDE DEF h
  <2>5. QED
    BY <2>1, <2>2, <2>3, <2>4, StayingIsHandled DEF S
<1>6. QED
  BY <1>3, <1>4, <1>5 DEF ManageHostPower

\* actionManageSteadyState.
LEMMA SteadyStateHandles ==
    ASSUME IInv, ManageSteadyState
    PROVE  Handled
<1> DEFINE S == {cache.state}
<1>1. node \in Nodes /\ Current \in Unaltered(S)
  BY CurrentUnaltered
<1> HIDE DEF S
<1>2. PICK o \in Adopt(node, cache.id, cache.state,
                       cache.errType = "provisioned registration error") :
         \/ o.r \in {"error", "unregistered"} /\ Discard(o)
         \/ o.r = "failed" /\ Commit(o, Fail(Current, "provisioned registration error"))
         \/ o.r = "dirty"  /\ CommitIfChanged(o, ClearError(Current), Current)
         \/ o.r = "complete" /\ ManageHostPower
  BY DEF ManageSteadyState
<1>3. Spares(node, o.n)
  BY <1>1, <1>2, OperationsSpare
<1>4. /\ Fail(Current, "provisioned registration error") \in Unaltered(S)
      /\ ClearError(Current) \in Unaltered(S)
  BY <1>1, HelpersUnaltered DEF ErrorTypes
<1>5. QED
  BY <1>2, <1>3, <1>4, StayingIsHandled, ManageHostPowerHandles DEF S

\* The handlers of the states of a host that is or can be provisioned.
LEMMA ServiceHandles ==
    ASSUME IInv,
           HandleExternallyProvisioned \/ HandleAvailable \/ HandleProvisioning
             \/ HandleProvisioned
    PROVE  Handled
<1> DEFINE S == {cache.state}
<1>1. /\ node \in Nodes /\ Current \in Unaltered(S) /\ Current \in Hosts
      /\ cache.image \in MaybeImage
  BY CurrentUnaltered, CacheFields DEF Unaltered
<1>2. {"provisioned", "externally provisioned", "inspecting", "preparing", "provisioning",
       "deprovisioning"} \subseteq States
  BY DEF States
<1>3. cache.state \in {"externally provisioned", "available", "provisioning", "provisioned"}
  BY DEF HandleExternallyProvisioned, HandleAvailable, HandleProvisioning, HandleProvisioned, In
<1>4. ASSUME NEW o, Spares(node, o.n), NEW T,
             NEW h \in Unaltered(S \union T), Commit(o, h)
      PROVE  Handled
  BY <1>3, <1>4, UnalteredIsHandled
<1> HIDE DEF S
<1>5. CASE HandleExternallyProvisioned
  <2> DEFINE image == IF cache.image = NoImage THEN Current.pimage ELSE cache.image
             set == [Current EXCEPT !.pimage = image]
             h == [Current EXCEPT !.pimage = image, !.state = "provisioned"]
  <2>1. ManageSteadyState \/ Commit(NoCall, h)
    BY <1>5 DEF HandleExternallyProvisioned
  <2>2. image \in MaybeImage
    BY <1>1 DEF Hosts
  <2> HIDE DEF image
  <2>3. set \in Unaltered(S)
    BY <1>1, <2>2, HelpersUnaltered
  <2>4. h = [set EXCEPT !.state = "provisioned"]
    BY <1>1 DEF Hosts
  <2> HIDE DEF h, set
  <2>5. h \in Unaltered({"provisioned"})
    BY <1>2, <2>3, <2>4, MovesUnaltered
  <2>6. h \in Unaltered(S \union {"provisioned"})
    BY <2>5 DEF Unaltered
  <2>7. QED
    BY <1>4, <2>1, <2>6, NoCallSpares, SteadyStateHandles
<1>6. CASE HandleAvailable
  <2>1. ClearSettings(Current) \in Unaltered(S) /\ ClearError(Current) \in Unaltered(S)
    BY <1>1, HelpersUnaltered
  <2>2. /\ MoveTo(Current, "inspecting", node) \in Unaltered(S \union {"inspecting"})
        /\ MoveTo(Current, "preparing", node) \in Unaltered(S \union {"preparing"})
        /\ MoveTo(ClearError(Current), "provisioning", node) \in Unaltered(S \union {"provisioning"})
    BY <1>1, <1>2, <2>1, MovesUnaltered
  <2>3. MoveTo(ClearSettings(Current), "externally provisioned", node)
          \in Unaltered(S \union {"externally provisioned"})
    BY <1>2, <2>1, MovesUnaltered
  <2>4. \/ \E s \in {"inspecting", "preparing", "provisioning", "externally provisioned"} :
              \E g \in Unaltered(S \union {s}) : Commit(NoCall, g)
        \/ ManageHostPower
    BY <1>6, <2>2, <2>3 DEF HandleAvailable
  <2>5. QED
    BY <1>4, <2>4, NoCallSpares, ManageHostPowerHandles
<1>7. CASE HandleProvisioning
  <2> DEFINE set == [Current EXCEPT !.pimage = cache.image]
             h == [Current EXCEPT !.pimage = cache.image, !.state = "provisioned"]
  <2>1. MoveTo(Current, "deprovisioning", node) \in Unaltered(S \union {"deprovisioning"})
    BY <1>1, <1>2, MovesUnaltered
  <2>2. CASE Commit(NoCall, MoveTo(Current, "deprovisioning", node))
    BY <1>4, <2>1, <2>2, NoCallSpares
  <2>3. CASE /\ ~ProvisioningCancelled(cache)
             /\ \E o \in Provision(node, cache.id, cache.image) :
                \/ o.r \in {"error", "unregistered"} /\ Discard(o)
                \/ o.r = "failed" /\ Commit(o, Fail(Current, "provisioning error"))
                \/ o.r = "dirty"  /\ CommitIfChanged(o, ClearError(Current), Current)
                \/ o.r = "complete" /\ Commit(o, ResetErrors(h))
    <3>1. cache.image \in Images
      BY <1>1, <2>3 DEF ProvisioningCancelled, MaybeImage
    <3>2. PICK o \in Provision(node, cache.id, cache.image) :
                \/ o.r \in {"error", "unregistered"} /\ Discard(o)
                \/ o.r = "failed" /\ Commit(o, Fail(Current, "provisioning error"))
                \/ o.r = "dirty"  /\ CommitIfChanged(o, ClearError(Current), Current)
                \/ o.r = "complete" /\ Commit(o, ResetErrors(h))
      BY <2>3
    <3>3. Spares(node, o.n)
      BY <1>1, <3>1, <3>2, OperationsSpare
    <3>4. /\ set \in Unaltered(S) /\ ClearError(Current) \in Unaltered(S)
          /\ Fail(Current, "provisioning error") \in Unaltered(S)
      BY <1>1, HelpersUnaltered DEF ErrorTypes
    <3>5. h = [set EXCEPT !.state = "provisioned"]
      BY <1>1 DEF Hosts
    <3> HIDE DEF h, set
    <3>6. h \in Unaltered({"provisioned"})
      BY <1>2, <3>4, <3>5, MovesUnaltered
    <3>7. ResetErrors(h) \in Unaltered(S \union {"provisioned"})
      <4>1. ResetErrors(h) \in Unaltered({"provisioned"})
        BY <3>6, HelpersUnaltered
      <4>2. QED
        BY <4>1 DEF Unaltered
    <3>8. Commit(o, ResetErrors(h)) => Handled
      BY <1>4, <3>3, <3>7
    <3>9. QED
      BY <3>2, <3>3, <3>4, <3>8, StayingIsHandled DEF S
  <2>4. QED
    BY <1>7, <2>2, <2>3 DEF HandleProvisioning
<1>8. CASE HandleProvisioned
  <2>1. MoveTo(Current, "deprovisioning", node) \in Unaltered(S \union {"deprovisioning"})
    BY <1>1, <1>2, MovesUnaltered
  <2>2. CASE Commit(NoCall, MoveTo(Current, "deprovisioning", node))
    BY <1>4, <2>1, <2>2, NoCallSpares
  <2>3. QED
    BY <1>8, <2>2, SteadyStateHandles DEF HandleProvisioned
<1>9. QED
  BY <1>5, <1>6, <1>7, <1>8

\* The ways out of a removal step that failed.
LEMMA RemovalHandles ==
    ASSUME IInv, NEW o, Spares(node, o.n)
    PROVE  /\ UnregisteredDeletion(o) => Handled
           /\ \A t \in ErrorTypes \ {"preparation error"} : FailedDeprovisioning(o, t) => Handled
           /\ Discard(o) => Handled
           /\ CommitIfChanged(o, ClearError(Current), Current) => Handled
<1> DEFINE S == {cache.state}
<1>1. node \in Nodes /\ Current \in Unaltered(S)
  BY CurrentUnaltered
<1>2. LeavingStates \subseteq States
  BY DEF LeavingStates, States
<1>3. ASSUME NEW s \in LeavingStates, NEW h \in Unaltered({s}), Commit(o, h) PROVE Handled
  <2>1. Configured(o.n, h)
    BY DEF LeavingStates, Unaltered, Configured
  <2>2. QED
    BY <1>3, <2>1, EndIsHandled
<1> HIDE DEF S
<1>4. ASSUME UnregisteredDeletion(o) PROVE Handled
  <2> DEFINE h == [Current EXCEPT !.state = "deleting"]
  <2>1. Discard(o) \/ Commit(o, h)
    BY <1>4 DEF UnregisteredDeletion
  <2>2. "deleting" \in LeavingStates
    BY DEF LeavingStates
  <2>3. h \in Unaltered({"deleting"})
    BY <1>1, <1>2, <2>2, MovesUnaltered
  <2> HIDE DEF h
  <2>4. QED
    BY <1>3, <2>1, <2>2, <2>3, StayingIsHandled
<1>5. ASSUME NEW t \in ErrorTypes \ {"preparation error"}, FailedDeprovisioning(o, t)
      PROVE  Handled
  <2> DEFINE h == Fail(Current, t)
             left == [h EXCEPT !.state = "powering off before delete"]
  <2>1. Commit(o, h) \/ Commit(o, left)
    BY <1>5 DEF FailedDeprovisioning
  <2>2. h \in Unaltered(S)
    BY <1>1, HelpersUnaltered
  <2>3. "powering off before delete" \in LeavingStates
    BY DEF LeavingStates
  <2> HIDE DEF h
  <2>4. left \in Unaltered({"powering off before delete"})
    BY <1>2, <2>2, <2>3, MovesUnaltered
  <2> HIDE DEF left
  <2>5. QED
    BY <1>3, <2>1, <2>2, <2>3, <2>4, StayingIsHandled DEF S
<1>6. ClearError(Current) \in Unaltered(S)
  BY <1>1, HelpersUnaltered
<1>7. QED
  BY <1>4, <1>5, <1>6, StayingIsHandled DEF S

\* actionDeprovisioning after Adopt.
LEMMA DeprovisionStepHandles ==
    ASSUME IInv, cache.state = "deprovisioning", DeprovisionStep
    PROVE  Handled
<1> DEFINE S == {cache.state}
           after == IF cache.deleting THEN "powering off before delete" ELSE "available"
           cleared == ClearSettings(Current)
           done == [cleared EXCEPT !.pimage = NoImage, !.state = after]
<1>1. node \in Nodes /\ Current \in Unaltered(S) /\ NoImage \in MaybeImage
  BY CurrentUnaltered, CacheFields
<1>2. after \in {"powering off before delete", "available"} /\ after \in States
  BY DEF States
<1>3. PICK o \in Deprovision(node, cache.id, cache.errType = "provisioning error") :
         \/ o.r \in {"error", "unregistered"} /\ UnregisteredDeletion(o)
         \/ o.r = "failed" /\ FailedDeprovisioning(o, "provisioning error")
         \/ o.r = "dirty"  /\ CommitIfChanged(o, ClearError(Current), Current)
         \/ o.r = "complete" /\ Commit(o, ResetErrors(done))
  BY DEF DeprovisionStep
<1>4. Spares(node, o.n)
  BY <1>1, <1>3, OperationsSpare
<1>5. ASSUME Commit(o, ResetErrors(done)) PROVE Handled
  <2> DEFINE set == [cleared EXCEPT !.pimage = NoImage]
  <2>1. cleared \in Unaltered(S)
    BY <1>1, HelpersUnaltered
  <2>2. cleared \in Hosts
    BY <2>1 DEF Unaltered
  <2> HIDE DEF cleared, after
  <2>3. set \in Unaltered(S)
    BY <1>1, <2>1, HelpersUnaltered
  <2>4. done = [set EXCEPT !.state = after]
    BY <2>2 DEF Hosts
  <2> HIDE DEF set
  <2>5. [set EXCEPT !.state = after] \in Unaltered({after})
    BY <1>2, <2>3, MovesUnaltered
  <2> HIDE DEF done
  <2>6. ResetErrors(done) \in Unaltered({after})
    BY <2>4, <2>5, HelpersUnaltered
  <2>7. Configured(o.n, ResetErrors(done))
    BY <2>6 DEF Configured, Unaltered
  <2>8. QED
    BY <1>4, <1>5, <2>7, EndIsHandled
<1>6. "provisioning error" \in ErrorTypes \ {"preparation error"}
  BY DEF ErrorTypes
<1>7. QED
  BY <1>3, <1>4, <1>5, <1>6, RemovalHandles

\* The handlers on the way out.
LEMMA RemovalHandlersHandle ==
    ASSUME IInv,
           HandleDeprovisioning \/ HandlePoweringOffBeforeDelete \/ HandleDeleting
    PROVE  Handled
<1> DEFINE S == {cache.state}
<1>1. /\ node \in Nodes /\ Current \in Unaltered(S) /\ cache \in Unaltered(S)
      /\ cache \in Hosts /\ Current \in Hosts
  BY CurrentUnaltered DEF Unaltered
<1>2. {"provisioned registration error", "power management error"}
        \subseteq ErrorTypes \ {"preparation error"}
  BY DEF ErrorTypes
<1> HIDE DEF S
<1>3. CASE HandleDeprovisioning
  <2>1. cache.state = "deprovisioning"
    BY <1>3 DEF HandleDeprovisioning, In
  <2>2. CASE DeprovisionStep
    BY <2>1, <2>2, DeprovisionStepHandles
  <2>3. CASE \E o \in Adopt(node, cache.id, cache.state,
                            cache.errType = "provisioned registration error") :
                \/ o.r \in {"error", "unregistered"} /\ UnregisteredDeletion(o)
                \/ o.r = "failed" /\ FailedDeprovisioning(o, "provisioned registration error")
                \/ o.r = "dirty"  /\ CommitIfChanged(o, ClearError(Current), Current)
                \/ o.r = "complete" /\ DeprovisionStep
    <3>1. PICK o \in Adopt(node, cache.id, cache.state,
                            cache.errType = "provisioned registration error") :
                \/ o.r \in {"error", "unregistered"} /\ UnregisteredDeletion(o)
                \/ o.r = "failed" /\ FailedDeprovisioning(o, "provisioned registration error")
                \/ o.r = "dirty"  /\ CommitIfChanged(o, ClearError(Current), Current)
                \/ o.r = "complete" /\ DeprovisionStep
      BY <2>3
    <3>2. Spares(node, o.n)
      BY <1>1, <3>1, OperationsSpare
    <3>3. QED
      BY <1>2, <2>2, <3>1, <3>2, RemovalHandles
  <2>4. QED
    BY <1>3, <2>2, <2>3 DEF HandleDeprovisioning
<1>4. CASE HandlePoweringOffBeforeDelete
  <2> DEFINE h == Fail(Current, "power management error")
             moved == [Current EXCEPT !.state = "deleting"]
             off == [Current EXCEPT !.state = "deleting", !.powered = FALSE]
  <2>1. PICK o \in PowerOff(node, cache.id, machine.power,
                            cache.errType = "power management error") :
           \/ o.r \in {"error", "unregistered"} /\ UnregisteredDeletion(o)
           \/ /\ o.r = "failed"
              /\ Commit(o, IF h.errCount > retryCount THEN [h EXCEPT !.state = "deleting"] ELSE h)
           \/ o.r = "dirty" /\ CommitIfChanged(o, ClearError(Current), Current)
           \/ o.r = "complete" /\ Commit(o, ResetErrors(off))
    BY <1>4 DEF HandlePoweringOffBeforeDelete
  <2>2. Spares(node, o.n)
    BY <1>1, <2>1, PowerSpares
  <2>3. h \in Unaltered(S)
    BY <1>1, <1>2, HelpersUnaltered
  <2>4. off = [moved EXCEPT !.powered = FALSE] /\ "deleting" \in States
    BY <1>1 DEF Hosts, States
  <2>5. moved \in Unaltered({"deleting"})
    BY <1>1, <2>4, MovesUnaltered
  <2> HIDE DEF h, moved, off
  <2>6. off \in Unaltered({"deleting"}) /\ [h EXCEPT !.state = "deleting"] \in Unaltered({"deleting"})
    BY <2>3, <2>4, <2>5, MovesUnaltered, HelpersUnaltered
  <2>7. ResetErrors(off) \in Unaltered({"deleting"})
    BY <2>6, HelpersUnaltered
  <2>8. ASSUME NEW x \in Unaltered(S) \union Unaltered({"deleting"}), Commit(o, x)
        PROVE  Handled
    <3>1. Configured(o.n, x)
      BY DEF S, Configured, Unaltered
    <3>2. QED
      BY <2>2, <2>8, <3>1, EndIsHandled
  <2>9. CASE /\ o.r = "failed"
             /\ Commit(o, IF h.errCount > retryCount THEN [h EXCEPT !.state = "deleting"] ELSE h)
    BY <2>3, <2>6, <2>8, <2>9
  <2>10. CASE o.r = "complete" /\ Commit(o, ResetErrors(off))
    BY <2>7, <2>8, <2>10
  <2>11. QED
    BY <2>1, <2>2, <2>9, <2>10, RemovalHandles
<1>5. CASE HandleDeleting
  <2> DEFINE h == [cache EXCEPT !.fin = FALSE, !.exists = FALSE]
  <2>1. PICK o \in Detach(node, cache.id, FALSE) :
           \/ o.r = "complete" /\ Commit(o, h)
           \/ o.r # "complete" /\ Discard(o)
    BY <1>5 DEF HandleDeleting, Delete
  <2>2. Spares(node, o.n)
    <3>1. ASSUME NEW force \in BOOLEAN, o \in Detach(node, cache.id, force)
          PROVE  Spares(node, o.n)
      BY <1>1, <3>1, DetachSpares
    <3>2. QED
      BY <2>1, <3>1
  <2>3. h \in Unaltered(S)
    BY <1>1 DEF Unaltered, Carries, Vol, Hosts
  <2> HIDE DEF h
  <2>4. QED
    BY <2>1, <2>2, <2>3, StayingIsHandled DEF S
<1>6. QED
  BY <1>3, <1>4, <1>5

\* Whatever a reconcile finds, it treats node and settings as Handled says.
LEMMA ReconcileIsHandled ==
    ASSUME IInv, Reconcile
    PROVE  Handled
BY EarlyStepsHandle, RegisterHostHandles, RegistrationHandles, PreparingHandles, ServiceHandles,
   RemovalHandlersHandle DEF Reconcile

-----------------------------------------------------------------------------
(***************************************************************************)
(* The invariant.  SettingsApplied is not inductive: while a host is being *)
(* prepared the recorded settings may still be on their way, so that the   *)
(* cleaning that applies them has to be known (SettingsArrive), as well as *)
(* what an old copy of the host could have applied instead.                *)
(***************************************************************************)
\* The states without volumes on record, and those in which they have arrived.
UnsetStates == {"none", "unmanaged", "registering"}
SetStates == {"inspecting", "available", "externally provisioned", "provisioning",
              "provisioned", "deprovisioning"}

NoPreparationError ==
    host.errType # "preparation error" /\ cache.errType # "preparation error"

SettingsStay ==
    /\ host.state \in UnsetStates => Vol(host) = "none"
    /\ host.state \in SetStates /\ Vol(host) # "none" => machine.raid = Vol(host)
    /\ host.state \in {"provisioning", "deprovisioning"} =>
          cache.state # "preparing" /\ ~Applying(node)

\* The volumes on record are the next to be cleaned for, and nothing forgets them.
Recorded(h, n) ==
    /\ Vol(h) # "none" /\ Vol(h) = Goal(h)
    /\ GetNode(n, h.id) \/ Vol(h) = "hardware"

\* Volumes that are recorded before they exist are those that Ironic is creating.
SettingsArrive ==
    host.state = "preparing" =>
        /\ node.ps # "clean failed"
        /\ cache.state = "preparing" => cache.raid = host.raid /\ Goal(cache) = Goal(host)
        /\ Applying(node) => node.raid = Goal(host)
        /\ Recorded(host, node) => machine.raid = Vol(host) \/ Applying(node)

SettingsInv == NoPreparationError /\ SettingsStay /\ SettingsArrive

\* A reconcile leaves a cleaning that applies settings alone, or starts one.
LEMMA HandledApplies ==
    ASSUME Handled, Applying(node')
    PROVE  \/ Applying(node) /\ node'.raid = node.raid
           \/ Begins(node')
BY DEF Handled, Spares, Applying, Running

\* While a host is being prepared, settings that are being applied go on being applied.
LEMMA DriveKeepsApplying ==
    ASSUME DiskInv, Reconciled, Handled, Undisturbed, host.state = "preparing",
           Applying(node), node'.ps # "absent"
    PROVE  Applying(node')
<1>1. /\ cache.state \in {"registering", "inspecting", "available", "preparing"}
      /\ node.ps \in Running /\ node'.ps # "clean failed"
  BY DEF DiskInv, Behind, Applying, Undisturbed
<1>2. node'.ps = node.ps \/ node'.ps \in Targets(cache, node.ps)
  BY <1>1 DEF Reconciled, Drive, Running
<1>3. \A to \in Targets(cache, node.ps) : to = "clean failed"
  BY <1>1 DEF Targets, AbortTargets, InspectTargets, RepairTargets, PrepareTargets, Running,
              RunningStates
<1>4. node'.ps = node.ps
  BY <1>1, <1>2, <1>3
<1>5. node'.manual = node.manual
  BY <1>1, <1>4 DEF Handled, Spares, Begins, Applies, Running
<1>6. QED
  BY <1>4, <1>5 DEF Applying

\* A reconcile brings back no node that the host has recorded.
LEMMA DriveKeepsNode ==
    ASSUME IInv, Reconciled, GetNode(node', host.id)
    PROVE  GetNode(node, host.id)
<1>1. node.uuid \in Nat /\ host.id \in Nat /\ host.id <= node.uuid
  BY DEF IInv, TypeOK, Nodes, Hosts, Safe
<1>2. QED
  BY <1>1 DEF Reconciled, Drive, GetNode

\* The goal of a host that is being prepared does not change.
LEMMA GoalStays ==
    ASSUME cache \in Hosts, NEW h \in Hosts, NEW m, Configured(m, h)
    PROVE  Goal(h) = Goal(cache)
<1>1. h.raid = cache.raid
  BY DEF Configured
<1>2. \/ Vol(h) = Vol(cache)
      \/ Vol(cache) = "software" /\ Vol(h) = "none"
      \/ Vol(h) = Goal(cache)
  BY DEF Configured, Carries
<1>3. QED
  BY <1>1, <1>2, GoalOfHost

\* A reconcile whose host is not written keeps the invariant.
LEMMA UnsavedKeepsSettings ==
    ASSUME IInv, DiskInv, SettingsInv, Reconciled, Handled, Undisturbed, host' = host
    PROVE  SettingsInv'
<1>1. cache' = cache /\ machine' = machine
  BY DEF Reconciled
<1>2. NoPreparationError'
  BY <1>1 DEF SettingsInv, NoPreparationError
<1>3. SettingsStay'
  <2>1. host.state \in {"provisioning", "deprovisioning"} => ~Applying(node')
    BY HandledApplies DEF SettingsInv, SettingsStay, Begins
  <2>2. QED
    BY <1>1, <2>1 DEF SettingsInv, SettingsStay, Vol
<1>4. SettingsArrive'
  <2>1. SUFFICES ASSUME host.state = "preparing"
                 PROVE  /\ node'.ps # "clean failed"
                        /\ cache.state = "preparing" =>
                              cache.raid = host.raid /\ Goal(cache) = Goal(host)
                        /\ Applying(node') => node'.raid = Goal(host)
                        /\ Recorded(host, node') => machine.raid = Vol(host) \/ Applying(node')
    BY <1>1 DEF SettingsArrive, Recorded, Vol, Goal, TargetRAID
  <2>2. /\ cache.state = "preparing" => cache.raid = host.raid /\ Goal(cache) = Goal(host)
        /\ Applying(node) => node.raid = Goal(host)
        /\ Recorded(host, node) => machine.raid = Vol(host) \/ Applying(node)
    BY <2>1 DEF SettingsInv, SettingsArrive
  <2>3. Applying(node') => node'.raid = Goal(host)
    BY <2>2, HandledApplies DEF Begins, Applies
  <2>4. ASSUME Recorded(host, node') PROVE machine.raid = Vol(host) \/ Applying(node')
    <3>1. Recorded(host, node)
      BY <2>4, DriveKeepsNode DEF Recorded
    <3>2. Applying(node) => node'.ps # "absent"
      BY <2>1, <2>4 DEF Recorded, GetNode, Undisturbed, Vol, Applying, Running
    <3>3. QED
      BY <2>1, <2>2, <3>1, <3>2, DriveKeepsApplying
  <2>5. QED
    BY <2>1, <2>2, <2>3, <2>4 DEF Undisturbed
<1>5. QED
  BY <1>2, <1>3, <1>4 DEF SettingsInv

\* So does one that leaves the host in its state.
LEMMA StayingKeepsSettings ==
    ASSUME IInv, IInv', DiskInv, SettingsInv, Reconciled, Handled, Undisturbed,
           cache = host, Configured(node', host'), host'.state = host.state
    PROVE  SettingsStay' /\ SettingsArrive'
<1>1. cache' = host /\ machine' = machine /\ host \in Hosts /\ host' \in Hosts
  BY DEF Reconciled, IInv, TypeOK
<1>2. SettingsStay'
  <2>1. host.state \in {"provisioning", "deprovisioning"} => ~Applying(node')
    BY HandledApplies DEF SettingsInv, SettingsStay, Begins
  <2>2. host.state # "preparing" => Vol(host') \in {"none", Vol(host)}
    BY DEF Configured, Carries
  <2>3. QED
    BY <1>1, <2>1, <2>2 DEF SettingsInv, SettingsStay, UnsetStates, SetStates, Vol
<1>3. SettingsArrive'
  <2>0. host.raid = host'.raid /\ Goal(host') = Goal(host)
    BY <1>1, GoalStays DEF Configured
  <2>1. SUFFICES ASSUME host.state = "preparing"
                 PROVE  /\ node'.ps # "clean failed"
                        /\ Applying(node') => node'.raid = Goal(host')
                        /\ Recorded(host', node') => machine.raid = Vol(host') \/ Applying(node')
    BY <1>1, <2>0 DEF SettingsArrive, Recorded, Vol, Goal, TargetRAID
  <2>2. /\ Applying(node) => node.raid = Goal(host)
        /\ Recorded(host, node) => machine.raid = Vol(host) \/ Applying(node)
    BY <2>1 DEF SettingsInv, SettingsArrive
  <2>3. Applying(node') => node'.raid = Goal(host')
    BY <2>0, <2>2, HandledApplies DEF Begins, Applies
  <2>4. ASSUME Recorded(host', node'), ~Applying(node')
        PROVE  machine.raid = Vol(host')
    <3>1. ~Begins(node')
      BY <2>4 DEF Begins, Applies, Applying, Running
    <3>2. Carries(host')
      BY <3>1 DEF Configured
    <3>3. /\ Vol(host') = Vol(host)
          /\ Vol(host) = "hardware" \/ host'.id = host.id
      BY <1>1, <2>1, <2>4, <3>2, GoalOfHost DEF Recorded, Carries, RAIDs
    <3>4. Recorded(host, node)
      BY <2>0, <2>4, <3>3, DriveKeepsNode DEF Recorded
    <3>5. Applying(node) => node'.ps # "absent"
      BY <2>1, <2>4, <3>3 DEF Recorded, GetNode, Undisturbed, Vol, Applying, Running
    <3>6. ~Applying(node)
      BY <2>1, <2>4, <3>5, DriveKeepsApplying
    <3>7. QED
      BY <2>2, <3>3, <3>4, <3>6
  <2>5. QED
    BY <2>1, <2>3, <2>4 DEF Undisturbed
<1>4. QED
  BY <1>2, <1>3

\* So does one that moves the host to the next state: a host becomes available only
\* when the volumes on record have arrived.
LEMMA MovingKeepsSettings ==
    ASSUME IInv, DiskInv, SettingsInv, Reconciled, cache = host, node' = node,
           Configured(node', host'), host'.state \in NextStates(host, node),
           host'.state # host.state
    PROVE  SettingsStay' /\ SettingsArrive'
<1>1. cache' = host /\ machine' = machine /\ host \in Hosts
  BY DEF Reconciled, IInv, TypeOK
<1>2. Vol(host') \in {"none", Vol(host)}
  BY DEF Configured, Carries, Begins, Applies, Running
<1>3. /\ host.state \in UnsetStates => Vol(host) = "none"
      /\ host.state \in SetStates /\ Vol(host) # "none" => machine.raid = Vol(host)
  BY DEF SettingsInv, SettingsStay
<1>4. Stage(host.state, node.ps)
  BY DEF DiskInv
<1>5. host'.state \in UnsetStates => host.state \in UnsetStates
  BY DEF NextStates, UnsetStates
<1>6. ASSUME host'.state \in SetStates, Vol(host') # "none" PROVE machine.raid = Vol(host')
  <2>1. Vol(host') = Vol(host)
    BY <1>2, <1>6
  <2>2. CASE host.state = "preparing"
    <3>1. /\ host'.state = "available" /\ node.ps \in {"available", "manageable"}
          /\ ~Unprepared(host)
      BY <2>2 DEF NextStates
    <3>2. Goal(host) = Vol(host)
      BY <1>1, <3>1, PreparedHasGoal DEF SettingsInv, NoPreparationError
    <3>3. GetNode(node, host.id)
      BY <2>2, <3>1 DEF Configured
    <3>4. ~Applying(node)
      BY <3>1 DEF Applying, Running
    <3>5. QED
      BY <1>6, <2>1, <2>2, <3>2, <3>3, <3>4 DEF SettingsInv, SettingsArrive, Recorded
  <2>3. CASE host.state # "preparing"
    <3>1. host.state \in UnsetStates \union SetStates
      BY <2>3 DEF NextStates, UnsetStates, SetStates
    <3>2. QED
      BY <1>3, <1>6, <2>1, <3>1
  <2>4. QED
    BY <2>2, <2>3
<1>7. ASSUME host'.state \in {"preparing", "provisioning", "deprovisioning"}
      PROVE  host.state # "preparing" /\ ~Applying(node)
  <2>1. host.state \in {"registering", "inspecting", "available", "provisioning", "provisioned"}
    BY <1>7 DEF NextStates
  <2>2. CASE host.state = "provisioning"
    BY <2>2 DEF SettingsInv, SettingsStay
  <2>3. CASE host.state # "provisioning"
    BY <1>4, <2>1, <2>3
       DEF Stage, Early, Inspections, Adoptions, RunningStates, Applying, Running
  <2>4. QED
    BY <2>1, <2>2, <2>3
<1>8. SettingsStay'
  BY <1>1, <1>2, <1>3, <1>5, <1>6, <1>7 DEF SettingsStay, Vol
<1>9. SettingsArrive'
  <2>1. SUFFICES ASSUME host'.state = "preparing"
                 PROVE  /\ node.ps # "clean failed" /\ host.state # "preparing" /\ ~Applying(node)
                        /\ Vol(host') # "none" => machine.raid = Vol(host')
    BY <1>1 DEF SettingsArrive, Recorded, Vol
  <2>2. host.state \in {"registering", "inspecting", "available"}
    BY <2>1 DEF NextStates
  <2>3. node.ps # "clean failed"
    BY <1>4, <2>2 DEF Stage, Early, Inspections
  <2>4. QED
    BY <1>2, <1>3, <1>7, <2>1, <2>2, <2>3 DEF UnsetStates, SetStates
<1>10. QED
  BY <1>8, <1>9

\* A reconcile keeps the invariant.
LEMMA HandledKeepsSettings ==
    ASSUME IInv, IInv', DiskInv, SettingsInv, Reconciled, Handled, Undisturbed
    PROVE  SettingsInv'
<1>1. CASE host' = host
  BY <1>1, UnsavedKeepsSettings
<1>2. CASE host' # host
  <2>1. /\ cache = host /\ Configured(node', host') /\ Written(node', host') /\ cache' = cache
    BY <1>2 DEF Handled, Reconciled
  <2>2. NoPreparationError'
    BY <2>1 DEF SettingsInv, NoPreparationError, SettingsArrive, Configured
  <2>3. CASE host'.state = host.state
    BY <2>1, <2>2, <2>3, StayingKeepsSettings DEF SettingsInv
  <2>4. CASE host'.state \in LeavingStates
    <3>1. SettingsStay' /\ SettingsArrive'
      BY <2>4 DEF LeavingStates, SettingsStay, SettingsArrive, UnsetStates, SetStates
    <3>2. QED
      BY <2>2, <3>1 DEF SettingsInv
  <2>5. CASE node' = node /\ host'.state \in NextStates(host, node) /\ host'.state # host.state
    BY <2>1, <2>2, <2>5, MovingKeepsSettings DEF SettingsInv
  <2>6. QED
    BY <2>1, <2>3, <2>4, <2>5 DEF Written, LeavingStates
<1>3. QED
  BY <1>1, <1>2

\* An edit keeps the invariant.
LEMMA EditedKeepsSettings ==
    ASSUME SettingsInv, Edited, Undisturbed
    PROVE  SettingsInv'
<1>1. /\ Vol(host') = Vol(host)
      /\ host.state = "preparing" => Goal(host') = Goal(host)
  BY DEF Edited, Undisturbed, Vol, Goal, TargetRAID
<1>2. NoPreparationError'
  BY DEF SettingsInv, NoPreparationError, Edited
<1>3. SettingsStay'
  BY <1>1 DEF SettingsInv, SettingsStay, Edited, Vol
<1>4. SettingsArrive'
  <2>1. SUFFICES ASSUME host.state = "preparing"
                 PROVE  /\ node.ps # "clean failed"
                        /\ cache.state = "preparing" =>
                              cache.raid = host'.raid /\ Goal(cache) = Goal(host')
                        /\ Applying(node) => node.raid = Goal(host')
                        /\ Recorded(host', node) => machine.raid = Vol(host') \/ Applying(node)
    BY DEF Edited, SettingsArrive, Recorded, Vol, Goal, TargetRAID
  <2>2. host'.id = host.id /\ host'.raid = host.raid
    BY <2>1 DEF Edited, Undisturbed
  <2>3. QED
    BY <1>1, <2>1, <2>2 DEF SettingsInv, SettingsArrive, Recorded
<1>5. QED
  BY <1>2, <1>3, <1>4 DEF SettingsInv

\* What Ironic does to the settings of the machine: only a manual cleaning that ends
\* changes them, and the settings on their way arrive, unless the cleaning fails.
LEMMA WorkOnSettings ==
    ASSUME NEW n \in Nodes, n.ps \in Transient, NEW m \in Machines
    PROVE  /\ Applying(Progress(n)) => Applying(n) /\ Progress(n).raid = n.raid
           /\ Applying(n) => \/ Applying(Progress(n)) /\ ProgressMachine(n, m).raid = m.raid
                             \/ ProgressMachine(n, m).raid = n.raid
           /\ ~Applying(n) => ProgressMachine(n, m).raid = m.raid
           /\ ~Applying(Failure(n))
           /\ Applying(n) => Failure(n).ps = "clean failed"
<1>1. n.manual \in BOOLEAN
  BY DEF Nodes
<1>2. /\ n.ps = "clean wait" => ProgressMachine(n, m).raid = IF n.manual THEN n.raid ELSE m.raid
      /\ n.ps # "clean wait" => ProgressMachine(n, m).raid = m.raid
  BY DEF ProgressMachine, Machines
<1>3. Failure(n).ps \notin Running /\ (n.ps \in Running => Failure(n).ps = "clean failed")
  BY IronicWorks DEF Running, Transient, Busy
<1>4. CASE n.ps = "cleaning"
  <2>1. Progress(n) = [n EXCEPT !.ps = "clean wait"]
    BY <1>4 DEF Progress
  <2>2. Progress(n).ps = "clean wait" /\ Progress(n).manual = n.manual /\ Progress(n).raid = n.raid
    BY <2>1 DEF Nodes
  <2>3. QED
    BY <1>2, <1>3, <1>4, <2>2 DEF Applying, Running
<1>5. CASE n.ps = "clean wait"
  <2>1. Progress(n).ps \notin Running
    BY <1>5, IronicWorks DEF Running
  <2>2. QED
    BY <1>1, <1>2, <1>3, <1>5, <2>1 DEF Applying, Running
<1>6. CASE n.ps = "deleting"
  <2>1. Progress(n) = [n EXCEPT !.ps = "cleaning", !.img = NoImage, !.manual = FALSE, !.raid = "none"]
    BY <1>6 DEF Progress
  <2>2. ~Progress(n).manual
    BY <2>1 DEF Nodes
  <2>3. QED
    BY <1>2, <1>3, <1>6, <2>2 DEF Applying, Running
<1>7. CASE n.ps \notin {"cleaning", "clean wait", "deleting"}
  <2>1. Progress(n).ps \notin Running
    <3>1. CASE n.ps \in {"verifying", "inspecting", "inspect wait", "adopting"}
      BY <3>1, IronicWorks DEF Running
    <3>2. CASE n.ps \in {"deploying", "deploy wait"}
      BY <3>2 DEF Progress, Nodes, Running
    <3>3. QED
      BY <1>7, <3>1, <3>2 DEF Transient, Busy
  <2>2. QED
    BY <1>2, <1>3, <1>7, <2>1 DEF Applying, Running
<1>8. QED
  BY <1>4, <1>5, <1>6, <1>7

\* A step of Ironic keeps the invariant.
LEMMA WorkedKeepsSettings ==
    ASSUME IInv, DiskInv, SettingsInv, Worked, Undisturbed
    PROVE  SettingsInv'
<1>1. node \in Nodes /\ machine \in Machines /\ host' = host /\ cache' = cache
  BY DEF IInv, TypeOK, Worked
<1>0. Vol(host)' = Vol(host) /\ Goal(host)' = Goal(host) /\ Goal(cache)' = Goal(cache)
  BY <1>1 DEF Vol, Goal, TargetRAID
<1>2. NoPreparationError'
  BY <1>1 DEF SettingsInv, NoPreparationError
<1>3. CASE /\ node'.ps = node.ps /\ node'.uuid = node.uuid
           /\ node'.manual = node.manual /\ node'.raid = node.raid
           /\ machine'.raid = machine.raid
  BY <1>1, <1>2, <1>3, <1>0 DEF SettingsInv, SettingsStay, SettingsArrive, Recorded, Applying, GetNode
<1>4. CASE node'.ps = "absent" /\ machine'.raid = machine.raid
  <2>1. ~Applying(node') /\ ~GetNode(node', host.id)
    BY <1>4 DEF Applying, Running, GetNode
  <2>2. host.state = "preparing" /\ Vol(host) = "hardware" => ~Applying(node)
    BY <1>4 DEF Undisturbed, Applying, Running, Vol
  <2>3. QED
    BY <1>1, <1>2, <1>4, <1>0, <2>1, <2>2 DEF SettingsInv, SettingsStay, SettingsArrive, Recorded
<1>5. CASE /\ node.ps \in Transient
           /\ \/ node' = Progress(node) /\ machine' = ProgressMachine(node, machine)
              \/ node' = Failure(node) /\ machine' = machine
  <2>1. /\ Applying(node') => Applying(node) /\ node'.raid = node.raid
        /\ Applying(node) => \/ Applying(node') /\ machine'.raid = machine.raid
                             \/ machine'.raid = node.raid
                             \/ node'.ps = "clean failed"
        /\ ~Applying(node) => machine'.raid = machine.raid
        /\ node'.uuid = node.uuid /\ node.ps # "absent"
    <3>1. node.ps # "absent" /\ Progress(node).uuid = node.uuid /\ Failure(node).uuid = node.uuid
      BY <1>1, <1>5, IronicWorks DEF Transient, Busy
    <3>2. CASE node' = Progress(node) /\ machine' = ProgressMachine(node, machine)
      BY <1>1, <1>5, <3>1, <3>2, WorkOnSettings
    <3>3. CASE node' = Failure(node) /\ machine' = machine
      BY <1>1, <1>5, <3>1, <3>3, WorkOnSettings
    <3>4. QED
      BY <1>5, <3>2, <3>3
  <2>2. host.state \in SetStates => ~Applying(node)
    BY DEF SetStates, SettingsInv, SettingsStay, DiskInv, Stage, Early, Inspections, Adoptions,
           RunningStates, Applying, Running
  <2>3. SettingsStay'
    BY <1>1, <1>0, <2>1, <2>2 DEF SettingsInv, SettingsStay
  <2>4. SettingsArrive'
    <3>1. SUFFICES ASSUME host.state = "preparing"
                   PROVE  /\ node'.ps # "clean failed"
                          /\ Applying(node') => node'.raid = Goal(host)
                          /\ Recorded(host, node') => machine'.raid = Vol(host) \/ Applying(node')
      BY <1>1, <1>0 DEF SettingsInv, SettingsArrive, Recorded
    <3>2. /\ Applying(node) => node.raid = Goal(host)
          /\ Recorded(host, node) => machine.raid = Vol(host) \/ Applying(node)
          /\ node'.ps # "clean failed"
      BY <3>1 DEF SettingsInv, SettingsArrive, Undisturbed
    <3>3. Recorded(host, node') => Recorded(host, node) /\ Vol(host) = Goal(host)
      BY <2>1 DEF Recorded, GetNode
    <3>4. QED
      BY <2>1, <3>2, <3>3
  <2>5. QED
    BY <1>2, <2>3, <2>4 DEF SettingsInv
<1>6. QED
  BY <1>3, <1>4, <1>5 DEF Worked

\* A delivery to the cache keeps the invariant.
LEMMA SyncKeepsSettings ==
    ASSUME SettingsInv, SyncCache
    PROVE  SettingsInv'
<1>1. host' = host /\ cache' = host /\ node' = node /\ machine' = machine
  BY DEF SyncCache
<1>2. Vol(host)' = Vol(host) /\ Goal(host)' = Goal(host) /\ Goal(cache)' = Goal(host)
  BY <1>1 DEF Vol, Goal, TargetRAID
<1>3. QED
  BY <1>1, <1>2 DEF SettingsInv, NoPreparationError, SettingsStay, SettingsArrive, Recorded

\* The invariant holds initially.
LEMMA InitHasSettings == Init => SettingsInv
<1> SUFFICES ASSUME Init PROVE SettingsInv
  OBVIOUS
<1>0. PICK bmc \in BOOLEAN, image \in MaybeImage, ext \in BOOLEAN, inspect \in BOOLEAN :
         host = NewHost(bmc, image, ext, inspect)
  BY DEF Init
<1>1. Vol(host) = "none" /\ host.state = "none" /\ host.errType = "none" /\ cache = host
  BY <1>0 DEF Init, NewHost, Vol, Volumes
<1>2. QED
  BY <1>1 DEF SettingsInv, NoPreparationError, SettingsStay, SettingsArrive, UnsetStates, SetStates

\* Every undisturbed step keeps the invariant.
LEMMA NextKeepsSettings ==
    IInv /\ IInv' /\ DiskInv /\ SettingsInv /\ [Next]_vars /\ [Undisturbed]_vars => SettingsInv'
<1> SUFFICES ASSUME IInv, IInv', DiskInv, SettingsInv, [Next]_vars, [Undisturbed]_vars
             PROVE  SettingsInv'
  OBVIOUS
<1>1. CASE UNCHANGED vars
  BY <1>1 DEF vars, SettingsInv, NoPreparationError, SettingsStay, SettingsArrive, Recorded,
              Vol, Goal, TargetRAID
<1>2. CASE Undisturbed /\ Reconcile
  BY <1>2, ReconcileIsReconciled, ReconcileIsHandled, HandledKeepsSettings
<1>3. CASE Undisturbed /\ User
  BY <1>3, UserEdits, EditedKeepsSettings
<1>4. CASE Undisturbed /\ Environment
  BY <1>4, EnvironmentWorks, WorkedKeepsSettings, SyncKeepsSettings
<1>5. QED
  BY <1>1, <1>2, <1>3, <1>4 DEF Next

\* A prepared host has the RAID volumes that its status reports, for any images, edits,
\* faults and bounds, as long as no host is disturbed in Preparing (nobody edits its RAID
\* configuration, no cleaning fails or is aborted, and Ironic does not lose a node that is
\* being cleaned while hardware volumes are on record): stale copies, saves and calls that
\* fail, an Ironic database that is lost at another time or with software volumes,
\* re-registration, detaching and every other edit do not make handlePreparing report
\* volumes that are not there.  Without that premise the property fails (run
\* unapplied_settings).
THEOREM SettingsAppliedUndisturbed == Spec /\ [][Undisturbed]_vars => []SettingsApplied
<1>1. IInv /\ DiskInv /\ SettingsInv => SettingsApplied
  BY DEF SettingsInv, SettingsStay, SetStates, SettingsApplied, Vol
<1>2. QED
  BY <1>1, DiskInvariant, InitHasSettings, NextKeepsSettings, PTL DEF Spec

==============================================================================
