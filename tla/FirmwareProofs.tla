---------------------------- MODULE FirmwareProofs ----------------------------
(***************************************************************************)
(* Proofs about firmware settings and updates, for any values, updates,    *)
(* edits and bounds, with copies of every object that may be stale: only   *)
(* firmware that was validated reaches Ironic, an update is recorded only  *)
(* once it was sent, and as long as no step fails a recorded update is on  *)
(* the host or on its way there.                                           *)
(***************************************************************************)
EXTENDS Firmware, TLAPS

(***************************************************************************)
(* The inductive invariant, part by part.                                  *)
(***************************************************************************)
\* Both conditions are true of this generation of the object.
Approved(object) ==
    /\ object.changed.gen = object.gen
    /\ object.changed.status = "True" /\ object.valid.status = "True"

\* The HostFirmwareSettings and its copies. A copy that is marked as the latest is
\* the object at the API server, so that a write that is accepted starts from what
\* is there. No condition is ahead of its object, whose generations the edits pay
\* for. Conditions that approve of an object, or of a copy the cache still holds,
\* approve of the spec it has.
SettingsInv ==
    /\ hfs \in SettingsObjects /\ cache.hfs \in SettingsObjects
    /\ cache.hfsFresh \in BOOLEAN /\ (cache.hfsFresh => cache.hfs = hfs)
    /\ hfs.changed.gen <= hfs.gen /\ hfs.gen + budget.edits <= MaxEdits + 1
    /\ \A o \in {hfs, cache.hfs} : Approved(o) => ValidSettings(o.spec)

\* The same of the HostFirmwareComponents; what any copy records as done was sent.
ComponentsInv ==
    /\ hfc \in ComponentsObjects /\ cache.hfc \in ComponentsObjects
    /\ cache.hfcFresh \in BOOLEAN /\ (cache.hfcFresh => cache.hfc = hfc)
    /\ hfc.changed.gen <= hfc.gen /\ hfc.gen + budget.edits <= MaxEdits + 1
    /\ \A o \in {hfc, cache.hfc} : Approved(o) => ValidUpdates(o.spec)
    /\ hfc.updates \cup cache.hfc.updates \subseteq node.sent

CleanStates == {"available", "manageable", "cleaning", "clean failed"}
ServiceStates == {"active", "servicing", "service wait", "service failed"}
Running == {"cleaning", "servicing", "service wait"}

\* A node has a job only while it runs one, and never an invalid one.
NodeOK(n) ==
    /\ n \in NodeRecords
    /\ n.job.setting # Invalid /\ Invalid \notin n.sent
    /\ n.state \notin Running => n.job = NoJob

\* The node is in a state that the host's state can lead to. Preparing and available
\* have the same: a copy that is still preparing may start a clean step of a host
\* that was saved as available.
Fits(state, n) == n.state \in IF state = "provisioned" THEN ServiceStates ELSE CleanStates

\* Without failures, updates that were sent to a node that is cleaned are flashed
\* or in the running job.
Unfailed(n) ==
    n.state \in CleanStates =>
        n.sent \subseteq n.flashed \cup n.job.updates /\ n.state # "clean failed"

\* The rest of the type invariant.
RestOK ==
    /\ cache \in [hfs : SettingsObjects, hfc : ComponentsObjects,
                  hfsFresh : BOOLEAN, hfcFresh : BOOLEAN]
    /\ policy \in [settings : BOOLEAN, updates : BOOLEAN]
    /\ host \in HostRecords /\ seen \in [host : HostRecords, fresh : BOOLEAN]
    /\ budget \in [edits : 0 .. MaxEdits, faults : 0 .. MaxFaults, failures : 0 .. MaxFailures]

IInv ==
    /\ RestOK /\ SettingsInv /\ ComponentsInv
    /\ NodeOK(node) /\ Fits(host.state, node) /\ Fits(seen.host.state, node)
    /\ NoFailureYet => Unfailed(node)

(***************************************************************************)
(* The objects: types of what is written.                                  *)
(***************************************************************************)
\* A condition that is written has the generation of the copy it is about.
LEMMA ConditionType ==
    ASSUME NEW s \in BOOLEAN, NEW g \in 0 .. MaxEdits + 1
    PROVE  /\ Condition(s, g) \in Conditions /\ Condition(s, g).gen = g
           /\ Condition(s, g).status = "True" <=> s
BY DEF Condition, Conditions

\* What updateStatus writes approves of the spec only if the schema allows it, and
\* changes neither the spec nor the generation.
LEMMA ObservedSettingsChecked ==
    ASSUME NEW copy \in SettingsObjects, node.bios \in Values
    PROVE  LET new == ObservedSettings(copy)
           IN  /\ new \in SettingsObjects
               /\ new.gen = copy.gen /\ new.changed.gen = copy.gen
               /\ Approved(new) => ValidSettings(new.spec)
<1> DEFINE mismatch == copy.spec \notin {None, node.bios}
           changed == Condition(mismatch, copy.gen)
           valid == Condition(mismatch => ValidSettings(copy.spec), copy.gen)
           new == [copy EXCEPT !.settings = node.bios, !.changed = changed, !.valid = valid]
<1>1. mismatch \in BOOLEAN /\ (mismatch => ValidSettings(copy.spec)) \in BOOLEAN
      /\ copy.gen \in 0 .. MaxEdits + 1
  BY DEF SettingsObjects, ValidSettings
<1>2. /\ changed \in Conditions /\ changed.gen = copy.gen /\ (changed.status = "True" <=> mismatch)
      /\ valid \in Conditions /\ (valid.status = "True" <=> (mismatch => ValidSettings(copy.spec)))
  BY <1>1, ConditionType
<1> HIDE DEF mismatch, changed, valid
<1>3. /\ new \in SettingsObjects /\ new.gen = copy.gen /\ new.spec = copy.spec
      /\ new.changed = changed /\ new.valid = valid
  BY <1>2 DEF SettingsObjects
<1>4. Approved(new) => ValidSettings(new.spec)
  BY <1>2, <1>3 DEF Approved
<1>5. ObservedSettings(copy) = new
  BY DEF ObservedSettings, mismatch, changed, valid
<1>6. QED
  BY <1>2, <1>3, <1>4, <1>5

\* The same for the components.
LEMMA ObservedComponentsChecked ==
    ASSUME NEW copy \in ComponentsObjects, node.flashed \subseteq Updates
    PROVE  LET new == ObservedComponents(copy)
           IN  /\ new \in ComponentsObjects
               /\ new.gen = copy.gen /\ new.changed.gen = copy.gen
               /\ new.updates = copy.updates
               /\ Approved(new) => ValidUpdates(new.spec)
<1> DEFINE mismatch == copy.spec # copy.updates
           changed == Condition(mismatch, copy.gen)
           valid == Condition(mismatch => ValidUpdates(copy.spec), copy.gen)
           new == [copy EXCEPT !.components = node.flashed, !.changed = changed, !.valid = valid]
<1>1. mismatch \in BOOLEAN /\ (mismatch => ValidUpdates(copy.spec)) \in BOOLEAN
      /\ copy.gen \in 0 .. MaxEdits + 1
  BY DEF ComponentsObjects, ValidUpdates
<1>2. /\ changed \in Conditions /\ changed.gen = copy.gen /\ (changed.status = "True" <=> mismatch)
      /\ valid \in Conditions /\ (valid.status = "True" <=> (mismatch => ValidUpdates(copy.spec)))
  BY <1>1, ConditionType
<1> HIDE DEF mismatch, changed, valid
<1>3. /\ new \in ComponentsObjects /\ new.gen = copy.gen /\ new.spec = copy.spec
      /\ new.updates = copy.updates /\ new.changed = changed /\ new.valid = valid
  BY <1>2 DEF ComponentsObjects
<1>4. Approved(new) => ValidUpdates(new.spec)
  BY <1>2, <1>3 DEF Approved
<1>5. ObservedComponents(copy) = new
  BY DEF ObservedComponents, mismatch, changed, valid
<1>6. QED
  BY <1>2, <1>3, <1>4, <1>5

(***************************************************************************)
(* Steps and objects.                                                      *)
(***************************************************************************)
\* A step that leaves the settings and the copy of them alone, and at most marks
\* the copy as old.
LEMMA SettingsKept ==
    ASSUME RestOK, RestOK', SettingsInv, UNCHANGED hfs, cache'.hfs = cache.hfs,
           cache'.hfsFresh \in {cache.hfsFresh, FALSE}, budget'.edits <= budget.edits
    PROVE  SettingsInv'
<1>1. hfs.gen \in 0 .. MaxEdits + 1 /\ budget.edits \in 0 .. MaxEdits /\ budget'.edits \in 0 .. MaxEdits
      /\ MaxEdits \in Nat
  BY FirmwareAssumption DEF SettingsInv, SettingsObjects, RestOK
<1>2. hfs.gen + budget'.edits <= MaxEdits + 1
  BY <1>1 DEF SettingsInv
<1>3. QED
  BY <1>2 DEF SettingsInv, Approved, ValidSettings

\* The same for the components.
LEMMA ComponentsKept ==
    ASSUME RestOK, RestOK', ComponentsInv, UNCHANGED hfc, cache'.hfc = cache.hfc,
           cache'.hfcFresh \in {cache.hfcFresh, FALSE}, budget'.edits <= budget.edits,
           node.sent \subseteq node'.sent
    PROVE  ComponentsInv'
<1>1. hfc.gen \in 0 .. MaxEdits + 1 /\ budget.edits \in 0 .. MaxEdits /\ budget'.edits \in 0 .. MaxEdits
      /\ MaxEdits \in Nat
  BY FirmwareAssumption DEF ComponentsInv, ComponentsObjects, RestOK
<1>2. hfc.gen + budget'.edits <= MaxEdits + 1
  BY <1>1 DEF ComponentsInv
<1>3. QED
  BY <1>2 DEF ComponentsInv, Approved, ValidUpdates

\* The types that hold after the faults of a step are paid for.
LEMMA PayType ==
    ASSUME RestOK, NEW n \in Nat, Pay(n)
    PROVE  /\ budget' \in [edits : 0 .. MaxEdits, faults : 0 .. MaxFaults, failures : 0 .. MaxFailures]
           /\ budget'.edits = budget.edits /\ budget'.failures = budget.failures
           /\ budget.edits \in Int
<1>1. MaxFaults \in Nat /\ MaxEdits \in Nat /\ budget.faults \in 0 .. MaxFaults /\ budget.faults >= n
  BY FirmwareAssumption DEF RestOK, Pay
<1>2. budget.faults - n \in 0 .. MaxFaults
  BY <1>1
<1>3. QED
  BY <1>1, <1>2 DEF RestOK, Pay

\* The price of a fault is a number.
LEMMA OneIsNat == \A b : One(b) \in Nat
BY DEF One

\* A write of the components that was built from the copy keeps their invariant, whether
\* it is accepted, refused as stale or lost.
LEMMA ComponentsSaved ==
    ASSUME RestOK, ComponentsInv, NEW new \in ComponentsObjects, NEW saved \in BOOLEAN,
           SaveComponents(new, saved), node.sent \subseteq node'.sent,
           budget'.edits = budget.edits,
           new.gen = cache.hfc.gen, cache.hfcFresh => new.changed.gen <= new.gen,
           Approved(new) => ValidUpdates(new.spec), new.updates \subseteq node'.sent
    PROVE  /\ ComponentsInv'
           /\ cache' \in [hfs : SettingsObjects, hfc : ComponentsObjects,
                          hfsFresh : BOOLEAN, hfcFresh : BOOLEAN]
           /\ cache'.hfs = cache.hfs /\ cache'.hfsFresh = cache.hfsFresh
<1>1. CASE saved
  <2>1. cache.hfcFresh /\ hfc' = new /\ cache' = [cache EXCEPT !.hfcFresh = FALSE]
    BY <1>1 DEF SaveComponents
  <2>2. /\ cache' \in [hfs : SettingsObjects, hfc : ComponentsObjects,
                       hfsFresh : BOOLEAN, hfcFresh : BOOLEAN]
        /\ cache'.hfs = cache.hfs /\ cache'.hfsFresh = cache.hfsFresh
        /\ cache'.hfc = cache.hfc /\ cache'.hfcFresh = FALSE
    BY <2>1 DEF RestOK
  <2>3. ComponentsInv'
    BY <2>1, <2>2 DEF ComponentsInv, Approved, ValidUpdates
  <2>4. QED
    BY <2>2, <2>3
<1>2. CASE ~saved
  <2>1. hfc' = hfc /\ cache' = cache
    BY <1>2 DEF SaveComponents
  <2>2. ComponentsInv'
    BY <2>1 DEF ComponentsInv, Approved, ValidUpdates
  <2>3. QED
    BY <2>1, <2>2 DEF RestOK
<1>3. QED
  BY <1>1, <1>2

\* A write of the host that was built from a copy leaves the copy as it is, and the host
\* in its state or in the state that was written.
LEMMA HostSaved ==
    ASSUME RestOK, NEW new \in HostRecords, NEW kept \in BOOLEAN, SaveHost(new, kept)
    PROVE  /\ host' \in HostRecords /\ host'.state \in {host.state, new.state}
           /\ seen' \in [host : HostRecords, fresh : BOOLEAN] /\ seen'.host = seen.host
<1>1. CASE host' = new /\ seen' = [seen EXCEPT !.fresh = FALSE]
  BY <1>1 DEF RestOK
<1>2. CASE UNCHANGED <<host, seen>>
  BY <1>2 DEF RestOK
<1>3. QED
  BY <1>1, <1>2 DEF SaveHost

\* A node that a step does not touch is as good as it was; failures are not undone.
LEMMA NodeKept ==
    ASSUME NodeOK(node), NoFailureYet => Unfailed(node), UNCHANGED node,
           budget'.failures = budget.failures
    PROVE  NodeOK(node)' /\ (NoFailureYet => Unfailed(node))'
BY DEF NodeOK, NoFailureYet, Unfailed

(***************************************************************************)
(* The controllers of the two objects.                                     *)
(***************************************************************************)
\* updateStatus of the settings: the write is of the latest object or refused.
LEMMA UpdateStatusPreserves ==
    ASSUME IInv, UpdateStatus
    PROVE  IInv'
<1> DEFINE new == ObservedSettings(cache.hfs)
<1>0. node.bios \in Values /\ cache.hfs \in SettingsObjects
  BY DEF IInv, NodeOK, NodeRecords, SettingsInv
<1>1. /\ new \in SettingsObjects
      /\ new.gen = cache.hfs.gen /\ new.changed.gen = cache.hfs.gen
      /\ Approved(new) => ValidSettings(new.spec)
  BY <1>0, ObservedSettingsChecked
<1>2. UNCHANGED <<hfc, policy, host, seen, node>>
  BY DEF UpdateStatus
<1>p. PICK saved \in BOOLEAN : SaveSettings(new, saved) /\ Pay(One(~saved /\ cache.hfsFresh))
  BY DEF UpdateStatus
<1>b. /\ budget' \in [edits : 0 .. MaxEdits, faults : 0 .. MaxFaults, failures : 0 .. MaxFailures]
      /\ budget'.edits = budget.edits /\ budget'.failures = budget.failures
      /\ budget.edits \in Int
  BY <1>p, PayType, OneIsNat DEF IInv
<1> HIDE DEF new
<1>3. CASE saved
  <2>0. cache.hfsFresh /\ hfs' = new /\ cache' = [cache EXCEPT !.hfsFresh = FALSE]
    BY <1>3, <1>p DEF SaveSettings
  <2>1. /\ cache' \in [hfs : SettingsObjects, hfc : ComponentsObjects,
                       hfsFresh : BOOLEAN, hfcFresh : BOOLEAN]
        /\ cache'.hfs = cache.hfs /\ cache'.hfsFresh = FALSE
        /\ cache'.hfc = cache.hfc /\ cache'.hfcFresh = cache.hfcFresh
    BY <2>0 DEF IInv, RestOK
  <2>2. RestOK'
    BY <1>2, <1>b, <2>1 DEF IInv, RestOK
  <2>3. cache.hfs.gen \in Int
    BY <1>0 DEF SettingsObjects
  <2>4. SettingsInv'
    BY <1>1, <1>b, <2>0, <2>1, <2>3 DEF IInv, SettingsInv, Approved, ValidSettings
  <2>5. ComponentsInv'
    BY <1>2, <1>b, <2>1, <2>2, ComponentsKept DEF IInv, RestOK
  <2>6. QED
    BY <1>2, <1>b, <2>2, <2>4, <2>5, NodeKept DEF IInv, Fits
<1>4. CASE ~saved
  <2>0. hfs' = hfs /\ cache' = cache
    BY <1>4, <1>p DEF SaveSettings
  <2>1. RestOK'
    BY <1>2, <1>b, <2>0 DEF IInv, RestOK
  <2>2. SettingsInv' /\ ComponentsInv'
    BY <1>2, <1>b, <2>0, <2>1, SettingsKept, ComponentsKept DEF IInv
  <2>3. QED
    BY <1>2, <1>b, <2>1, <2>2, NodeKept DEF IInv, Fits
<1>5. QED
  BY <1>3, <1>4

\* updateHostFirmware of the components.
LEMMA UpdateHostFirmwarePreserves ==
    ASSUME IInv, UpdateHostFirmware
    PROVE  IInv'
<1> DEFINE new == ObservedComponents(cache.hfc)
<1>0. node.flashed \subseteq Updates /\ cache.hfc \in ComponentsObjects
  BY DEF IInv, NodeOK, NodeRecords, ComponentsInv
<1>1. /\ new \in ComponentsObjects
      /\ new.gen = cache.hfc.gen /\ new.changed.gen = cache.hfc.gen
      /\ new.updates = cache.hfc.updates
      /\ Approved(new) => ValidUpdates(new.spec)
  BY <1>0, ObservedComponentsChecked
<1>2. UNCHANGED <<hfs, policy, host, seen, node>>
  BY DEF UpdateHostFirmware
<1>3. PICK saved \in BOOLEAN : SaveComponents(new, saved) /\ Pay(One(~saved /\ cache.hfcFresh))
  BY DEF UpdateHostFirmware
<1>b. /\ budget' \in [edits : 0 .. MaxEdits, faults : 0 .. MaxFaults, failures : 0 .. MaxFailures]
      /\ budget'.edits = budget.edits /\ budget'.failures = budget.failures
      /\ budget.edits \in Int
  BY <1>3, PayType, OneIsNat DEF IInv
<1> HIDE DEF new
<1>4. new.changed.gen <= new.gen /\ new.updates \subseteq node'.sent
  BY <1>0, <1>1, <1>2 DEF ComponentsObjects, IInv, ComponentsInv
<1>5. /\ ComponentsInv'
      /\ cache' \in [hfs : SettingsObjects, hfc : ComponentsObjects,
                     hfsFresh : BOOLEAN, hfcFresh : BOOLEAN]
      /\ cache'.hfs = cache.hfs /\ cache'.hfsFresh = cache.hfsFresh
  BY <1>1, <1>2, <1>3, <1>4, <1>b, ComponentsSaved DEF IInv
<1>6. RestOK'
  BY <1>2, <1>5, <1>b DEF IInv, RestOK
<1>7. SettingsInv'
  BY <1>2, <1>5, <1>6, <1>b, SettingsKept DEF IInv
<1>8. QED
  BY <1>2, <1>5, <1>6, <1>7, <1>b, NodeKept DEF IInv, Fits

(***************************************************************************)
(* Steps of the host controller that write the host only.                  *)
(***************************************************************************)
\* A reconciliation that only saves the host, in the same phase as the copy it read.
LEMMA HostWritePreserves ==
    ASSUME IInv, NEW new \in HostRecords, WriteHost(new), Fits(new.state, node)
    PROVE  IInv'
<1>1. PICK kept \in BOOLEAN : SaveHost(new, kept) /\ Pay(One(~kept /\ seen.fresh))
  BY DEF WriteHost
<1>2. UNCHANGED <<hfs, hfc, cache, policy, node>>
  BY DEF WriteHost
<1>3. /\ budget' \in [edits : 0 .. MaxEdits, faults : 0 .. MaxFaults, failures : 0 .. MaxFailures]
      /\ budget'.edits = budget.edits /\ budget'.failures = budget.failures
      /\ budget.edits \in Int
  BY <1>1, PayType, OneIsNat DEF IInv
<1>4. /\ host' \in HostRecords /\ host'.state \in {host.state, new.state}
      /\ seen' \in [host : HostRecords, fresh : BOOLEAN] /\ seen'.host = seen.host
  BY <1>1, HostSaved DEF IInv
<1>5. RestOK'
  BY <1>2, <1>3, <1>4 DEF IInv, RestOK
<1>6. SettingsInv' /\ ComponentsInv'
  BY <1>2, <1>3, <1>5, SettingsKept, ComponentsKept DEF IInv
<1>7. Fits(host.state, node)' /\ Fits(seen.host.state, node)'
  BY <1>2, <1>4 DEF IInv, Fits
<1>8. QED
  BY <1>2, <1>3, <1>5, <1>6, <1>7, NodeKept DEF IInv

\* Back to Preparing, into servicing, the reboot annotation and the power state.
LEMMA HostStepsPreserve ==
    ASSUME IInv, HandleAvailable \/ AnnounceServicing \/ RemoveRebootAnnotation \/ RecordPower
    PROVE  IInv'
<1>0. seen.host \in HostRecords /\ Fits(seen.host.state, node) /\ node.on \in BOOLEAN
  BY DEF IInv, RestOK, NodeOK, NodeRecords
<1>1. CASE HandleAvailable
  <2> DEFINE new == [seen.host EXCEPT !.state = "preparing"]
  <2>1. new \in HostRecords /\ new.state = "preparing" /\ seen.host.state = "available"
    BY <1>0, <1>1 DEF HandleAvailable, HostRecords
  <2>2. Fits(new.state, node)
    BY <1>0, <2>1 DEF Fits
  <2>3. WriteHost(new)
    BY <1>1 DEF HandleAvailable
  <2> HIDE DEF new
  <2>4. QED
    BY <2>1, <2>2, <2>3, HostWritePreserves
<1>2. CASE AnnounceServicing
  <2> DEFINE new == [seen.host EXCEPT !.op = "servicing"]
  <2>1. new \in HostRecords /\ new.state = seen.host.state
    BY <1>0 DEF HostRecords
  <2>2. WriteHost(new)
    BY <1>2 DEF AnnounceServicing
  <2> HIDE DEF new
  <2>3. QED
    BY <1>0, <2>1, <2>2, HostWritePreserves
<1>3. CASE RemoveRebootAnnotation
  <2> DEFINE new == [seen.host EXCEPT !.reboot = FALSE]
  <2>1. new \in HostRecords /\ new.state = seen.host.state
    BY <1>0 DEF HostRecords
  <2>2. WriteHost(new)
    BY <1>3 DEF RemoveRebootAnnotation
  <2> HIDE DEF new
  <2>3. QED
    BY <1>0, <2>1, <2>2, HostWritePreserves
<1>4. CASE RecordPower
  <2> DEFINE new == [seen.host EXCEPT !.on = node.on]
  <2>1. new \in HostRecords /\ new.state = seen.host.state
    BY <1>0 DEF HostRecords
  <2>2. WriteHost(new)
    BY <1>4 DEF RecordPower
  <2> HIDE DEF new
  <2>3. QED
    BY <1>0, <2>1, <2>2, HostWritePreserves
<1>5. QED
  BY <1>1, <1>2, <1>3, <1>4

\* PowerOn and PowerOff change nothing else of the node.
LEMMA ChangePowerPreserves ==
    ASSUME IInv, ChangePower
    PROVE  IInv'
<1> DEFINE on == ~node.on
<1>1. UNCHANGED <<hfs, hfc, cache, policy, host, seen, budget>> /\ node' = [node EXCEPT !.on = on]
  BY DEF ChangePower
<1>2. on \in BOOLEAN
  OBVIOUS
<1> HIDE DEF on
<1>3. /\ node' \in NodeRecords /\ node'.state = node.state /\ node'.sent = node.sent
      /\ node'.job = node.job /\ node'.flashed = node.flashed
  BY <1>1, <1>2 DEF IInv, NodeOK, NodeRecords
<1>4. RestOK' /\ budget.edits \in Int /\ node.sent \subseteq node'.sent
  BY <1>1, <1>3 DEF IInv, RestOK
<1>5. SettingsInv' /\ ComponentsInv'
  BY <1>1, <1>4, SettingsKept, ComponentsKept DEF IInv
<1>6. NodeOK(node)' /\ Fits(host.state, node)' /\ Fits(seen.host.state, node)'
  BY <1>1, <1>3 DEF IInv, NodeOK, Fits
<1>7. (NoFailureYet => Unfailed(node))'
  BY <1>1, <1>3 DEF IInv, NoFailureYet, Unfailed
<1>8. QED
  BY <1>4, <1>5, <1>6, <1>7 DEF IInv

\* createHostFirmwareSettings and createHostFirmwareComponents: new objects have no
\* conditions that approve of them.
LEMMA CreateResourcesPreserves ==
    ASSUME IInv, CreateResources
    PROVE  IInv'
<1> DEFINE s == [NewSettings EXCEPT !.exists = TRUE, !.gen = 1]
           c == [NewComponents EXCEPT !.exists = TRUE, !.gen = 1]
<1>1. /\ MaxEdits \in Nat /\ budget.edits \in 0 .. MaxEdits
      /\ 0 \in 0 .. MaxEdits + 1 /\ 1 \in 0 .. MaxEdits + 1
  BY FirmwareAssumption DEF IInv, RestOK
<1>2. Unset \in Conditions
  BY <1>1 DEF Unset, Conditions
<1>3. s \in SettingsObjects /\ s.gen = 1 /\ s.changed = Unset
  BY <1>1, <1>2 DEF SettingsObjects, NewSettings
<1>4. c \in ComponentsObjects /\ c.gen = 1 /\ c.changed = Unset /\ c.updates = {}
  BY <1>1, <1>2 DEF ComponentsObjects, NewComponents
<1>5. /\ hfs' = s /\ hfc' = c /\ cache' = [cache EXCEPT !.hfsFresh = FALSE, !.hfcFresh = FALSE]
      /\ UNCHANGED <<policy, host, seen, node, budget>>
  BY DEF CreateResources
<1> HIDE DEF s, c
<1>6. RestOK' /\ cache'.hfs = cache.hfs /\ cache'.hfc = cache.hfc
      /\ cache'.hfsFresh = FALSE /\ cache'.hfcFresh = FALSE
  BY <1>5 DEF IInv, RestOK
<1>7. SettingsInv'
  BY <1>1, <1>3, <1>5, <1>6 DEF IInv, SettingsInv, Approved, ValidSettings, Unset
<1>8. ComponentsInv'
  BY <1>1, <1>4, <1>5, <1>6 DEF IInv, ComponentsInv, Approved, ValidUpdates, Unset
<1>9. QED
  BY <1>5, <1>6, <1>7, <1>8, NodeKept DEF IInv, Fits

(***************************************************************************)
(* Ironic, the cache and the user.                                         *)
(***************************************************************************)
\* A clean or service step that ends, or goes on, has flashed what it was given.
LEMMA IronicProgressPreserves ==
    ASSUME IInv, IronicProgress
    PROVE  IInv'
<1>0. NodeOK(node) /\ Fits(host.state, node) /\ Fits(seen.host.state, node) /\ node \in NodeRecords
  BY DEF IInv, NodeOK
<1>1. UNCHANGED <<hfs, hfc, cache, policy, host, seen, budget>>
  BY DEF IronicProgress
<1>2. NoJob \in Jobs /\ NoJob.updates = {} /\ NoJob.setting = None
  BY DEF Jobs, NoJob
<1>3. /\ node' \in NodeRecords /\ node'.sent = node.sent
      /\ node'.job \in {node.job, NoJob}
      /\ node'.state \notin Running => node'.job = NoJob
      /\ <<node.state, node'.state>> \in {<<"cleaning", "manageable">>, <<"service wait", "active">>,
                                          <<"servicing", "service wait">>}
      /\ node.state = "cleaning" => node'.flashed = node.flashed \cup (node.job.updates \cap Updates)
  <2>1. CASE node.state \in {"cleaning", "service wait"} /\ node' = ApplyJob
    <3>1. /\ (IF node.state = "cleaning" THEN "manageable" ELSE "active") \in NodeStates
          /\ (IF node.job.setting \in Values THEN node.job.setting ELSE node.bios) \in Values
          /\ node.flashed \cup (node.job.updates \cap Updates) \in SUBSET Updates
      BY <1>0 DEF NodeRecords, NodeStates
    <3>2. /\ node' \in NodeRecords /\ node'.sent = node.sent /\ node'.job = NoJob
          /\ node'.state = IF node.state = "cleaning" THEN "manageable" ELSE "active"
          /\ node'.flashed = node.flashed \cup (node.job.updates \cap Updates)
      BY <1>0, <1>2, <2>1, <3>1 DEF ApplyJob, NodeRecords
    <3>3. QED
      BY <2>1, <3>2
  <2>2. CASE node.state = "servicing" /\ node' = [node EXCEPT !.state = "service wait"]
    BY <1>0, <2>2 DEF NodeRecords, NodeStates, Running
  <2>3. QED
    BY <2>1, <2>2 DEF IronicProgress, IronicStep
<1>4. NodeOK(node')
  BY <1>0, <1>2, <1>3, FirmwareAssumption DEF NodeOK
<1>5. Fits(host'.state, node') /\ Fits(seen'.host.state, node')
  BY <1>0, <1>1, <1>3 DEF Fits, CleanStates, ServiceStates, Running
<1>6. NoFailureYet' => Unfailed(node')
  <2> SUFFICES ASSUME NoFailureYet', node'.state \in CleanStates
               PROVE  node'.sent \subseteq node'.flashed \cup node'.job.updates
                      /\ node'.state # "clean failed"
    BY DEF Unfailed
  <2>1. node.state = "cleaning" /\ node'.state = "manageable"
    BY <1>3 DEF CleanStates
  <2>2. node.sent \subseteq node.flashed \cup node.job.updates
    BY <1>1, <2>1 DEF IInv, NoFailureYet, Unfailed, CleanStates
  <2>3. node.sent \subseteq Updates
    BY <1>0 DEF NodeOK, NodeRecords
  <2>4. QED
    BY <1>3, <2>1, <2>2, <2>3
<1>7. RestOK' /\ budget.edits \in Int
  BY <1>1 DEF IInv, RestOK
<1>8. SettingsInv' /\ ComponentsInv'
  <2>1. node.sent \subseteq node'.sent
    BY <1>3
  <2>2. QED
    BY <1>1, <1>7, <2>1, SettingsKept, ComponentsKept DEF IInv
<1>9. QED
  BY <1>4, <1>5, <1>6, <1>7, <1>8 DEF IInv

\* A step that fails has been counted.
LEMMA IronicFailurePreserves ==
    ASSUME IInv, IronicFailure
    PROVE  IInv'
<1>0. NodeOK(node) /\ Fits(host.state, node) /\ Fits(seen.host.state, node) /\ node \in NodeRecords
  BY DEF IInv, NodeOK
<1>1. UNCHANGED <<hfs, hfc, cache, policy, host, seen>>
  BY DEF IronicFailure
<1>2. NoJob \in Jobs /\ NoJob.setting = None
  BY DEF Jobs, NoJob
<1>3. /\ node' \in NodeRecords /\ node'.sent = node.sent /\ node'.job = NoJob
      /\ node.state \in Running
      /\ node'.state = IF node.state = "cleaning" THEN "clean failed" ELSE "service failed"
  BY <1>0, <1>2 DEF IronicFailure, NodeRecords, NodeStates, Running
<1>4. NodeOK(node')
  BY <1>0, <1>2, <1>3, FirmwareAssumption DEF NodeOK
<1>5. Fits(host'.state, node') /\ Fits(seen'.host.state, node')
  BY <1>0, <1>1, <1>3 DEF Fits, CleanStates, ServiceStates, Running
<1>6. /\ budget.failures \in 0 .. MaxFailures /\ budget.failures > 0 /\ MaxFailures \in Nat
      /\ budget' = [budget EXCEPT !.failures = @ - 1]
  BY FirmwareAssumption DEF IronicFailure, IInv, RestOK
<1>7. budget.failures - 1 \in 0 .. MaxFailures /\ budget.failures - 1 # MaxFailures
  BY <1>6
<1>8. /\ RestOK' /\ budget'.edits = budget.edits /\ budget.edits \in Int
      /\ budget'.failures = budget.failures - 1
  BY <1>1, <1>6, <1>7 DEF IInv, RestOK
<1>9. SettingsInv' /\ ComponentsInv'
  <2>1. node.sent \subseteq node'.sent
    BY <1>3
  <2>2. QED
    BY <1>1, <1>8, <2>1, SettingsKept, ComponentsKept DEF IInv
<1>10. QED
  BY <1>4, <1>5, <1>7, <1>8, <1>9 DEF IInv, NoFailureYet

\* The cache catches up with an object that satisfies its invariant.
LEMMA SyncPreserves ==
    ASSUME IInv, SyncSettings \/ SyncComponents \/ SyncHost
    PROVE  IInv'
<1>1. UNCHANGED <<hfs, hfc, policy, host, node, budget>>
  BY DEF SyncSettings, SyncComponents, SyncHost
<1>2. hfs \in SettingsObjects /\ hfc \in ComponentsObjects /\ budget.edits \in Int
  BY DEF IInv, SettingsInv, ComponentsInv, RestOK
<1>s. SyncSettings \/ SyncComponents => UNCHANGED seen
  BY DEF SyncSettings, SyncComponents
<1>3. CASE SyncSettings
  <2>1. /\ RestOK' /\ cache'.hfs = hfs /\ cache'.hfsFresh = TRUE
        /\ cache'.hfc = cache.hfc /\ cache'.hfcFresh = cache.hfcFresh
    BY <1>1, <1>2, <1>3, <1>s DEF SyncSettings, IInv, RestOK
  <2>2. SettingsInv'
    BY <1>1, <2>1 DEF IInv, SettingsInv, Approved, ValidSettings
  <2>3. ComponentsInv'
    BY <1>1, <1>2, <2>1, ComponentsKept DEF IInv
  <2>4. QED
    BY <1>1, <1>3, <1>s, <2>1, <2>2, <2>3, NodeKept DEF IInv, Fits
<1>4. CASE SyncComponents
  <2>1. /\ RestOK' /\ cache'.hfc = hfc /\ cache'.hfcFresh = TRUE
        /\ cache'.hfs = cache.hfs /\ cache'.hfsFresh = cache.hfsFresh
    BY <1>1, <1>2, <1>4, <1>s DEF SyncComponents, IInv, RestOK
  <2>2. ComponentsInv'
    BY <1>1, <2>1 DEF IInv, ComponentsInv, Approved, ValidUpdates
  <2>3. SettingsInv'
    BY <1>1, <1>2, <2>1, SettingsKept DEF IInv
  <2>4. QED
    BY <1>1, <1>4, <1>s, <2>1, <2>2, <2>3, NodeKept DEF IInv, Fits
<1>5. CASE SyncHost
  <2>1. seen' = [host |-> host, fresh |-> TRUE] /\ UNCHANGED cache
    BY <1>5 DEF SyncHost
  <2>2. RestOK' /\ seen'.host = host
    BY <1>1, <2>1 DEF IInv, RestOK
  <2>3. SettingsInv' /\ ComponentsInv'
    BY <1>1, <1>2, <2>1, <2>2, SettingsKept, ComponentsKept DEF IInv
  <2>4. QED
    BY <1>1, <2>2, <2>3, NodeKept DEF IInv, Fits
<1>6. QED
  BY <1>3, <1>4, <1>5

\* An edit is paid for.
LEMMA EditPays ==
    ASSUME RestOK, NEW op, Edit(op)
    PROVE  /\ budget' \in [edits : 0 .. MaxEdits, faults : 0 .. MaxFaults, failures : 0 .. MaxFailures]
           /\ budget'.edits = budget.edits - 1 /\ budget'.failures = budget.failures
           /\ budget.edits \in Int /\ budget.edits > 0
<1>1. budget.edits \in 0 .. MaxEdits /\ budget.edits > 0 /\ MaxEdits \in Nat
  BY FirmwareAssumption DEF RestOK, Edit
<1>2. budget.edits - 1 \in 0 .. MaxEdits
  BY <1>1
<1>3. QED
  BY <1>1, <1>2 DEF RestOK, Edit

\* The user's edits: a new spec has a new generation, which no condition is about.
LEMMA UserPreserves ==
    ASSUME IInv, User
    PROVE  IInv'
<1>0. RestOK /\ MaxEdits \in Nat /\ host \in HostRecords
  BY FirmwareAssumption DEF IInv, RestOK
<1>1. CASE EditSettings
  <2>1. PICK spec \in (Values \cup {None, Invalid}) \ {hfs.spec} :
            hfs' = [hfs EXCEPT !.spec = spec, !.gen = @ + 1]
    BY <1>1 DEF EditSettings
  <2>2. /\ UNCHANGED <<hfc, policy, host, seen, node>> /\ cache' = [cache EXCEPT !.hfsFresh = FALSE]
        /\ Edit("settings")
    BY <1>1 DEF EditSettings
  <2>3. /\ budget' \in [edits : 0 .. MaxEdits, faults : 0 .. MaxFaults, failures : 0 .. MaxFailures]
        /\ budget'.edits = budget.edits - 1 /\ budget'.failures = budget.failures
        /\ budget.edits \in Int /\ budget.edits > 0
    BY <1>0, <2>2, EditPays
  <2>4. /\ RestOK' /\ cache'.hfs = cache.hfs /\ cache'.hfsFresh = FALSE
        /\ cache'.hfc = cache.hfc /\ cache'.hfcFresh = cache.hfcFresh
    BY <2>2, <2>3 DEF IInv, RestOK
  <2>5. /\ hfs.gen \in 0 .. MaxEdits + 1 /\ hfs.changed.gen <= hfs.gen /\ hfs \in SettingsObjects
        /\ hfs.gen + budget.edits <= MaxEdits + 1 /\ hfs.changed.gen \in 0 .. MaxEdits + 1
    BY DEF IInv, SettingsInv, SettingsObjects, Conditions
  <2>6. hfs.gen + 1 \in 0 .. MaxEdits + 1
    BY <1>0, <2>3, <2>5
  <2>7. /\ hfs' \in SettingsObjects /\ hfs'.changed = hfs.changed /\ hfs'.gen = hfs.gen + 1
    BY <2>1, <2>5, <2>6 DEF SettingsObjects
  <2>8. SettingsInv'
    <3>1. hfs'.changed.gen < hfs'.gen /\ hfs'.gen + budget'.edits <= MaxEdits + 1
      BY <1>0, <2>3, <2>5, <2>7
    <3>2. ~Approved(hfs')
      BY <2>5, <2>7, <3>1 DEF Approved
    <3>3. hfs'.changed.gen <= hfs'.gen
      BY <2>5, <2>7
    <3>4. \A o \in {hfs', cache'.hfs} : Approved(o) => ValidSettings(o.spec)
      BY <2>4, <3>2 DEF IInv, SettingsInv
    <3>5. QED
      BY <2>4, <2>7, <3>1, <3>3, <3>4 DEF IInv, SettingsInv
  <2>9. ComponentsInv'
    BY <2>2, <2>3, <2>4, ComponentsKept DEF IInv
  <2>10. QED
    BY <2>2, <2>3, <2>4, <2>8, <2>9, NodeKept DEF IInv, Fits
<1>2. CASE EditComponents
  <2>1. PICK spec \in (SUBSET (Updates \cup {Invalid})) \ {hfc.spec} :
            hfc' = [hfc EXCEPT !.spec = spec, !.gen = @ + 1]
    BY <1>2 DEF EditComponents
  <2>2. /\ UNCHANGED <<hfs, policy, host, seen, node>> /\ cache' = [cache EXCEPT !.hfcFresh = FALSE]
        /\ Edit("components")
    BY <1>2 DEF EditComponents
  <2>3. /\ budget' \in [edits : 0 .. MaxEdits, faults : 0 .. MaxFaults, failures : 0 .. MaxFailures]
        /\ budget'.edits = budget.edits - 1 /\ budget'.failures = budget.failures
        /\ budget.edits \in Int /\ budget.edits > 0
    BY <1>0, <2>2, EditPays
  <2>4. /\ RestOK' /\ cache'.hfc = cache.hfc /\ cache'.hfcFresh = FALSE
        /\ cache'.hfs = cache.hfs /\ cache'.hfsFresh = cache.hfsFresh
    BY <2>2, <2>3 DEF IInv, RestOK
  <2>5. /\ hfc.gen \in 0 .. MaxEdits + 1 /\ hfc.changed.gen <= hfc.gen /\ hfc \in ComponentsObjects
        /\ hfc.gen + budget.edits <= MaxEdits + 1 /\ hfc.changed.gen \in 0 .. MaxEdits + 1
    BY DEF IInv, ComponentsInv, ComponentsObjects, Conditions
  <2>6. hfc.gen + 1 \in 0 .. MaxEdits + 1
    BY <1>0, <2>3, <2>5
  <2>7. /\ hfc' \in ComponentsObjects /\ hfc'.changed = hfc.changed /\ hfc'.gen = hfc.gen + 1
        /\ hfc'.updates = hfc.updates
    BY <2>1, <2>5, <2>6 DEF ComponentsObjects
  <2>8. ComponentsInv'
    <3>1. hfc'.changed.gen < hfc'.gen /\ hfc'.gen + budget'.edits <= MaxEdits + 1
      BY <1>0, <2>3, <2>5, <2>7
    <3>2. ~Approved(hfc')
      BY <2>5, <2>7, <3>1 DEF Approved
    <3>3. QED
      BY <2>2, <2>4, <2>5, <2>7, <3>1, <3>2 DEF IInv, ComponentsInv, Approved, ValidUpdates
  <2>9. SettingsInv'
    BY <2>2, <2>3, <2>4, SettingsKept DEF IInv
  <2>10. QED
    BY <2>2, <2>3, <2>4, <2>8, <2>9, NodeKept DEF IInv, Fits
<1>3. CASE EditHost \/ EditPolicy
  <2>1. \E op \in {"config", "reboot", "policy"} : Edit(op)
    BY <1>3 DEF EditHost, EditPolicy
  <2>2. UNCHANGED <<hfs, hfc, cache, node>>
    BY <1>3 DEF EditHost, EditPolicy
  <2>3. /\ host' \in HostRecords /\ host'.state = host.state
        /\ seen' \in [host : HostRecords, fresh : BOOLEAN] /\ seen'.host = seen.host
    <3>1. host' \in HostRecords /\ host'.state = host.state
      BY <1>0, <1>3 DEF EditHost, EditPolicy, HostRecords
    <3>2. seen' \in {seen, [seen EXCEPT !.fresh = FALSE]}
      BY <1>3 DEF EditHost, EditPolicy
    <3>3. QED
      BY <1>0, <3>1, <3>2 DEF RestOK
  <2>4. policy' \in [settings : BOOLEAN, updates : BOOLEAN]
    <3> DEFINE a == ~policy.settings
               b == ~policy.updates
    <3>1. a \in BOOLEAN /\ b \in BOOLEAN
      OBVIOUS
    <3>2. EditPolicy => policy' = [settings |-> a, updates |-> b]
      BY DEF EditPolicy
    <3> HIDE DEF a, b
    <3>3. EditPolicy => policy' \in [settings : BOOLEAN, updates : BOOLEAN]
      BY <3>1, <3>2
    <3>4. EditHost => policy' = policy
      BY DEF EditHost
    <3>5. QED
      BY <1>0, <1>3, <3>3, <3>4 DEF RestOK
  <2>5. /\ budget' \in [edits : 0 .. MaxEdits, faults : 0 .. MaxFaults, failures : 0 .. MaxFailures]
        /\ budget'.edits = budget.edits - 1 /\ budget'.failures = budget.failures
        /\ budget.edits \in Int /\ budget.edits > 0
    BY <1>0, <2>1, EditPays
  <2>6. RestOK' /\ budget'.edits <= budget.edits
    BY <1>0, <2>2, <2>3, <2>4, <2>5 DEF RestOK
  <2>7. SettingsInv' /\ ComponentsInv'
    BY <2>2, <2>6, SettingsKept, ComponentsKept DEF IInv
  <2>8. QED
    BY <2>2, <2>3, <2>5, <2>6, <2>7, NodeKept DEF IInv, Fits
<1>4. QED
  BY <1>1, <1>2, <1>3 DEF User

(***************************************************************************)
(* What the host controller makes of the objects.                          *)
(***************************************************************************)
\* hostObjectHasChanges reports a change only if the conditions approve of the copy.
LEMMA ChangesAreApproved ==
    ASSUME NEW object, HostObjectHasChanges(object) = "changed"
    PROVE  Approved(object)
BY DEF HostObjectHasChanges, Approved

\* So what getHostFirmwareSettings and getHostFirmwareComponents report as changed is valid.
LEMMA ViewsAreApproved ==
    ASSUME IInv
    PROVE  /\ SettingsView = "changed" => ValidSettings(cache.hfs.spec)
           /\ ComponentsView = "changed" => ValidUpdates(cache.hfc.spec) /\ cache.hfc.exists
<1>1. SettingsView = "changed" => HostObjectHasChanges(cache.hfs) = "changed"
  BY DEF SettingsView
<1>2. ComponentsView = "changed" => HostObjectHasChanges(cache.hfc) = "changed" /\ cache.hfc.exists
  BY DEF ComponentsView
<1>3. /\ Approved(cache.hfs) => ValidSettings(cache.hfs.spec)
      /\ Approved(cache.hfc) => ValidUpdates(cache.hfc.spec)
  BY DEF IInv, SettingsInv, ComponentsInv
<1>4. QED
  BY <1>1, <1>2, <1>3, ChangesAreApproved

\* A job has valid firmware only, and together with the recorded updates it has all
\* the updates that are asked for.
GoodJob(job, cd) ==
    /\ job \in Jobs /\ job.setting # Invalid /\ Invalid \notin job.updates
    /\ cd => cache.hfc.spec \subseteq job.updates \cup cache.hfc.updates

\* The steps for Ironic are built from what was reported as changed.
LEMMA JobIsGood ==
    ASSUME IInv, NEW sd \in BOOLEAN, NEW cd \in BOOLEAN, NEW config \in BOOLEAN,
           sd => SettingsView = "changed", cd => ComponentsView = "changed"
    PROVE  GoodJob(Job(sd, cd, config), cd)
<1> DEFINE setting == IF sd /\ cache.hfs.spec # cache.hfs.settings THEN cache.hfs.spec ELSE None
           updates == IF cd THEN GetUpdatesDifference(cache.hfc.spec, cache.hfc.updates) ELSE {}
<1>1. setting \in Values \cup {None}
  BY ViewsAreApproved DEF ValidSettings
<1>2. setting # Invalid
  BY <1>1, FirmwareAssumption
<1>3. cache.hfc.spec \subseteq Updates \cup {Invalid}
  BY DEF IInv, ComponentsInv, ComponentsObjects
<1>4. /\ updates \subseteq Updates \cup {Invalid} /\ Invalid \notin updates
      /\ cd => cache.hfc.spec \subseteq updates \cup cache.hfc.updates
  BY <1>3, ViewsAreApproved DEF ValidUpdates, GetUpdatesDifference
<1>5. Job(sd, cd, config) = [setting |-> setting, updates |-> updates, config |-> config]
  BY DEF Job
<1> HIDE DEF setting, updates
<1>6. QED
  BY <1>1, <1>2, <1>4, <1>5 DEF GoodJob, Jobs

(***************************************************************************)
(* The provisioner's answers: the node stays good, in the states of this   *)
(* phase, nothing that was sent is forgotten, and when a step started with *)
(* pending updates all of them have been sent.                             *)
(***************************************************************************)
Acceptable(a, cd, states) ==
    /\ a.started \in BOOLEAN /\ a.dirty \in BOOLEAN /\ a.failed \in BOOLEAN
    /\ NodeOK(a.node) /\ a.node.state \in states
    /\ NoFailureYet => Unfailed(a.node)
    /\ node.sent \subseteq a.node.sent
    /\ a.started /\ cd => cache.hfc.spec \subseteq a.node.sent

\* An answer that leaves the node alone, or only in another idle state.
LEMMA IdleAnswer ==
    ASSUME IInv, NEW n \in NodeRecords, NEW started \in BOOLEAN, NEW dirty \in BOOLEAN,
           NEW failed \in BOOLEAN, NEW cd \in BOOLEAN, NEW states, n.state \in states,
           n.job \in {node.job, NoJob}, n.sent = node.sent, n.flashed = node.flashed,
           n.state \notin Running => n.job = NoJob,
           NoFailureYet => Unfailed(n),
           started /\ cd => cache.hfc.spec \subseteq node.sent
    PROVE  Acceptable(Answer(n, started, dirty, failed), cd, states)
<1>1. NoJob.setting # Invalid
  BY FirmwareAssumption DEF NoJob
<1>2. NodeOK(n)
  BY <1>1 DEF IInv, NodeOK
<1>3. QED
  BY <1>2 DEF Acceptable, Answer

\* A clean or service step that starts.
LEMMA StartAnswer ==
    ASSUME IInv, NEW job, NEW cd \in BOOLEAN, GoodJob(job, cd), NEW states,
           NEW state \in Running, state \in states,
           node.state \in CleanStates => node.state # "cleaning",
           state = "cleaning" <=> node.state \in CleanStates
    PROVE  Acceptable(Start(state, job), cd, states)
<1> DEFINE n == [node EXCEPT !.state = state, !.job = job, !.sent = @ \cup job.updates]
<1>0. node \in NodeRecords /\ job \in Jobs /\ job.updates \subseteq Updates \cup {Invalid}
  BY DEF IInv, NodeOK, GoodJob, Jobs
<1>1. node.sent \cup job.updates \in SUBSET (Updates \cup {Invalid}) /\ state \in NodeStates
  BY <1>0 DEF NodeRecords, NodeStates, Running
<1>2. /\ n \in NodeRecords /\ n.state = state /\ n.job = job /\ n.sent = node.sent \cup job.updates
      /\ n.flashed = node.flashed
  BY <1>0, <1>1 DEF NodeRecords
<1>3. Start(state, job) = Answer(n, TRUE, TRUE, FALSE)
  BY DEF Start
<1> HIDE DEF n
<1>4. NodeOK(n)
  BY <1>2 DEF IInv, NodeOK, GoodJob
<1>5. NoFailureYet => Unfailed(n)
  <2> SUFFICES ASSUME NoFailureYet, n.state \in CleanStates
               PROVE  n.sent \subseteq n.flashed \cup n.job.updates /\ n.state # "clean failed"
    BY DEF Unfailed
  <2>1. state = "cleaning" /\ node.state \in CleanStates /\ node.state \notin Running
    BY <1>2 DEF CleanStates, Running
  <2>2. node.sent \subseteq node.flashed \cup node.job.updates /\ node.job = NoJob
    BY <2>1 DEF IInv, Unfailed, NodeOK
  <2>3. node.sent \subseteq node.flashed
    BY <2>2 DEF NoJob
  <2>4. QED
    BY <1>2, <2>1, <2>3
<1>6. cd => cache.hfc.spec \subseteq n.sent
  BY <1>2 DEF GoodJob, IInv, ComponentsInv
<1>7. QED
  BY <1>2, <1>3, <1>4, <1>5, <1>6 DEF Acceptable, Answer

\* With nothing to do, all that is asked for was sent before.
LEMMA NothingToDo ==
    ASSUME IInv, NEW cd \in BOOLEAN, GoodJob(NoJob, cd), cd
    PROVE  cache.hfc.spec \subseteq node.sent
BY DEF GoodJob, NoJob, IInv, ComponentsInv

\* startManualCleaning, startServicing: a step, or nothing to do.
LEMMA StartOrDoneAnswer ==
    ASSUME IInv, NEW job, NEW cd \in BOOLEAN, GoodJob(job, cd), NEW states,
           NEW state \in Running, state \in states, node.state \in states,
           node.state \in CleanStates => node.state # "cleaning",
           state = "cleaning" <=> node.state \in CleanStates,
           NEW unprepared \in BOOLEAN, cd => unprepared
    PROVE  Acceptable(StartOrDone(state, job, unprepared), cd, states)
<1>1. CASE unprepared /\ job # NoJob
  <2>1. StartOrDone(state, job, unprepared) = Start(state, job)
    BY <1>1 DEF StartOrDone
  <2>2. QED
    BY <2>1, StartAnswer
<1>2. CASE ~(unprepared /\ job # NoJob)
  <2>1. StartOrDone(state, job, unprepared) = Answer(node, unprepared, FALSE, FALSE)
    BY <1>2 DEF StartOrDone
  <2>2. cd => cache.hfc.spec \subseteq node.sent
    BY <1>2, NothingToDo
  <2>3. node \in NodeRecords /\ (node.state \notin Running => node.job = NoJob)
        /\ (NoFailureYet => Unfailed(node))
    BY DEF IInv, NodeOK
  <2>4. Acceptable(Answer(node, unprepared, FALSE, FALSE), cd, states)
    BY <2>2, <2>3, IdleAnswer
  <2>5. QED
    BY <2>1, <2>4
<1>3. QED
  BY <1>1, <1>2

\* The answer of a call that leaves the node alone.
LEMMA SameNodeAnswer ==
    ASSUME IInv, NEW dirty \in BOOLEAN, NEW failed \in BOOLEAN, NEW cd \in BOOLEAN,
           NEW states, node.state \in states
    PROVE  Acceptable(Answer(node, FALSE, dirty, failed), cd, states)
<1>1. node \in NodeRecords /\ (node.state \notin Running => node.job = NoJob)
      /\ (NoFailureYet => Unfailed(node))
  BY DEF IInv, NodeOK
<1>2. QED
  BY <1>1, IdleAnswer

\* Prepare of a node that is or may be cleaned.
LEMMA PrepareAnswer ==
    ASSUME IInv, NEW job, NEW cd \in BOOLEAN, GoodJob(job, cd), node.state \in CleanStates,
           NEW unprepared \in BOOLEAN, cd => unprepared, NEW restart \in BOOLEAN
    PROVE  Acceptable(Prepare(job, unprepared, restart), cd, CleanStates)
<1>0. /\ node \in NodeRecords /\ (node.state \notin Running => node.job = NoJob)
      /\ NoFailureYet => Unfailed(node)
      /\ "cleaning" \in Running /\ "cleaning" \in CleanStates
  BY DEF IInv, NodeOK, Running, CleanStates
<1> DEFINE a == Prepare(job, unprepared, restart)
<1>1. CASE node.state = "available"
  <2>1. CASE unprepared /\ job # NoJob
    <3> DEFINE n == [node EXCEPT !.state = "manageable"]
    <3>1. /\ n \in NodeRecords /\ n.state = "manageable" /\ n.sent = node.sent
          /\ n.job = node.job /\ n.flashed = node.flashed
      BY <1>0 DEF NodeRecords, NodeStates
    <3>2. a = Answer(n, FALSE, TRUE, FALSE)
      BY <1>1, <2>1 DEF Prepare, Wait
    <3> HIDE DEF n
    <3>3. /\ n.state \in CleanStates /\ (n.state \notin Running => n.job = NoJob)
          /\ NoFailureYet => Unfailed(n)
      BY <1>0, <1>1, <3>1 DEF CleanStates, Running, Unfailed
    <3>4. Acceptable(Answer(n, FALSE, TRUE, FALSE), cd, CleanStates)
      BY <3>1, <3>3, IdleAnswer
    <3>5. QED
      BY <3>2, <3>4
  <2>2. CASE ~(unprepared /\ job # NoJob)
    <3>1. a = Answer(node, unprepared, FALSE, FALSE)
      BY <1>1, <2>2 DEF Prepare
    <3>2. cd => cache.hfc.spec \subseteq node.sent
      BY <2>2, NothingToDo
    <3>3. Acceptable(Answer(node, unprepared, FALSE, FALSE), cd, CleanStates)
      BY <1>0, <3>2, IdleAnswer
    <3>4. QED
      BY <3>1, <3>3
  <2>3. QED
    BY <2>1, <2>2
<1>2. CASE node.state = "manageable"
  <2>1. a = StartOrDone("cleaning", job, unprepared)
    BY <1>2 DEF Prepare
  <2>2. QED
    BY <1>0, <1>2, <2>1, StartOrDoneAnswer
<1>3. CASE node.state = "cleaning"
  <2>1. a = Answer(node, FALSE, TRUE, FALSE)
    BY <1>3 DEF Prepare, Wait
  <2>2. Acceptable(Answer(node, FALSE, TRUE, FALSE), cd, CleanStates)
    BY SameNodeAnswer
  <2>3. QED
    BY <2>1, <2>2
<1>4. CASE node.state = "clean failed"
  <2>1. CASE ~restart
    <3>1. a = Answer(node, FALSE, FALSE, TRUE)
      BY <1>4, <2>1 DEF Prepare, Failed
    <3>2. Acceptable(Answer(node, FALSE, FALSE, TRUE), cd, CleanStates)
      BY SameNodeAnswer
    <3>3. QED
      BY <3>1, <3>2
  <2>2. CASE restart
    <3> DEFINE n == IF node.maintenance THEN [node EXCEPT !.maintenance = FALSE]
                    ELSE [node EXCEPT !.state = "manageable"]
    <3>1. a = Answer(n, FALSE, TRUE, FALSE)
      BY <1>4, <2>2 DEF Prepare, Wait
    <3>2. /\ n \in NodeRecords /\ n.state \in {"clean failed", "manageable"} /\ n.sent = node.sent
          /\ n.job = node.job /\ n.flashed = node.flashed
      BY <1>0, <1>4 DEF NodeRecords, NodeStates
    <3> HIDE DEF n
    <3>3. n.state \in CleanStates /\ n.job = NoJob /\ ~NoFailureYet
      BY <1>0, <1>4, <3>2 DEF CleanStates, Running, Unfailed
    <3>4. Acceptable(Answer(n, FALSE, TRUE, FALSE), cd, CleanStates)
      BY <3>2, <3>3, IdleAnswer
    <3>5. QED
      BY <3>1, <3>4
  <2>3. QED
    BY <2>1, <2>2
<1>5. QED
  BY <1>1, <1>2, <1>3, <1>4 DEF CleanStates

\* Service of a node that is or may be serviced. Without a spec nothing is pending, so
\* that aborting counts as started.
LEMMA ServiceAnswer ==
    ASSUME IInv, NEW job, NEW cd \in BOOLEAN, GoodJob(job, cd), node.state \in ServiceStates,
           NEW unprepared \in BOOLEAN, cd => unprepared, NEW restart \in BOOLEAN,
           NEW hasSpec \in BOOLEAN, cd /\ ~hasSpec => cache.hfc.spec = {}
    PROVE  Acceptable(Service(job, unprepared, restart, hasSpec), cd, ServiceStates)
<1>0. /\ node \in NodeRecords /\ (node.state \notin Running => node.job = NoJob)
      /\ NoFailureYet => Unfailed(node)
      /\ "servicing" \in Running /\ "servicing" \in ServiceStates /\ node.state \notin CleanStates
  BY DEF IInv, NodeOK, Running, ServiceStates, CleanStates
<1> DEFINE a == Service(job, unprepared, restart, hasSpec)
<1>1. cd /\ ~hasSpec => cache.hfc.spec \subseteq node.sent
  OBVIOUS
<1>2. ~hasSpec => Acceptable(AbortServicing, cd, ServiceStates)
  <2> DEFINE n == [node EXCEPT !.state = "active", !.job = NoJob]
  <2>1. /\ n \in NodeRecords /\ n.state = "active" /\ n.sent = node.sent
        /\ n.job = NoJob /\ n.flashed = node.flashed
    BY <1>0 DEF NodeRecords, NodeStates, Jobs, NoJob
  <2>2. AbortServicing = Answer(n, TRUE, TRUE, FALSE)
    BY DEF AbortServicing
  <2> HIDE DEF n
  <2>3. n.state \in ServiceStates /\ Unfailed(n)
    BY <2>1 DEF ServiceStates, CleanStates, Unfailed
  <2>4. QED
    BY <1>1, <2>1, <2>2, <2>3, IdleAnswer
<1>3. CASE node.state = "service failed" /\ ~hasSpec
  <2>1. a = AbortServicing
    BY <1>3 DEF Service
  <2>2. QED
    BY <1>2, <1>3, <2>1
<1>4. CASE node.state = "service failed" /\ hasSpec /\ ~restart
  <2>1. a = Answer(node, FALSE, FALSE, TRUE)
    BY <1>4 DEF Service, Failed
  <2>2. QED
    BY <2>1, SameNodeAnswer
<1>5. CASE node.state = "service failed" /\ hasSpec /\ restart /\ node.maintenance
  <2> DEFINE n == [node EXCEPT !.maintenance = FALSE]
  <2>1. a = Answer(n, FALSE, TRUE, FALSE)
    BY <1>5 DEF Service, Wait
  <2>2. /\ n \in NodeRecords /\ n.state = node.state /\ n.sent = node.sent
        /\ n.job = node.job /\ n.flashed = node.flashed
    BY <1>0 DEF NodeRecords
  <2> HIDE DEF n
  <2>3. Unfailed(n)
    BY <1>0, <2>2 DEF Unfailed
  <2>4. Acceptable(Answer(n, FALSE, TRUE, FALSE), cd, ServiceStates)
    BY <1>0, <2>2, <2>3, IdleAnswer
  <2>5. QED
    BY <2>1, <2>4
<1>6. CASE node.state = "service failed" /\ hasSpec /\ restart /\ ~node.maintenance
  <2>1. a = StartOrDone("servicing", job, TRUE)
    BY <1>6 DEF Service
  <2>2. \A u \in BOOLEAN : (cd => u) => Acceptable(StartOrDone("servicing", job, u), cd, ServiceStates)
    BY <1>0, StartOrDoneAnswer
  <2>3. QED
    BY <2>1, <2>2
<1>7. CASE node.state = "active"
  <2>1. a = StartOrDone("servicing", job, unprepared)
    BY <1>7 DEF Service
  <2>2. QED
    BY <1>0, <2>1, StartOrDoneAnswer
<1>8. CASE node.state = "service wait" /\ ~hasSpec
  <2>1. a = AbortServicing
    BY <1>8 DEF Service
  <2>2. QED
    BY <1>2, <1>8, <2>1
<1>9. CASE node.state = "servicing" \/ (node.state = "service wait" /\ hasSpec)
  <2>1. a = Answer(node, FALSE, TRUE, FALSE)
    BY <1>9 DEF Service, Wait
  <2>2. QED
    BY <2>1, SameNodeAnswer
<1>10. QED
  BY <1>3, <1>4, <1>5, <1>6, <1>7, <1>8, <1>9 DEF ServiceStates

(***************************************************************************)
(* Calls of the provisioner and the writes that follow.                    *)
(***************************************************************************)
\* A call is answered, or refused at the price of a fault.
LEMMA CallIsAcceptable ==
    ASSUME IInv, NEW answer, NEW cd \in BOOLEAN, NEW states, node.state \in states,
           Acceptable(answer, cd, states), NEW call \in Calls(answer)
    PROVE  /\ Acceptable(call, cd, states)
           /\ Refused(answer, call) => budget.faults > 0 /\ call = Wait(node)
<1>1. call = answer \/ (budget.faults > 0 /\ call = Wait(node))
  BY DEF Calls
<1>2. Acceptable(Wait(node), cd, states)
  BY SameNodeAnswer DEF Wait
<1>3. QED
  BY <1>1, <1>2 DEF Refused

\* What is written after a call keeps the invariant of the components, and the host is
\* in its state or in the one that was written.
LEMMA PersistPreserves ==
    ASSUME IInv, NEW answer, NEW call, NEW cd \in BOOLEAN, NEW states,
           NEW written \in HostRecords,
           Acceptable(call, cd, states), node' = call.node,
           Persist(answer, call, cd, written)
    PROVE  /\ ComponentsInv'
           /\ cache' \in [hfs : SettingsObjects, hfc : ComponentsObjects,
                          hfsFresh : BOOLEAN, hfcFresh : BOOLEAN]
           /\ cache'.hfs = cache.hfs /\ cache'.hfsFresh = cache.hfsFresh
           /\ budget' \in [edits : 0 .. MaxEdits, faults : 0 .. MaxFaults, failures : 0 .. MaxFailures]
           /\ budget'.edits = budget.edits /\ budget'.failures = budget.failures
           /\ host' \in HostRecords /\ host'.state \in {host.state, written.state}
           /\ seen' \in [host : HostRecords, fresh : BOOLEAN] /\ seen'.host = seen.host
<1>0. /\ RestOK /\ ComponentsInv /\ node.sent \subseteq node'.sent
      /\ cache.hfc \in ComponentsObjects /\ node.flashed \in SUBSET Updates
      /\ cache.hfcFresh => cache.hfc.changed.gen <= cache.hfc.gen
      /\ Approved(cache.hfc) => ValidUpdates(cache.hfc.spec)
  BY DEF IInv, Acceptable, ComponentsInv, NodeOK, NodeRecords
<1>p. PICK saved, kept \in BOOLEAN :
        /\ IF call.failed THEN ForgetUpdates(cd, saved)
           ELSE SaveHostFirmwareComponents(call.started, cd, saved)
        /\ IF saved THEN SaveHost(written, kept) ELSE ~kept /\ UNCHANGED <<host, seen>>
        /\ Pay(One(Refused(answer, call)) + One(~saved /\ cache.hfcFresh)
               + One(saved /\ ~kept /\ seen.fresh))
  BY DEF Persist
<1>b. /\ budget' \in [edits : 0 .. MaxEdits, faults : 0 .. MaxFaults, failures : 0 .. MaxFailures]
      /\ budget'.edits = budget.edits /\ budget'.failures = budget.failures
  <2> DEFINE price == One(Refused(answer, call)) + One(~saved /\ cache.hfcFresh)
                      + One(saved /\ ~kept /\ seen.fresh)
  <2>1. price \in Nat
    <3> DEFINE a == One(Refused(answer, call))
               b == One(~saved /\ cache.hfcFresh)
               c == One(saved /\ ~kept /\ seen.fresh)
    <3>1. a \in Nat /\ b \in Nat /\ c \in Nat
      BY OneIsNat
    <3> HIDE DEF a, b, c
    <3>2. a + b + c \in Nat
      BY <3>1
    <3>3. QED
      BY <3>2 DEF a, b, c
  <2>2. Pay(price)
    BY <1>p
  <2> HIDE DEF price
  <2>3. QED
    BY <1>0, <2>1, <2>2, PayType
<1>h. /\ host' \in HostRecords /\ host'.state \in {host.state, written.state}
      /\ seen' \in [host : HostRecords, fresh : BOOLEAN] /\ seen'.host = seen.host
  <2>1. CASE saved
    BY <1>0, <1>p, <2>1, HostSaved
  <2>2. CASE ~saved
    <3>1. host' = host /\ seen' = seen
      BY <1>p, <2>2
    <3>2. QED
      BY <1>0, <3>1 DEF RestOK
  <2>3. QED
    BY <2>1, <2>2
<1> DEFINE Kept == /\ ComponentsInv'
                   /\ cache' \in [hfs : SettingsObjects, hfc : ComponentsObjects,
                                  hfsFresh : BOOLEAN, hfcFresh : BOOLEAN]
                   /\ cache'.hfs = cache.hfs /\ cache'.hfsFresh = cache.hfsFresh
<1>1. ASSUME UNCHANGED <<hfc, cache>> PROVE Kept
  <2>1. cache'.hfs = cache.hfs /\ cache'.hfsFresh = cache.hfsFresh
    BY <1>1
  <2>2. ComponentsInv'
    BY <1>0, <1>1, <1>b DEF ComponentsInv, Approved, ValidUpdates
  <2>3. QED
    BY <1>0, <1>1, <2>1, <2>2 DEF RestOK
<1>2. ASSUME SaveComponents([cache.hfc EXCEPT !.updates = {}], saved) PROVE Kept
  <2> DEFINE new == [cache.hfc EXCEPT !.updates = {}]
  <2>1. /\ new \in ComponentsObjects /\ new.gen = cache.hfc.gen /\ new.changed = cache.hfc.changed
        /\ new.valid = cache.hfc.valid /\ new.spec = cache.hfc.spec /\ new.updates = {}
    BY <1>0 DEF ComponentsObjects
  <2> HIDE DEF new
  <2>2. /\ cache.hfcFresh => new.changed.gen <= new.gen
        /\ Approved(new) => ValidUpdates(new.spec)
        /\ new.updates \subseteq node'.sent
    BY <1>0, <2>1 DEF Approved
  <2>3. SaveComponents(new, saved)
    BY <1>2 DEF new
  <2>4. QED
    BY <1>0, <1>b, <2>1, <2>2, <2>3, ComponentsSaved
<1>3. ASSUME call.started, cd,
             SaveComponents([cache.hfc EXCEPT !.updates = cache.hfc.spec,
                                              !.components = node.flashed], saved)
      PROVE  Kept
  <2> DEFINE new == [cache.hfc EXCEPT !.updates = cache.hfc.spec, !.components = node.flashed]
  <2>1. /\ new \in ComponentsObjects /\ new.gen = cache.hfc.gen /\ new.changed = cache.hfc.changed
        /\ new.valid = cache.hfc.valid /\ new.spec = cache.hfc.spec /\ new.updates = cache.hfc.spec
    BY <1>0 DEF ComponentsObjects
  <2> HIDE DEF new
  <2>2. /\ cache.hfcFresh => new.changed.gen <= new.gen
        /\ Approved(new) => ValidUpdates(new.spec)
    BY <1>0, <2>1 DEF Approved
  <2>3. new.updates \subseteq node'.sent
    BY <1>3, <2>1 DEF Acceptable
  <2>4. SaveComponents(new, saved)
    BY <1>3 DEF new
  <2>5. QED
    BY <1>0, <1>b, <2>1, <2>2, <2>3, <2>4, ComponentsSaved
<1>4. Kept
  <2> HIDE DEF Kept
  <2>1. QED
    BY <1>p, <1>1, <1>2, <1>3 DEF ForgetUpdates, SaveHostFirmwareComponents
<1>5. QED
  BY <1>4, <1>b, <1>h

(***************************************************************************)
(* The host controller's calls.                                            *)
(***************************************************************************)
\* actionPreparing: the call of Prepare with the writes that follow.
LEMMA ActionPreparingPreserves ==
    ASSUME IInv, ActionPreparing
    PROVE  IInv'
<1> DEFINE retry == seen.host.err = "preparation error"
           dirty == retry \/ seen.host.savedConfig # seen.host.config
           sd == SettingsView = "changed"
           cd == ComponentsView = "changed"
           answer == Prepare(Job(sd, cd, seen.host.config), dirty \/ sd \/ cd, retry)
           failure == [RecordFailure("preparation error") EXCEPT
                          !.savedConfig = IF dirty THEN FALSE ELSE @]
           Success(call) == [(IF call.started THEN ClearError("OK") ELSE seen.host) EXCEPT
                          !.savedConfig = IF dirty /\ call.started THEN seen.host.config ELSE @,
                          !.state = IF call.dirty THEN @ ELSE "available"]
<1>1. /\ seen.host \in HostRecords /\ seen.host.config \in BOOLEAN
      /\ seen.host.state = "preparing" /\ node.state \in CleanStates
  BY DEF IInv, RestOK, HostRecords, ActionPreparing, Fits
<1>2. GoodJob(Job(sd, cd, seen.host.config), cd)
  BY <1>1, JobIsGood
<1>3. Acceptable(answer, cd, CleanStates)
  <2>1. (dirty \/ sd \/ cd) \in BOOLEAN /\ retry \in BOOLEAN /\ cd \in BOOLEAN /\ (cd => dirty \/ sd \/ cd)
    OBVIOUS
  <2> HIDE DEF retry, dirty, sd, cd
  <2>2. QED
    BY <1>1, <1>2, <2>1, PrepareAnswer
<1>4. PICK call \in Calls(answer) :
        /\ node' = call.node
        /\ Persist(answer, call, cd, IF call.failed THEN failure ELSE Success(call))
  BY DEF ActionPreparing
<1>5. UNCHANGED <<hfs, policy>>
  BY DEF ActionPreparing
<1>6. cd \in BOOLEAN /\ dirty \in BOOLEAN
  OBVIOUS
<1> HIDE DEF retry, dirty, sd, cd, answer
<1>7. Acceptable(call, cd, CleanStates)
  BY <1>1, <1>3, <1>4, <1>6, CallIsAcceptable
<1> DEFINE written == IF call.failed THEN failure ELSE Success(call)
<1>8. written \in HostRecords /\ written.state # "provisioned"
  <2>0. call.started \in BOOLEAN /\ call.dirty \in BOOLEAN /\ call.failed \in BOOLEAN
    BY <1>7 DEF Acceptable
  <2>1. failure \in HostRecords /\ failure.state = "preparing"
    BY <1>1, <1>6 DEF RecordFailure, HostRecords
  <2>2. Success(call) \in HostRecords /\ Success(call).state # "provisioned"
    <3> DEFINE base == IF call.started THEN ClearError("OK") ELSE seen.host
    <3>1. base \in HostRecords /\ base.state = "preparing"
      BY <1>1, <2>0 DEF ClearError, HostRecords
    <3>2. Success(call) = [base EXCEPT
              !.savedConfig = IF dirty /\ call.started THEN seen.host.config ELSE @,
              !.state = IF call.dirty THEN @ ELSE "available"]
      OBVIOUS
    <3> HIDE DEF base, Success
    <3>3. QED
      BY <1>1, <1>6, <2>0, <3>1, <3>2 DEF HostRecords
  <2> HIDE DEF failure, Success
  <2>3. QED
    BY <2>0, <2>1, <2>2
<1>9. Persist(answer, call, cd, written)
  BY <1>4
<1> HIDE DEF written, failure, Success
<1>10. /\ ComponentsInv'
       /\ cache' \in [hfs : SettingsObjects, hfc : ComponentsObjects,
                      hfsFresh : BOOLEAN, hfcFresh : BOOLEAN]
       /\ cache'.hfs = cache.hfs /\ cache'.hfsFresh = cache.hfsFresh
       /\ budget' \in [edits : 0 .. MaxEdits, faults : 0 .. MaxFaults, failures : 0 .. MaxFailures]
       /\ budget'.edits = budget.edits /\ budget'.failures = budget.failures
       /\ host' \in HostRecords /\ host'.state \in {host.state, written.state}
       /\ seen' \in [host : HostRecords, fresh : BOOLEAN] /\ seen'.host = seen.host
  BY <1>4, <1>6, <1>7, <1>8, <1>9, PersistPreserves
<1>11. NodeOK(node)' /\ (NoFailureYet => Unfailed(node))'
  BY <1>4, <1>7, <1>10 DEF Acceptable, NodeOK, NoFailureYet, Unfailed
<1>12. Fits(host.state, node)' /\ Fits(seen.host.state, node)'
  <2>1. host.state # "provisioned" /\ node'.state \in CleanStates
    BY <1>1, <1>4, <1>7 DEF IInv, Fits, Acceptable, CleanStates, ServiceStates
  <2>2. QED
    BY <1>1, <1>8, <1>10, <2>1 DEF Fits
<1>13. RestOK' /\ budget'.edits <= budget.edits
  BY <1>5, <1>10 DEF IInv, RestOK
<1>14. SettingsInv'
  BY <1>5, <1>10, <1>13, SettingsKept DEF IInv
<1>15. QED
  BY <1>10, <1>11, <1>12, <1>13, <1>14 DEF IInv

\* doServiceIfNeeded of a provisioned host, with the writes that follow.
LEMMA DoServicePreserves ==
    ASSUME IInv, DoService
    PROVE  IInv'
<1> DEFINE config == ConfigDirty /\ seen.host.config
           restart == seen.host.err = "servicing error"
           answer == Service(Job(SettingsDirty, ComponentsDirty, config),
                             HasChanges, restart, HasFirmwareSpec)
           failure == [RecordFailure("servicing error") EXCEPT !.savedConfig = FALSE]
           Recorded(call) == call.started /\ ConfigDirty
           Unfinished(call) == seen.host.err # None \/ Recorded(call) \/ call.dirty
           Success(call) == [ClearError(IF Unfinished(call) THEN "servicing" ELSE "OK") EXCEPT
                               !.savedConfig = IF Recorded(call) THEN seen.host.config ELSE @]
<1>1. /\ seen.host \in HostRecords /\ seen.host.state = "provisioned"
      /\ node.state \in ServiceStates /\ policy \in [settings : BOOLEAN, updates : BOOLEAN]
  BY DEF IInv, RestOK, HostRecords, DoService, ServicingAllowed, PowerRecorded, Fits
<1>2. /\ ComponentsDirty \in BOOLEAN /\ SettingsDirty \in BOOLEAN /\ config \in BOOLEAN
      /\ restart \in BOOLEAN /\ HasChanges \in BOOLEAN /\ HasFirmwareSpec \in BOOLEAN
      /\ ConfigDirty \in BOOLEAN
  BY DEF ComponentsDirty, SettingsDirty, HasChanges, HasFirmwareSpec, ConfigDirty
<1>3. /\ SettingsDirty => SettingsView = "changed"
      /\ ComponentsDirty => ComponentsView = "changed" /\ policy.updates /\ HasChanges
  BY DEF ComponentsDirty, SettingsDirty, HasChanges
<1>4. GoodJob(Job(SettingsDirty, ComponentsDirty, config), ComponentsDirty)
  BY <1>2, <1>3, JobIsGood
<1>5. ComponentsDirty /\ ~HasFirmwareSpec => cache.hfc.spec = {}
  BY <1>3, ViewsAreApproved DEF HasFirmwareSpec
<1>6. Acceptable(answer, ComponentsDirty, ServiceStates)
  <2> DEFINE job == Job(SettingsDirty, ComponentsDirty, config)
  <2>1. GoodJob(job, ComponentsDirty)
    BY <1>4
  <2> HIDE DEF job, restart
  <2>2. Acceptable(Service(job, HasChanges, restart, HasFirmwareSpec), ComponentsDirty, ServiceStates)
    BY <1>1, <1>2, <1>3, <1>5, <2>1, ServiceAnswer
  <2>3. QED
    BY <2>2 DEF job, restart
<1>7. PICK call \in Calls(answer) :
        /\ node' = call.node
        /\ Persist(answer, call, ComponentsDirty, IF call.failed THEN failure ELSE Success(call))
  BY DEF DoService
<1>8. UNCHANGED <<hfs, policy>>
  BY DEF DoService
<1> HIDE DEF answer
<1>9. Acceptable(call, ComponentsDirty, ServiceStates)
  BY <1>1, <1>2, <1>6, <1>7, CallIsAcceptable
<1> DEFINE written == IF call.failed THEN failure ELSE Success(call)
<1>10. written \in HostRecords /\ written.state = "provisioned"
  <2>0. call.started \in BOOLEAN /\ call.dirty \in BOOLEAN /\ call.failed \in BOOLEAN
    BY <1>9 DEF Acceptable
  <2>1. failure \in HostRecords /\ failure.state = "provisioned"
    BY <1>1 DEF RecordFailure, HostRecords
  <2>2. Success(call) \in HostRecords /\ Success(call).state = "provisioned"
    <3> DEFINE op == IF Unfinished(call) THEN "servicing" ELSE "OK"
               b == Recorded(call)
    <3>1. op \in {"servicing", "OK"} /\ b \in BOOLEAN
      BY <1>2, <2>0
    <3>2. Success(call) = [[seen.host EXCEPT !.op = op, !.err = None] EXCEPT
                              !.savedConfig = IF b THEN seen.host.config ELSE @]
      BY DEF ClearError
    <3> HIDE DEF op, b, Success
    <3>3. QED
      BY <1>1, <3>1, <3>2 DEF HostRecords
  <2> HIDE DEF failure, Success
  <2>3. QED
    BY <2>0, <2>1, <2>2
<1>11. Persist(answer, call, ComponentsDirty, written)
  BY <1>7
<1> HIDE DEF written, failure, Success
<1>12. /\ ComponentsInv'
       /\ cache' \in [hfs : SettingsObjects, hfc : ComponentsObjects,
                      hfsFresh : BOOLEAN, hfcFresh : BOOLEAN]
       /\ cache'.hfs = cache.hfs /\ cache'.hfsFresh = cache.hfsFresh
       /\ budget' \in [edits : 0 .. MaxEdits, faults : 0 .. MaxFaults, failures : 0 .. MaxFailures]
       /\ budget'.edits = budget.edits /\ budget'.failures = budget.failures
       /\ host' \in HostRecords /\ host'.state \in {host.state, written.state}
       /\ seen' \in [host : HostRecords, fresh : BOOLEAN] /\ seen'.host = seen.host
  BY <1>2, <1>7, <1>9, <1>10, <1>11, PersistPreserves
<1>13. NodeOK(node)' /\ (NoFailureYet => Unfailed(node))'
  BY <1>7, <1>9, <1>12 DEF Acceptable, NodeOK, NoFailureYet, Unfailed
<1>14. Fits(host.state, node)' /\ Fits(seen.host.state, node)'
  <2>1. host.state = "provisioned" /\ node'.state \in ServiceStates
    BY <1>1, <1>7, <1>9 DEF IInv, Fits, Acceptable, CleanStates, ServiceStates
  <2>2. QED
    BY <1>1, <1>10, <1>12, <2>1 DEF Fits
<1>15. RestOK' /\ budget'.edits <= budget.edits
  BY <1>8, <1>12 DEF IInv, RestOK
<1>16. SettingsInv'
  BY <1>8, <1>12, <1>15, SettingsKept DEF IInv
<1>17. QED
  BY <1>12, <1>13, <1>14, <1>15, <1>16 DEF IInv

(***************************************************************************)
(* The theorems.                                                           *)
(***************************************************************************)
\* The invariant holds of a host whose objects are not created yet.
LEMMA InitEstablishes == Init => IInv
<1> SUFFICES ASSUME Init PROVE IInv
  OBVIOUS
<1>1. MaxEdits \in Nat /\ MaxFaults \in Nat /\ MaxFailures \in Nat /\ 0 \in 0 .. MaxEdits + 1
      /\ MaxEdits \in 0 .. MaxEdits /\ MaxFaults \in 0 .. MaxFaults /\ MaxFailures \in 0 .. MaxFailures
      /\ Invalid # None
  BY FirmwareAssumption
<1>2. Unset \in Conditions
  BY <1>1 DEF Unset, Conditions
<1>3. NewSettings \in SettingsObjects /\ NewComponents \in ComponentsObjects
  BY <1>1, <1>2 DEF NewSettings, NewComponents, SettingsObjects, ComponentsObjects
<1>4. /\ hfs = NewSettings /\ hfc = NewComponents
      /\ cache = [hfs |-> NewSettings, hfc |-> NewComponents, hfsFresh |-> TRUE, hfcFresh |-> TRUE]
      /\ budget = [edits |-> MaxEdits, faults |-> MaxFaults, failures |-> MaxFailures]
  BY DEF Init
<1>5. policy \in [settings : BOOLEAN, updates : BOOLEAN]
  BY DEF Init
<1>6. PICK s \in {"preparing", "available", "provisioned"}, bios \in Values :
        /\ host = [state |-> s, op |-> "OK", err |-> None, config |-> FALSE,
                   savedConfig |-> FALSE, on |-> s = "provisioned", reboot |-> FALSE]
        /\ node = [state |-> CASE s = "preparing" -> "manageable"
                               [] s = "available" -> "available"
                               [] s = "provisioned" -> "active",
                   maintenance |-> FALSE, on |-> s = "provisioned", bios |-> bios,
                   flashed |-> {}, job |-> NoJob, sent |-> {}]
  BY DEF Init
<1>s. seen = [host |-> host, fresh |-> TRUE]
  BY DEF Init
<1>7. host \in HostRecords /\ host.state = s /\ seen \in [host : HostRecords, fresh : BOOLEAN]
      /\ seen.host.state = s
  BY <1>6, <1>s DEF HostRecords
<1>8. NoJob \in Jobs /\ NoJob.setting = None
  BY DEF NoJob, Jobs
<1>9. /\ node \in NodeRecords /\ node.job = NoJob /\ node.sent = {}
      /\ <<s, node.state>> \in {<<"preparing", "manageable">>, <<"available", "available">>,
                                <<"provisioned", "active">>}
  BY <1>6, <1>8 DEF NodeRecords, NodeStates
<1>10. NodeOK(node) /\ Fits(host.state, node) /\ Fits(seen.host.state, node) /\ Unfailed(node)
  BY <1>1, <1>7, <1>8, <1>9 DEF NodeOK, Fits, Unfailed, CleanStates, ServiceStates
<1>11. RestOK
  BY <1>1, <1>3, <1>4, <1>5, <1>7 DEF RestOK
<1>12. SettingsInv /\ ComponentsInv
  BY <1>1, <1>3, <1>4 DEF SettingsInv, ComponentsInv, NewSettings, NewComponents, Unset, Approved
<1>13. QED
  BY <1>10, <1>11, <1>12 DEF IInv

\* Every step keeps it.
LEMMA NextPreserves == IInv /\ [Next]_vars => IInv'
<1> SUFFICES ASSUME IInv, [Next]_vars PROVE IInv'
  OBVIOUS
<1>1. CASE UNCHANGED vars
  BY <1>1 DEF vars, IInv, RestOK, SettingsInv, ComponentsInv, NodeOK, Fits, NoFailureYet, Unfailed,
              Approved, ValidSettings, ValidUpdates
<1>2. CASE HostReconciles
  BY <1>2, CreateResourcesPreserves, ActionPreparingPreserves, HostStepsPreserve, DoServicePreserves,
     ChangePowerPreserves
     DEF HostReconciles
<1>3. CASE Next
  BY <1>2, <1>3, UpdateStatusPreserves, UpdateHostFirmwarePreserves, IronicProgressPreserves,
     IronicFailurePreserves, SyncPreserves, UserPreserves DEF Next
<1>4. QED
  BY <1>1, <1>3

\* So it always holds.
LEMMA FirmwareInvariant == Spec => []IInv
BY InitEstablishes, NextPreserves, PTL DEF Spec

\* The variables of the firmware model keep their types.
THEOREM FirmwareTypeCorrect == Spec => []TypeOK
<1>1. IInv => TypeOK
  BY DEF IInv, RestOK, SettingsInv, ComponentsInv, NodeOK, TypeOK
<1>2. QED
  BY <1>1, FirmwareInvariant, PTL

\* The conditions hostObjectHasChanges trusts are about the spec that is sent: no clean
\* or service step ever carries a setting or an update that was not found valid.
THEOREM OnlyValidFirmwareAlways == Spec => []OnlyValidFirmware
<1>1. IInv => OnlyValidFirmware
  BY DEF IInv, NodeOK, OnlyValidFirmware
<1>2. QED
  BY <1>1, FirmwareInvariant, PTL

\* saveHostFirmwareComponents records an update only once Ironic has it, whatever
\* copy of the components the host controller worked with.
THEOREM RecordedUpdatesWereSentAlways == Spec => []RecordedUpdatesWereSent
<1>1. IInv => RecordedUpdatesWereSent
  BY DEF IInv, ComponentsInv, RecordedUpdatesWereSent
<1>2. QED
  BY <1>1, FirmwareInvariant, PTL

\* As long as no step fails, an update that the components' status records is on the
\* host that is not provisioned or in its running clean step, even when a stale copy of
\* the host led to the step.
THEOREM RecordedUpdatesArriveAlways == Spec => []RecordedUpdatesArrive
<1>1. IInv => RecordedUpdatesArrive
  <2> SUFFICES ASSUME IInv, NoFailureYet, host.state # "provisioned"
               PROVE  hfc.updates \subseteq node.flashed \cup node.job.updates
    BY DEF RecordedUpdatesArrive
  <2>1. node.sent \subseteq node.flashed \cup node.job.updates
    BY DEF IInv, Fits, Unfailed
  <2>2. QED
    BY <2>1 DEF IInv, ComponentsInv
<1>2. QED
  BY <1>1, FirmwareInvariant, PTL
==============================================================================
