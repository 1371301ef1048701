---------------------------- MODULE DataImageProofs ----------------------------
(***************************************************************************)
(* PowerOnWithSettledDrive for any images, edits and faults.               *)
(*                                                                         *)
(* The host controller decides on what it has read: the object and whether *)
(* an image is in the drive. In between users edit, the DataImage          *)
(* controller writes and Ironic works, so the invariant says that what was *)
(* read of the drive still holds: Ironic is asked to change it only by the *)
(* pass that has read it, and the node of a busy host is not read at all.  *)
(***************************************************************************)
EXTENDS Subresources, TLAPS

DataRecords ==
    [exists : BOOLEAN, deleting : BOOLEAN, owner : BOOLEAN, finalizer : BOOLEAN,
     url : Urls \cup {NoUrl}, attached : Urls \cup {NoUrl}, error : BOOLEAN]

Readings == [active : BOOLEAN, di : DataRecords, inserted : BOOLEAN, fresh : BOOLEAN]

Powers == [exists : BOOLEAN, paused : BOOLEAN, detached : BOOLEAN, on : BOOLEAN]

TypeOK ==
    /\ di \in DataRecords /\ seenDi \in DataRecords /\ diFresh \in BOOLEAN
    /\ reading \in Readings
    /\ power \in Powers
    /\ media \in [image : Urls \cup {NoUrl}, op : {"none", "attach", "detach"},
                  url : Urls \cup {NoUrl}]
    /\ dataBudget \in [edits : Nat, faults : Nat]

\* What was read of the drive is still so.
ReadingHolds == reading.active => ~Data!Busy /\ reading.inserted = Data!Inserted

IInv == TypeOK /\ ReadingHolds

\* What the constants must satisfy.
ConstantsFit == MaxDataEdits \in Nat /\ MaxDataFaults \in Nat

\* A step keeps the invariant and powers the host on only as it should.
DataStep == IInv' /\ Data!PowerOnStep

-----------------------------------------------------------------------------
(***************************************************************************)
(* The objects that are written.                                           *)
(***************************************************************************)
\* Budgets are only spent.
LEMMA Spent ==
    ASSUME TypeOK
    PROVE  /\ Data!Fault => dataBudget' \in [edits : Nat, faults : Nat]
           /\ \A op : Data!EditData(op) => dataBudget' \in [edits : Nat, faults : Nat]
BY DEF TypeOK, Data!Fault, Data!EditData

\* The object that does not exist, a new one, and the API server's copy of one.
LEMMA DataFields ==
    /\ Data!NoData \in DataRecords
    /\ Data!NotReading \in Readings /\ Data!NotReading.active = FALSE
    /\ \A u \in Urls \cup {NoUrl} : Data!NewData(u) \in DataRecords
    /\ \A new \in DataRecords : Data!Stored(new) \in DataRecords
<1>1. Data!NoData \in DataRecords
  BY DEF Data!NoData, DataRecords
<1>2. Data!NotReading \in Readings /\ Data!NotReading.active = FALSE
  BY <1>1 DEF Data!NotReading, Readings
<1>3. \A u \in Urls \cup {NoUrl} : Data!NewData(u) \in DataRecords
  BY DEF Data!NoData, Data!NewData, DataRecords
<1>4. \A new \in DataRecords : Data!Stored(new) \in DataRecords
  BY <1>1 DEF Data!Stored
<1>5. QED
  BY <1>1, <1>2, <1>3, <1>4

\* The controllers' changes of an object.
LEMMA ChangedFields ==
    ASSUME NEW d \in DataRecords
    PROVE  /\ \A f \in BOOLEAN : /\ [d EXCEPT !.error = f] \in DataRecords
                                 /\ [d EXCEPT !.deleting = f] \in DataRecords
                                 /\ [d EXCEPT !.owner = f] \in DataRecords
                                 /\ [d EXCEPT !.finalizer = f] \in DataRecords
           /\ \A u \in Urls \cup {NoUrl} : /\ [d EXCEPT !.url = u] \in DataRecords
                                           /\ [d EXCEPT !.attached = u] \in DataRecords
           /\ d.url \in Urls \cup {NoUrl}
BY DEF DataRecords

\* What is put is a DataImage, and every copy of it old.
LEMMA PutFields ==
    ASSUME NEW new \in DataRecords, Data!Put(new)
    PROVE  di' \in DataRecords /\ diFresh' \in BOOLEAN
BY DataFields DEF Data!Put

\* The status update that ends a pass.
LEMMA SavedFields ==
    ASSUME TypeOK, NEW new \in DataRecords, NEW done \in BOOLEAN, Data!SaveAttached(new, done)
    PROVE  /\ di' \in DataRecords /\ diFresh' \in BOOLEAN
           /\ dataBudget' \in [edits : Nat, faults : Nat]
BY PutFields, Spent DEF Data!SaveAttached, TypeOK

\* The copy that a pass has read may be found stale, and nothing else.
LEMMA StaleReading ==
    ASSUME TypeOK, NEW f, reading' = [reading EXCEPT !.fresh = f], f \in BOOLEAN
    PROVE  /\ reading' \in Readings
           /\ reading'.active = reading.active /\ reading'.inserted = reading.inserted
BY DEF TypeOK, Readings

-----------------------------------------------------------------------------
(***************************************************************************)
(* The actions.                                                            *)
(***************************************************************************)
\* A step that leaves the host, the drive and what was read of them alone.
LEMMA ObjectStepKeeps ==
    ASSUME IInv, UNCHANGED <<power, media>>,
           di' \in DataRecords, seenDi' \in DataRecords, diFresh' \in BOOLEAN,
           dataBudget' \in [edits : Nat, faults : Nat],
           reading' \in Readings,
           reading'.active => reading.active /\ reading'.inserted = reading.inserted
    PROVE  DataStep
<1>1. TypeOK'
  BY DEF IInv, TypeOK
<1>2. ReadingHolds'
  BY DEF IInv, ReadingHolds, Data!Busy, Data!Inserted
<1>3. Data!PowerOnStep
  BY DEF Data!PowerOnStep
<1>4. QED
  BY <1>1, <1>2, <1>3 DEF DataStep, IInv

\* The drive and the object are read at once, while Ironic is idle.
LEMMA ReadKeeps ==
    ASSUME IInv, Data!ReadDataImage \/ Data!ReadFails
    PROVE  DataStep
<1>0. TypeOK /\ seenDi \in DataRecords /\ di \in DataRecords /\ diFresh \in BOOLEAN
  BY DEF IInv, TypeOK
<1>1. CASE Data!ReadDataImage
  <2>1. /\ reading' = [active |-> TRUE, di |-> seenDi, inserted |-> Data!Inserted, fresh |-> diFresh]
        /\ ~Data!Busy /\ UNCHANGED <<di, seenDi, diFresh, power, media, dataBudget>>
    BY <1>1 DEF Data!ReadDataImage, Data!GetDataImageStatus
  <2> DEFINE inserted == Data!Inserted
  <2>2. inserted \in BOOLEAN
    BY DEF Data!Inserted
  <2>3. reading' = [active |-> TRUE, di |-> seenDi, inserted |-> inserted, fresh |-> diFresh]
    BY <2>1
  <2> HIDE DEF inserted
  <2>4. reading' \in Readings /\ reading'.inserted = inserted
    BY <1>0, <2>2, <2>3 DEF Readings
  <2>5. TypeOK'
    BY <2>1, <2>4 DEF IInv, TypeOK
  <2>6. ReadingHolds'
    BY <2>1, <2>4 DEF ReadingHolds, Data!Busy, Data!Inserted, inserted
  <2>7. Data!PowerOnStep
    BY <2>1 DEF Data!PowerOnStep
  <2>8. QED
    BY <2>5, <2>6, <2>7 DEF DataStep, IInv
<1>2. CASE Data!ReadFails
  <2>1. /\ Data!Fault /\ UNCHANGED <<seenDi, reading, power, media>>
        /\ Data!Put([seenDi EXCEPT !.error = TRUE]) \/ UNCHANGED <<di, diFresh>>
    BY <1>2 DEF Data!ReadFails
  <2>2. [seenDi EXCEPT !.error = TRUE] \in DataRecords
    BY <1>0, ChangedFields
  <2>3. di' \in DataRecords /\ diFresh' \in BOOLEAN
    BY <1>0, <2>1, <2>2, PutFields
  <2>4. dataBudget' \in [edits : Nat, faults : Nat]
    BY <1>0, <2>1, Spent
  <2>5. reading \in Readings
    BY DEF IInv, TypeOK
  <2>6. QED
    BY <1>0, <2>1, <2>3, <2>4, <2>5, ObjectStepKeeps
<1>3. QED
  BY <1>1, <1>2

\* The passes that end without power-on.
LEMMA PassKeeps ==
    ASSUME IInv, Data!ForgetAttached \/ Data!DetachDataImage \/ Data!AttachDataImage \/ Data!PowerOnDelayed
    PROVE  DataStep
<1>1. /\ TypeOK /\ di \in DataRecords /\ seenDi \in DataRecords /\ diFresh \in BOOLEAN
      /\ reading.di \in DataRecords /\ dataBudget \in [edits : Nat, faults : Nat]
      /\ media \in [image : Urls \cup {NoUrl}, op : {"none", "attach", "detach"},
                    url : Urls \cup {NoUrl}]
  BY DEF IInv, TypeOK, Readings
<1>2. reading' = Data!NotReading /\ UNCHANGED <<seenDi, power>>
  BY DEF Data!ForgetAttached, Data!DetachDataImage, Data!AttachDataImage, Data!PowerOnDelayed, Data!EndPass
<1>3. /\ [reading.di EXCEPT !.attached = NoUrl] \in DataRecords
      /\ [reading.di EXCEPT !.attached = reading.di.url] \in DataRecords
      /\ [reading.di EXCEPT !.error = TRUE] \in DataRecords
      /\ [reading.di EXCEPT !.error = FALSE] \in DataRecords
      /\ reading.di.url \in Urls \cup {NoUrl}
  BY <1>1, ChangedFields
<1>4. /\ di' \in DataRecords /\ diFresh' \in BOOLEAN
      /\ dataBudget' \in [edits : Nat, faults : Nat]
  <2>1. CASE Data!ForgetAttached
    BY <1>1, <1>3, <2>1, SavedFields DEF Data!ForgetAttached
  <2>2. CASE Data!DetachDataImage
    BY <1>1, <1>3, <2>2, PutFields, Spent DEF Data!DetachDataImage
  <2>3. CASE Data!AttachDataImage
    <3>1. \/ \E done \in BOOLEAN :
               Data!SaveAttached([reading.di EXCEPT !.attached = reading.di.url], done)
          \/ /\ Data!Fault
             /\ Data!Put([reading.di EXCEPT !.error = TRUE]) \/ UNCHANGED <<di, diFresh>>
      BY <2>3 DEF Data!AttachDataImage
    <3>2. QED
      BY <1>1, <1>3, <3>1, SavedFields, PutFields, Spent
  <2>4. CASE Data!PowerOnDelayed
    BY <1>1, <1>3, <2>4, SavedFields DEF Data!PowerOnDelayed
  <2>5. QED
    BY <2>1, <2>2, <2>3, <2>4
<1>5. media' \in [image : Urls \cup {NoUrl}, op : {"none", "attach", "detach"},
                  url : Urls \cup {NoUrl}]
  <2>1. \/ media' = media
        \/ media' = [media EXCEPT !.op = "detach"]
        \/ media' = [media EXCEPT !.op = "attach", !.url = reading.di.url]
    BY DEF Data!ForgetAttached, Data!DetachDataImage, Data!AttachDataImage, Data!PowerOnDelayed
  <2>2. QED
    BY <1>1, <1>3, <2>1
<1>6. TypeOK'
  BY <1>1, <1>2, <1>4, <1>5, DataFields DEF TypeOK
<1>7. ReadingHolds' /\ Data!PowerOnStep
  BY <1>2, DataFields DEF ReadingHolds, Data!PowerOnStep
<1>8. QED
  BY <1>6, <1>7 DEF DataStep, IInv

\* The host is powered on after a pass with nothing to attach and nothing to detach:
\* what was read still holds, so the right image is in the drive.
LEMMA PowerOnKeeps ==
    ASSUME IInv, Data!PowerOn
    PROVE  DataStep
<1>1. /\ TypeOK /\ di \in DataRecords /\ seenDi \in DataRecords /\ diFresh \in BOOLEAN
      /\ reading.di \in DataRecords /\ reading.inserted \in BOOLEAN
      /\ power \in Powers
  BY DEF IInv, TypeOK, Readings
<1>2. /\ reading' = Data!NotReading /\ UNCHANGED <<seenDi, media>>
      /\ power' = [power EXCEPT !.on = TRUE]
  BY DEF Data!PowerOn, Data!EndPass
<1>3. power' \in Powers
  BY <1>1, <1>2 DEF Powers
<1>4. /\ di' \in DataRecords /\ diFresh' \in BOOLEAN
      /\ dataBudget' \in [edits : Nat, faults : Nat]
  <2>1. \/ UNCHANGED <<di, diFresh, dataBudget>>
        \/ Data!SaveAttached([reading.di EXCEPT !.error = FALSE], TRUE)
    BY DEF Data!PowerOn
  <2>2. [reading.di EXCEPT !.error = FALSE] \in DataRecords
    BY <1>1, ChangedFields
  <2>3. QED
    BY <1>1, <2>1, <2>2, SavedFields DEF TypeOK
<1>5. TypeOK'
  BY <1>1, <1>2, <1>3, <1>4, DataFields DEF TypeOK
<1>6. Data!PowerOnStep
  <2>1. SUFFICES ASSUME reading.active
                 PROVE  /\ ~Data!Busy
                        /\ reading.di.deleting => ~Data!Inserted
                        /\ ~reading.di.deleting /\ reading.di.url # NoUrl => Data!Inserted
    BY DEF Data!PowerOnStep
  <2>2. Data!Known /\ ~Data!MustDetach /\ ~Data!MustAttach
    BY <2>1 DEF Data!PowerOn
  <2>3. ~Data!Busy /\ reading.inserted = Data!Inserted
    BY <2>1 DEF IInv, ReadingHolds
  <2>4. reading.di.deleting => ~reading.inserted
    BY <2>2 DEF Data!MustDetach
  <2>5. ~reading.di.deleting /\ reading.di.url # NoUrl => reading.inserted
    BY <2>2 DEF Data!Known, Data!MustDetach, Data!MustAttach
  <2>6. QED
    BY <2>3, <2>4, <2>5
<1>7. ReadingHolds'
  BY <1>2, DataFields DEF ReadingHolds
<1>8. QED
  BY <1>5, <1>6, <1>7 DEF DataStep, IInv

\* An update by the DataImage controller.
LEMMA UpdateFields ==
    ASSUME TypeOK, NEW new \in DataRecords, NEW requeue, Data!Update(new, requeue)
    PROVE  /\ di' \in DataRecords /\ diFresh' \in BOOLEAN
           /\ dataBudget' \in [edits : Nat, faults : Nat]
           /\ reading' \in Readings
           /\ reading'.active = reading.active /\ reading'.inserted = reading.inserted
<1>1. CASE UNCHANGED <<di, diFresh, reading>> /\ Data!Fault
  BY <1>1, Spent DEF TypeOK
<1>2. CASE /\ di' = Data!Stored(new) /\ diFresh' = (new = di) /\ UNCHANGED dataBudget
           /\ reading' = [reading EXCEPT !.fresh = @ /\ new = di]
  <2> DEFINE f == reading.fresh /\ new = di
  <2>1. reading' = [reading EXCEPT !.fresh = f] /\ f \in BOOLEAN
    BY <1>2 DEF TypeOK, Readings
  <2> HIDE DEF f
  <2>2. QED
    BY <1>2, <2>1, StaleReading, DataFields DEF TypeOK
<1>3. QED
  BY <1>1, <1>2 DEF Data!Update

\* The DataImage controller writes the object and never the drive.
LEMMA ReconcileKeeps ==
    ASSUME IInv, Data!ReconcileDataImage
    PROVE  DataStep
<1>1. /\ TypeOK /\ di \in DataRecords /\ seenDi \in DataRecords /\ diFresh \in BOOLEAN
      /\ reading \in Readings /\ dataBudget \in [edits : Nat, faults : Nat]
  BY DEF IInv, TypeOK
<1>2. UNCHANGED <<seenDi, power, media>>
  BY DEF Data!ReconcileDataImage
<1>3. ASSUME Data!Forget PROVE DataStep
  BY <1>1, <1>2, <1>3, ObjectStepKeeps DEF Data!Forget
<1>4. ASSUME NEW new \in DataRecords, NEW requeue, Data!Update(new, requeue) PROVE DataStep
  BY <1>1, <1>2, <1>4, UpdateFields, ObjectStepKeeps
<1>5. /\ [seenDi EXCEPT !.finalizer = FALSE] \in DataRecords
      /\ [seenDi EXCEPT !.finalizer = TRUE] \in DataRecords
      /\ [seenDi EXCEPT !.owner = TRUE] \in DataRecords
      /\ [seenDi EXCEPT !.error = FALSE] \in DataRecords
      /\ [seenDi EXCEPT !.error = TRUE] \in DataRecords
  BY <1>1, ChangedFields
<1>6. CASE (~seenDi.exists /\ Data!Forget) \/ Data!ReconcileWithoutHost \/ Data!ReconcilePaused
  BY <1>3, <1>4, <1>5, <1>6 DEF Data!ReconcileWithoutHost, Data!ReconcilePaused
<1>7. CASE Data!ReconcileMetadata
  BY <1>4, <1>5, <1>7 DEF Data!ReconcileMetadata
<1>8. CASE Data!ReconcileDetached \/ Data!ReconcileDeleted \/ Data!ReconcileStatus
  BY <1>4, <1>5, <1>8 DEF Data!ReconcileDetached, Data!ReconcileDeleted, Data!ReconcileStatus
<1>9. CASE Data!ReconcileFailed
  <2>1. /\ Data!Fault
        /\ \/ /\ Data!Put([seenDi EXCEPT !.error = TRUE])
              /\ reading' = [reading EXCEPT !.fresh = FALSE]
           \/ UNCHANGED <<di, diFresh, reading>>
    BY <1>9 DEF Data!ReconcileFailed
  <2>2. di' \in DataRecords /\ diFresh' \in BOOLEAN
    BY <1>1, <1>5, <2>1, PutFields
  <2>3. /\ reading' \in Readings
        /\ reading'.active = reading.active /\ reading'.inserted = reading.inserted
    BY <1>1, <2>1, StaleReading
  <2>4. dataBudget' \in [edits : Nat, faults : Nat]
    BY <1>1, <2>1, Spent
  <2>5. QED
    BY <1>1, <1>2, <2>2, <2>3, <2>4, ObjectStepKeeps
<1>10. QED
  BY <1>6, <1>7, <1>8, <1>9 DEF Data!ReconcileDataImage

\* The cache, and the users' edits of the object.
LEMMA EditsKeep ==
    ASSUME IInv, Data!SyncDataImage \/ Data!EditDataImage
    PROVE  DataStep
<1>1. /\ TypeOK /\ di \in DataRecords /\ seenDi \in DataRecords /\ diFresh \in BOOLEAN
      /\ reading \in Readings /\ dataBudget \in [edits : Nat, faults : Nat]
  BY DEF IInv, TypeOK
<1>2. CASE Data!SyncDataImage
  BY <1>1, <1>2, ObjectStepKeeps DEF Data!SyncDataImage
<1>3. CASE Data!EditDataImage
  <2>1. PICK new \in DataRecords : Data!UserPut(new)
    <3>1. CASE /\ Data!EditData("url")
               /\ \E u \in (Urls \cup {NoUrl}) \ {di.url} :
                     Data!UserPut(IF di.exists THEN [di EXCEPT !.url = u] ELSE Data!NewData(u))
      <4>1. \A u \in Urls \cup {NoUrl} :
               (IF di.exists THEN [di EXCEPT !.url = u] ELSE Data!NewData(u)) \in DataRecords
        BY <1>1, ChangedFields, DataFields
      <4>2. QED
        BY <3>1, <4>1
    <3>2. CASE Data!UserPut([di EXCEPT !.deleting = TRUE])
      BY <1>1, <3>2, ChangedFields
    <3>3. QED
      BY <1>3, <3>1, <3>2 DEF Data!EditDataImage
  <2>2. UNCHANGED <<seenDi, power, media>> /\ dataBudget' \in [edits : Nat, faults : Nat]
    BY <1>1, <1>3, Spent DEF Data!EditDataImage
  <2>3. di' \in DataRecords /\ diFresh' \in BOOLEAN
    BY <2>1, PutFields DEF Data!UserPut
  <2>4. /\ reading' \in Readings
        /\ reading'.active = reading.active /\ reading'.inserted = reading.inserted
    BY <1>1, <2>1, StaleReading DEF Data!UserPut
  <2>5. QED
    BY <1>1, <2>2, <2>3, <2>4, ObjectStepKeeps
<1>4. QED
  BY <1>2, <1>3

\* Ironic finishes what it was asked to do: nobody reads meanwhile.
LEMMA IronicKeeps ==
    ASSUME IInv, Data!IronicFinishes \/ Data!IronicFails
    PROVE  DataStep
<1>1. /\ TypeOK
      /\ media \in [image : Urls \cup {NoUrl}, op : {"none", "attach", "detach"},
                    url : Urls \cup {NoUrl}]
      /\ Data!Busy
  BY DEF IInv, TypeOK, Data!IronicFinishes, Data!IronicFails
<1>2. ~reading.active
  BY <1>1 DEF IInv, ReadingHolds
<1>3. /\ UNCHANGED <<di, seenDi, diFresh, reading, power>>
      /\ \/ UNCHANGED dataBudget
         \/ Data!Fault
  BY DEF Data!IronicFinishes, Data!IronicFails
<1>4. dataBudget' \in [edits : Nat, faults : Nat]
  BY <1>1, <1>3, Spent DEF TypeOK
<1>5. media' \in [image : Urls \cup {NoUrl}, op : {"none", "attach", "detach"},
                  url : Urls \cup {NoUrl}]
  <2>1. CASE Data!IronicFinishes
    <3> DEFINE image == IF media.op = "attach" THEN media.url ELSE NoUrl
    <3>1. image \in Urls \cup {NoUrl} /\ media' = [image |-> image, op |-> "none", url |-> NoUrl]
      BY <1>1, <2>1 DEF Data!IronicFinishes
    <3> HIDE DEF image
    <3>2. QED
      BY <3>1
  <2>2. CASE Data!IronicFails
    BY <1>1, <2>2 DEF Data!IronicFails
  <2>3. QED
    BY <2>1, <2>2
<1>6. TypeOK'
  BY <1>3, <1>4, <1>5 DEF IInv, TypeOK
<1>7. ReadingHolds' /\ Data!PowerOnStep
  BY <1>2, <1>3 DEF ReadingHolds, Data!PowerOnStep
<1>8. QED
  BY <1>6, <1>7 DEF DataStep, IInv

\* The users' edits of the host never power it on, and it is deleted between passes.
LEMMA HostEditsKeep ==
    ASSUME IInv, Data!EditPower \/ Data!DeleteHost
    PROVE  DataStep
<1>1. /\ TypeOK /\ di \in DataRecords /\ diFresh \in BOOLEAN /\ power \in Powers
      /\ media \in [image : Urls \cup {NoUrl}, op : {"none", "attach", "detach"},
                    url : Urls \cup {NoUrl}]
  BY DEF IInv, TypeOK
<1>2. dataBudget' \in [edits : Nat, faults : Nat] /\ UNCHANGED <<seenDi, reading>>
  BY <1>1, Spent DEF Data!EditPower, Data!DeleteHost
<1>3. \/ power' = [power EXCEPT !.on = FALSE]
      \/ power' = [power EXCEPT !.paused = ~@]
      \/ power' = [power EXCEPT !.detached = ~@]
      \/ power' = [power EXCEPT !.exists = FALSE]
  BY DEF Data!EditPower, Data!DeleteHost
<1>4. power' \in Powers /\ (power'.on => power.on)
  BY <1>1, <1>3 DEF Powers
<1>5. Data!PowerOnStep
  BY <1>4 DEF Data!PowerOnStep
<1>6. CASE Data!EditPower
  <2>1. UNCHANGED <<di, diFresh, media>>
    BY <1>6 DEF Data!EditPower
  <2>2. TypeOK'
    BY <1>1, <1>2, <1>4, <2>1 DEF TypeOK
  <2>3. ReadingHolds'
    BY <1>2, <2>1 DEF IInv, ReadingHolds, Data!Busy, Data!Inserted
  <2>4. QED
    BY <1>5, <2>2, <2>3 DEF DataStep, IInv
<1>7. CASE Data!DeleteHost
  <2>1. /\ ~reading.active /\ media' = [media EXCEPT !.image = NoUrl]
        /\ Data!Put([di EXCEPT !.deleting = TRUE]) \/ UNCHANGED <<di, diFresh>>
    BY <1>7 DEF Data!DeleteHost
  <2>2. di' \in DataRecords /\ diFresh' \in BOOLEAN
    BY <1>1, <2>1, ChangedFields, PutFields
  <2>3. media' \in [image : Urls \cup {NoUrl}, op : {"none", "attach", "detach"},
                    url : Urls \cup {NoUrl}]
    BY <1>1, <2>1
  <2>4. TypeOK'
    BY <1>1, <1>2, <1>4, <2>2, <2>3 DEF TypeOK
  <2>5. ReadingHolds'
    BY <1>2, <2>1 DEF ReadingHolds
  <2>6. QED
    BY <1>5, <2>4, <2>5 DEF DataStep, IInv
<1>8. QED
  BY <1>6, <1>7

-----------------------------------------------------------------------------
\* handleDataImageActions: no host is powered on while Ironic still attaches or
\* detaches, with an image although the DataImage that was read is being deleted, or
\* without one although it asks for one, for any images, edits and faults.
THEOREM PowerOnWithSettledDriveAlways ==
    ASSUME ConstantsFit
    PROVE  Spec => PowerOnWithSettledDrive
<1>1. Data!Init => IInv
  <2> SUFFICES ASSUME Data!Init PROVE IInv
    OBVIOUS
  <2>1. di \in DataRecords /\ seenDi \in DataRecords /\ reading = Data!NotReading
    BY DataFields DEF Data!Init
  <2>2. TypeOK
    BY <2>1, DataFields DEF Data!Init, TypeOK, Powers, ConstantsFit
  <2>3. QED
    BY <2>1, <2>2, DataFields DEF IInv, ReadingHolds
<1>2. IInv /\ [Next]_vars => IInv' /\ [Data!PowerOnStep]_dataVars
  <2> SUFFICES ASSUME IInv, Data!Next \/ UNCHANGED dataVars PROVE DataStep
    BY DEF DataStep, Next, vars
  <2>1. CASE Data!HostSteps
    BY <2>1, ReadKeeps, PassKeeps, PowerOnKeeps DEF Data!HostSteps
  <2>2. CASE Data!ReconcileDataImage
    BY <2>2, ReconcileKeeps
  <2>3. CASE Data!SyncDataImage \/ Data!EditDataImage
    BY <2>3, EditsKeep
  <2>4. CASE Data!IronicFinishes \/ Data!IronicFails
    BY <2>4, IronicKeeps
  <2>5. CASE Data!EditPower \/ Data!DeleteHost
    BY <2>5, HostEditsKeep
  <2>6. CASE UNCHANGED dataVars
    <3>1. UNCHANGED <<di, seenDi, diFresh, reading, power, media, dataBudget>>
      BY <2>6 DEF dataVars
    <3>2. QED
      BY <3>1, ObjectStepKeeps DEF IInv, TypeOK
  <2>7. QED
    BY <2>1, <2>2, <2>3, <2>4, <2>5, <2>6 DEF Data!Next
<1>3. Init => Data!Init
  BY DEF Init
<1>4. QED
  BY <1>1, <1>2, <1>3, PTL DEF Spec, PowerOnWithSettledDrive
================================================================================
