------------------------------ MODULE DataImage ------------------------------
(***************************************************************************)
(* An image attached to a provisioned host as virtual media.               *)
(*                                                                         *)
(* Two controllers share the DataImage: its own one adds the owner and the *)
(* finalizer and removes the finalizer once nothing is attached; the host  *)
(* controller attaches and detaches, whenever the host is off and is to be *)
(* powered on. Ironic attaches and detaches in the background, locks the   *)
(* node meanwhile, and only tells whether some image is attached, so which *)
(* one is known from the status alone.                                     *)
(*                                                                         *)
(* The host controller's reads (object and media) and its call are steps   *)
(* of their own. The work queue of the DataImage controller is modelled:   *)
(* it is fed by changes of the generation and by the controller itself.    *)
(*                                                                         *)
(* Data: delays, the error count that sets them and events are left out.   *)
(***************************************************************************)
EXTENDS Integers

CONSTANTS Urls, NoUrl,
          DataOps,        \* what users do: subset of {"url", "delete", "reboot", "pause",
                          \* "detach", "host"}
          MaxDataEdits, MaxDataFaults

VARIABLES
    di,        \* the DataImage
    seenDi,    \* the cache's copy
    diFresh,   \* is it the latest?
    reading,   \* what the host controller has read, while it works on it
    power,     \* the host: exists, is paused, detached, on
    media,     \* the virtual media: the image in it, the operation under way
    queued,    \* does the DataImage controller have work?
    dataBudget

dataVars == <<di, seenDi, diFresh, reading, power, media, queued, dataBudget>>

NoData == [exists |-> FALSE, deleting |-> FALSE, owner |-> FALSE, finalizer |-> FALSE,
           url |-> NoUrl, attached |-> NoUrl, error |-> FALSE]
NewData(url) == [NoData EXCEPT !.exists = TRUE, !.url = url]
NotReading == [active |-> FALSE, di |-> NoData, inserted |-> FALSE, fresh |-> FALSE]

Init ==
    /\ di \in {NewData(u) : u \in Urls}
    /\ seenDi = NoData /\ diFresh = FALSE
    /\ reading = NotReading
    /\ power = [exists |-> TRUE, paused |-> FALSE, detached |-> FALSE, on |-> FALSE]
    /\ media = [image |-> NoUrl, op |-> "none", url |-> NoUrl]
    /\ queued = FALSE
    /\ dataBudget = [edits |-> MaxDataEdits, faults |-> MaxDataFaults]

Fault ==
    /\ dataBudget.faults > 0
    /\ dataBudget' = [dataBudget EXCEPT !.faults = @ - 1]

Busy == media.op # "none"        \* the node is reserved
Inserted == media.image # NoUrl

\* Deleting an object and removing its finalizer makes it disappear.
Stored(new) == IF new.deleting /\ ~new.finalizer THEN NoData ELSE new

Put(new) ==
    /\ di' = Stored(new)
    /\ diFresh' = FALSE

(***************************************************************************)
(* Host controller: handleDataImageActions in manageHostPower.             *)
(***************************************************************************)
HandleDataImage == power.exists /\ ~power.paused /\ ~power.detached /\ ~power.on

GetDataImageStatusAnyway == TRUE

\* GetDataImageStatus refuses to answer while the node is busy.
GetDataImageStatus == ~Busy

ReadDataImage ==
    /\ HandleDataImage /\ ~reading.active
    /\ seenDi.exists /\ GetDataImageStatus
    /\ reading' = [active |-> TRUE, di |-> seenDi, inserted |-> Inserted, fresh |-> diFresh]
    /\ UNCHANGED <<di, seenDi, diFresh, power, media, queued, dataBudget>>

\* Any other error of GetDataImageStatus is recorded, and the pass ends.
ReadFails ==
    /\ HandleDataImage /\ ~reading.active
    /\ seenDi.exists /\ Fault
    /\ IF diFresh THEN Put([seenDi EXCEPT !.error = TRUE]) ELSE UNCHANGED <<di, diFresh>>
    /\ UNCHANGED <<seenDi, reading, power, media, queued>>

\* The status update that ends a pass: written, refused as stale, or lost.
SaveAttached(new, done) ==
    IF done
    THEN reading.fresh /\ Put(new) /\ UNCHANGED dataBudget
    ELSE /\ \/ ~reading.fresh /\ UNCHANGED dataBudget
            \/ reading.fresh /\ Fault
         /\ UNCHANGED <<di, diFresh>>

EndPass == reading' = NotReading /\ UNCHANGED <<seenDi, queued>>

ForgetAttachedUnsaved ==
    /\ reading.active /\ ~reading.inserted /\ reading.di.attached # NoUrl
    /\ EndPass /\ UNCHANGED <<di, diFresh, power, media, dataBudget>>

\* Nothing is attached any more: forget the URL and start again.
ForgetAttached ==
    /\ reading.active /\ ~reading.inserted /\ reading.di.attached # NoUrl
    /\ \E done \in BOOLEAN : SaveAttached([reading.di EXCEPT !.attached = NoUrl], done)
    /\ EndPass /\ UNCHANGED <<power, media>>

Known == reading.active /\ (reading.inserted \/ reading.di.attached = NoUrl)

MustDetach ==
    IF reading.di.deleting THEN reading.inserted
    ELSE reading.di.url # reading.di.attached /\ reading.di.attached # NoUrl

MustAttach ==
    /\ ~reading.di.deleting /\ ~MustDetach
    /\ reading.di.url # reading.di.attached /\ reading.di.url # NoUrl

\* detachDataImage: Ironic starts, or refuses and the error is recorded.
DetachDataImage ==
    /\ Known /\ MustDetach
    /\ \/ /\ media' = [media EXCEPT !.op = "detach"]
          /\ UNCHANGED <<di, diFresh, dataBudget>>
       \/ /\ Fault /\ UNCHANGED media
          /\ IF reading.fresh THEN Put([reading.di EXCEPT !.error = TRUE])
             ELSE UNCHANGED <<di, diFresh>>
    /\ EndPass /\ UNCHANGED power

\* attachDataImage records the URL at once, assuming that Ironic succeeds.
AttachDataImage ==
    /\ Known /\ MustAttach
    /\ \/ /\ media' = [media EXCEPT !.op = "attach", !.url = reading.di.url]
          /\ \E done \in BOOLEAN : SaveAttached([reading.di EXCEPT !.attached = reading.di.url], done)
       \/ /\ Fault /\ UNCHANGED media
          /\ IF reading.fresh THEN Put([reading.di EXCEPT !.error = TRUE])
             ELSE UNCHANGED <<di, diFresh>>
    /\ EndPass /\ UNCHANGED power

PowerOn ==
    /\ power' = [power EXCEPT !.on = TRUE]
    /\ EndPass /\ UNCHANGED media
    /\ \/ /\ HandleDataImage /\ ~reading.active /\ ~seenDi.exists
          /\ UNCHANGED <<di, diFresh, dataBudget>>
       \/ /\ Known /\ ~MustDetach /\ ~MustAttach /\ reading.di.deleting
          /\ UNCHANGED <<di, diFresh, dataBudget>>
       \/ /\ Known /\ ~MustDetach /\ ~MustAttach /\ ~reading.di.deleting
          /\ SaveAttached([reading.di EXCEPT !.error = FALSE], TRUE)

\* The status could not be saved: the pass ends with an error.
PowerOnDelayed ==
    /\ Known /\ ~MustDetach /\ ~MustAttach /\ ~reading.di.deleting
    /\ SaveAttached([reading.di EXCEPT !.error = FALSE], FALSE)
    /\ EndPass /\ UNCHANGED <<power, media>>

(***************************************************************************)
(* DataImage controller: Reconcile, with what becomes of the work queue.   *)
(***************************************************************************)
UpdateUnretried(new, requeue) ==
    \/ /\ diFresh
       /\ di' = Stored(new) /\ diFresh' = (new = di)
       /\ queued' = requeue
       /\ reading' = [reading EXCEPT !.fresh = @ /\ new = di]
       /\ UNCHANGED dataBudget
    \/ /\ diFresh /\ Fault
       /\ queued' = FALSE
       /\ UNCHANGED <<di, diFresh, reading>>

\* An update by the controller; a failed one is retried.
Update(new, requeue) ==
    \/ /\ diFresh
       /\ di' = Stored(new) /\ diFresh' = (new = di)
       /\ queued' = requeue
       /\ reading' = [reading EXCEPT !.fresh = @ /\ new = di]
       /\ UNCHANGED dataBudget
    \/ /\ diFresh /\ Fault
       /\ UNCHANGED <<di, diFresh, queued, reading>>

Forget == queued' = FALSE /\ UNCHANGED <<di, diFresh, reading, dataBudget>>

ReconcileWithoutHost ==
    /\ seenDi.exists /\ ~power.exists
    /\ IF seenDi.finalizer THEN Update([seenDi EXCEPT !.finalizer = FALSE], FALSE) ELSE Forget

\* "If the reconciliation is paused, requeue", says the code, and does not.
ReconcilePaused == seenDi.exists /\ power.exists /\ power.paused /\ Forget

Managed == seenDi.exists /\ power.exists /\ ~power.paused

ReconcileMetadata ==
    /\ Managed
    /\ \/ /\ ~seenDi.owner
          /\ Update([seenDi EXCEPT !.owner = TRUE], TRUE)
       \/ /\ seenDi.owner /\ ~seenDi.deleting /\ ~seenDi.finalizer
          /\ Update([seenDi EXCEPT !.finalizer = TRUE], TRUE)

Adopted == Managed /\ seenDi.owner /\ (seenDi.finalizer \/ seenDi.deleting)

ReconcileDetached ==
    /\ Adopted /\ power.detached /\ seenDi.deleting
    /\ Update([seenDi EXCEPT !.finalizer = FALSE], FALSE)

ReconcileDeleted ==
    /\ Adopted /\ ~power.detached /\ seenDi.deleting
    /\ GetDataImageStatus /\ ~Inserted
    /\ Update([seenDi EXCEPT !.finalizer = FALSE], FALSE)

ReconcileStatus ==
    /\ Adopted /\ ~power.detached /\ ~seenDi.deleting
    /\ GetDataImageStatus
    /\ Update([seenDi EXCEPT !.error = FALSE], FALSE)

\* An error of GetDataImageStatus is recorded, and the work queued again.
ReconcileFailed ==
    /\ Adopted /\ ~power.detached /\ Fault
    /\ IF diFresh
       THEN Put([seenDi EXCEPT !.error = TRUE]) /\ reading' = [reading EXCEPT !.fresh = FALSE]
       ELSE UNCHANGED <<di, diFresh, reading>>
    /\ UNCHANGED queued

ReconcileDataImage ==
    /\ queued
    /\ \/ ~seenDi.exists /\ Forget
       \/ ReconcileWithoutHost \/ ReconcilePaused \/ ReconcileMetadata
       \/ ReconcileDetached \/ ReconcileDeleted \/ ReconcileStatus \/ ReconcileFailed
    /\ UNCHANGED <<seenDi, power, media>>

(***************************************************************************)
(* The cache, Ironic and the users.                                        *)
(***************************************************************************)
\* updateEventHandler lets through what changes the generation.
SyncDataImage ==
    /\ ~diFresh
    /\ seenDi' = di /\ diFresh' = TRUE
    /\ queued' = \/ queued
                 \/ <<seenDi.exists, seenDi.url, seenDi.deleting>> # <<di.exists, di.url, di.deleting>>
    /\ UNCHANGED <<di, reading, power, media, dataBudget>>

IronicFinishes ==
    /\ Busy
    /\ media' = [image |-> IF media.op = "attach" THEN media.url ELSE NoUrl, op |-> "none",
                 url |-> NoUrl]
    /\ UNCHANGED <<di, seenDi, diFresh, reading, power, queued, dataBudget>>

IronicFails ==
    /\ Busy /\ Fault
    /\ media' = [media EXCEPT !.op = "none", !.url = NoUrl]
    /\ UNCHANGED <<di, seenDi, diFresh, reading, power, queued>>

EditData(op) ==
    /\ op \in DataOps /\ dataBudget.edits > 0
    /\ dataBudget' = [dataBudget EXCEPT !.edits = @ - 1]

\* A user's change of the object makes every copy of it stale.
UserPut(new) == Put(new) /\ reading' = [reading EXCEPT !.fresh = FALSE]

EditDataImage ==
    /\ \/ /\ EditData("url") /\ ~di.deleting
          /\ \E u \in (Urls \cup {NoUrl}) \ {di.url} :
                UserPut(IF di.exists THEN [di EXCEPT !.url = u] ELSE NewData(u))
       \/ /\ EditData("delete") /\ di.exists /\ ~di.deleting
          /\ UserPut([di EXCEPT !.deleting = TRUE])
    /\ UNCHANGED <<seenDi, power, media, queued>>

EditPower ==
    /\ \/ EditData("reboot") /\ power.on /\ power' = [power EXCEPT !.on = FALSE]
       \/ EditData("pause") /\ power' = [power EXCEPT !.paused = ~@]
       \/ EditData("detach") /\ power' = [power EXCEPT !.detached = ~@]
    /\ UNCHANGED <<di, seenDi, diFresh, reading, media, queued>>

\* The host is deleted: its node leaves Ironic, and its DataImage is collected.
DeleteHost ==
    /\ EditData("host") /\ power.exists /\ ~reading.active /\ ~Busy
    /\ power' = [power EXCEPT !.exists = FALSE]
    /\ media' = [media EXCEPT !.image = NoUrl]
    /\ IF di.owner /\ ~di.deleting THEN Put([di EXCEPT !.deleting = TRUE])
       ELSE UNCHANGED <<di, diFresh>>
    /\ UNCHANGED <<seenDi, reading, queued>>

HostSteps ==
    \/ ReadDataImage \/ ReadFails \/ ForgetAttached
    \/ DetachDataImage \/ AttachDataImage \/ PowerOn \/ PowerOnDelayed

Next ==
    \/ HostSteps \/ ReconcileDataImage
    \/ SyncDataImage \/ IronicFinishes \/ IronicFails
    \/ EditDataImage \/ EditPower \/ DeleteHost

Spec == Init /\ [][Next]_dataVars

(***************************************************************************)
(* Properties.                                                             *)
(***************************************************************************)
\* A host is never powered on while Ironic still attaches or detaches, with an
\* image in the drive although the DataImage that was read is being deleted, or
\* with an empty drive although it asks for an image. (Which image is in the
\* drive cannot be told: Ironic does not say, and the status is a guess.)
PowerOnStep ==
    (power'.on /\ ~power.on /\ reading.active) =>
        /\ ~Busy
        /\ reading.di.deleting => ~Inserted
        /\ ~reading.di.deleting /\ reading.di.url # NoUrl => Inserted
PowerOnWithSettledDrive == [][PowerOnStep]_dataVars

\* "In case of failure, this will be overridden in next reconcile": a running
\* host has the image attached that the status reports.
ReportedImageIsAttached ==
    power.on /\ ~Busy /\ di.attached # NoUrl /\ Inserted => media.image = di.attached

\* "Remove finalizer if DataImage has been requested for deletion and there is no
\* attached image": what is attached belongs to a DataImage, unless the host was
\* detached.
NoOrphanedImage == ~di.exists /\ Inserted => power.detached

\* The image does not keep the host from being powered on for ever.
HostPowersOn == []<>(power.on \/ ~power.exists \/ power.paused \/ power.detached)

\* A DataImage whose deletion does not end is still attached, if the host was
\* not paused meanwhile.
DeletionEnds ==
    []~power.paused => []<>(~di.deleting \/ Inserted \/ power.detached)
=============================================================================
