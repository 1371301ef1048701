------------------------- MODULE PreprovisioningImage -------------------------
(***************************************************************************)
(* The image a host boots for inspection, cleaning and deployment.         *)
(*                                                                         *)
(* The host controller creates a PreprovisioningImage and keeps its spec   *)
(* as it wants it; the image controller has the image built by the image   *)
(* provider, which caches builds until it is told to discard them, and     *)
(* reports in the status which configuration the image is for; the host    *)
(* takes an image whose status it recognises as the one it wants. Both     *)
(* controllers read the same lagging cache. Claiming the network data      *)
(* secret changes its version, and images are built for a version.         *)
(*                                                                         *)
(* Data: one network data secret; the URLs are one flag; the labels copied *)
(* from the host and the delays between retries are left out.              *)
(***************************************************************************)
EXTENDS Integers, Sequences

CONSTANTS
    WantedSpecs,      \* what the host may want: architecture, formats, network data
    SupportedFormats, \* formats the image provider supports
    Unsupported,      \* an architecture it does not support
    Unbuildable,      \* an architecture for which its builds are refused
    NoConfig,         \* the configuration of an empty status
    MaxImageEdits, MaxImageFaults

VARIABLES
    wanted,     \* the expected spec of the host
    img,        \* the PreprovisioningImage
    seenImg,    \* the cache's copy
    imgFresh,   \* is it the latest?
    secret,     \* the network data secret: 0 when missing, else its version; owners
    built,      \* configurations the provider holds an image for
    imgBudget

imgVars == <<wanted, img, seenImg, imgFresh, secret, built, imgBudget>>

NewStatus == [config |-> NoConfig, url |-> FALSE, ready |-> FALSE, readyGen |-> 0, error |-> FALSE]
NoImage == [exists |-> FALSE, deleting |-> FALSE, finalizer |-> FALSE, gen |-> 0,
            spec |-> NoConfig, status |-> NewStatus]

Init ==
    /\ wanted \in WantedSpecs
    /\ img = NoImage /\ seenImg = NoImage /\ imgFresh = TRUE
    /\ secret \in {[version |-> v, owners |-> {}] : v \in 0 .. 1}
    /\ built = {}
    /\ imgBudget = [edits |-> MaxImageEdits, faults |-> MaxImageFaults]

Fault ==
    /\ imgBudget.faults > 0
    /\ imgBudget' = [imgBudget EXCEPT !.faults = @ - 1]

\* An update that is written, refused because the copy is stale, or lost. An
\* update without effect leaves the resource version alone.
Save(new) ==
    \/ /\ imgFresh
       /\ img' = new /\ imgFresh' = (new = img)
       /\ UNCHANGED imgBudget
    \/ /\ ~imgFresh
       /\ UNCHANGED <<img, imgFresh, imgBudget>>
    \/ /\ imgFresh /\ Fault
       /\ UNCHANGED <<img, imgFresh>>

\* AcquireSecret by one of the owners "image" and "host": its first claim of
\* the secret writes the owner reference, and so a new version.
AcquireSecret(owner) ==
    IF owner \in secret.owners THEN secret
    ELSE [version |-> secret.version + 1, owners |-> secret.owners \cup {owner}]

(***************************************************************************)
(* Host controller: getPreprovImage and preprovImageAvailable.             *)
(***************************************************************************)
Requested == wanted.formats # <<>>

CreateImage ==
    /\ Requested /\ ~seenImg.exists
    /\ ~img.exists   \* else AlreadyExists
    /\ img' = [NoImage EXCEPT !.exists = TRUE, !.gen = 1, !.spec = wanted]
    /\ imgFresh' = FALSE
    /\ UNCHANGED <<wanted, seenImg, secret, built, imgBudget>>

UpdateSpec ==
    /\ Requested /\ seenImg.exists /\ ~seenImg.deleting
    /\ seenImg.spec # wanted
    /\ Save([seenImg EXCEPT !.spec = wanted, !.gen = @ + 1])
    /\ UNCHANGED <<wanted, seenImg, secret, built>>

\* The image is for the architecture and in a format that is asked for.
Recognised ==
    /\ Requested /\ seenImg.exists /\ ~seenImg.deleting /\ seenImg.spec = wanted
    /\ seenImg.status.config # NoConfig
    /\ seenImg.status.config.arch = seenImg.spec.arch
    /\ \E i \in DOMAIN seenImg.spec.formats : seenImg.spec.formats[i] = seenImg.status.config.format

ClaimNetworkData ==
    /\ Recognised /\ seenImg.spec.network /\ secret.version > 0
    /\ "host" \notin secret.owners
    /\ secret' = AcquireSecret("host")
    /\ UNCHANGED <<wanted, img, seenImg, imgFresh, built, imgBudget>>

NetworkDataIsNamed == seenImg.spec.network = (seenImg.status.config.net > 0)

NetworkDataIsCurrent ==
    IF seenImg.spec.network
    THEN /\ secret.version > 0 /\ "host" \in secret.owners
         /\ seenImg.status.config.net = secret.version
    ELSE seenImg.status.config.net = 0

\* preprovImageAvailable: the host boots this image.
PreprovImageAvailable ==
    /\ Recognised
    /\ NetworkDataIsCurrent
    /\ ~seenImg.status.error
    /\ seenImg.status.ready /\ seenImg.status.readyGen = seenImg.gen

(***************************************************************************)
(* Image controller.                                                       *)
(***************************************************************************)
AddFinalizer ==
    /\ seenImg.exists /\ ~seenImg.deleting /\ ~seenImg.finalizer
    /\ Save([seenImg EXCEPT !.finalizer = TRUE])
    /\ UNCHANGED <<wanted, seenImg, secret, built>>

DiscardExistingImage == built \ {seenImg.status.config}

\* Without its finalizer, an image that is being deleted is gone.
CleanUp ==
    /\ seenImg.exists /\ seenImg.deleting
    /\ built' = DiscardExistingImage
    /\ Save(NoImage)
    /\ UNCHANGED <<wanted, seenImg, secret>>

GetImageFormat(formats) ==
    LET supported == {i \in DOMAIN formats : formats[i] \in SupportedFormats}
    IN  IF supported = {} THEN "" ELSE formats[CHOOSE i \in supported : \A j \in supported : i <= j]

SetUnready(status, gen) == [status EXCEPT !.ready = FALSE, !.readyGen = gen]

SetError(status, gen) ==
    [status EXCEPT !.url = FALSE, !.ready = FALSE, !.readyGen = gen, !.error = TRUE]

SetImageKeepingError(url, config, gen) ==
    [config |-> config, url |-> url, ready |-> url, readyGen |-> gen, error |-> seenImg.status.error]

SetImage(url, config, gen) ==
    [config |-> config, url |-> url, ready |-> url, readyGen |-> gen, error |-> FALSE]

SaveStatus(status) == Save([seenImg EXCEPT !.status = status])

\* Nothing to build: the format, the architecture or the secret is missing.
CannotBuild(spec) ==
    \/ spec.arch = Unsupported
    \/ GetImageFormat(spec.formats) = ""
    \/ spec.network /\ secret.version = 0

ChangeConfigBeforeDiscard(config) ==
    /\ SaveStatus(SetImage(FALSE, config, seenImg.gen))
    /\ built' = built \ {config}

\* The configuration changed: a ready image is marked as not ready first; then
\* its build is discarded, and the new configuration recorded before it is built.
ChangeConfig(config) ==
    IF seenImg.status.ready
    THEN /\ SaveStatus(SetUnready(seenImg.status, seenImg.gen))
         /\ UNCHANGED built
    ELSE /\ built' = DiscardExistingImage
         /\ SaveStatus(SetImage(FALSE, config, seenImg.gen))

\* BuildImage: refused, done, or not ready yet.
Build(config) ==
    \/ /\ config.arch = Unbuildable
       /\ SaveStatus(SetError(seenImg.status, seenImg.gen))
       /\ UNCHANGED built
    \/ /\ config.arch # Unbuildable
       /\ built' = built \cup {config}
       /\ SaveStatus(SetImage(TRUE, config, seenImg.gen))
    \/ /\ config.arch # Unbuildable
       /\ built' = built \cup {config}
       /\ Fault
       /\ IF imgFresh
          THEN /\ img' = [seenImg EXCEPT !.status = SetUnready(seenImg.status, seenImg.gen)]
               /\ imgFresh' = (img' = img)
          ELSE UNCHANGED <<img, imgFresh>>

UpdateImage ==
    LET spec == seenImg.spec
        claimed == IF spec.network THEN AcquireSecret("image") ELSE secret
        config == [format |-> GetImageFormat(spec.formats), arch |-> spec.arch,
                   net |-> IF spec.network THEN claimed.version ELSE 0]
    IN  /\ seenImg.exists /\ ~seenImg.deleting /\ seenImg.finalizer
        /\ IF CannotBuild(spec)
           THEN SaveStatus(SetError(seenImg.status, seenImg.gen)) /\ UNCHANGED <<secret, built>>
           ELSE /\ secret' = claimed
                /\ IF seenImg.status.config # config THEN ChangeConfig(config) ELSE Build(config)
        /\ UNCHANGED <<wanted, seenImg>>

(***************************************************************************)
(* The cache and the users.                                                *)
(***************************************************************************)
SyncImage ==
    /\ ~imgFresh
    /\ seenImg' = img /\ imgFresh' = TRUE
    /\ UNCHANGED <<wanted, img, secret, built, imgBudget>>

EditImage == imgBudget.edits > 0 /\ imgBudget' = [imgBudget EXCEPT !.edits = @ - 1]

ChangeWanted ==
    /\ EditImage
    /\ wanted' \in WantedSpecs \ {wanted}
    /\ UNCHANGED <<img, seenImg, imgFresh, secret, built>>

ChangeSecret ==
    /\ EditImage
    /\ secret' = [secret EXCEPT !.version = @ + 1]
    /\ UNCHANGED <<wanted, img, seenImg, imgFresh, built>>

DeleteImage ==
    /\ EditImage
    /\ img.exists /\ ~img.deleting
    /\ img' = IF img.finalizer THEN [img EXCEPT !.deleting = TRUE] ELSE NoImage
    /\ imgFresh' = FALSE
    /\ UNCHANGED <<wanted, seenImg, secret, built>>

HostSteps == CreateImage \/ UpdateSpec \/ ClaimNetworkData
ImageSteps == AddFinalizer \/ CleanUp \/ UpdateImage

Next == HostSteps \/ ImageSteps \/ SyncImage \/ ChangeWanted \/ ChangeSecret \/ DeleteImage

Spec == Init /\ [][Next]_imgVars

(***************************************************************************)
(* Properties.                                                             *)
(***************************************************************************)
\* "the image cache cannot leak": the provider holds no image but the one of the
\* configuration in the status, so that a later change or the deletion discards
\* it, although builds and status updates fail independently.
ImageCacheCannotLeak == built \subseteq (IF img.exists THEN {img.status.config} ELSE {})

\* An image that the host accepts is still held by the provider: it was not
\* discarded for a configuration the host does not know yet.
HostBootsExistingImage == PreprovImageAvailable => seenImg.status.config \in built

\* "Ensure we mark the status as not ready before we remove the build from the
\* image cache."
ReadyImageIsBuilt == img.exists /\ img.status.ready => img.status.config \in built

\* A host that wants an image that can be built gets it.
HostGetsImage ==
    []<>(PreprovImageAvailable \/ ~Requested \/ CannotBuild(wanted) \/ wanted.arch = Unbuildable)
=============================================================================
