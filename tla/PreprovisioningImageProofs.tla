---------------------- MODULE PreprovisioningImageProofs ----------------------
(***************************************************************************)
(* ImageCacheCannotLeak and HostBootsExistingImage for any wanted images,  *)
(* formats and bounds.                                                     *)
(*                                                                         *)
(* Neither is inductive: both controllers work on an old copy of the       *)
(* image, and a reconcile of one still builds and discards. The invariant  *)
(* therefore says what an old copy can still be. It differs from the       *)
(* object by one accepted write, and by deletions; a copy whose            *)
(* configuration was replaced can never ask for that configuration again,  *)
(* because versions of the secret only grow; and a build that is discarded *)
(* under a ready status was for an old version, which the host refuses.    *)
(***************************************************************************)
EXTENDS Subresources, TLAPS

\* The configuration that UpdateImage wants for a spec at version v of the secret.
Config(spec, v) ==
    [format |-> Image!GetImageFormat(spec.formats), arch |-> spec.arch,
     net |-> IF spec.network THEN v ELSE 0]

Configs == {Config(s, v) : s \in WantedSpecs, v \in Nat}

\* What the constants must satisfy: an empty status describes no image.
ConstantsFit ==
    /\ \A s \in WantedSpecs : s.network \in BOOLEAN
    /\ NoConfig \notin Configs
    /\ MaxImageEdits \in Nat /\ MaxImageFaults \in Nat

Statuses == [config : Configs \cup {NoConfig}, url : BOOLEAN, ready : BOOLEAN,
             readyGen : Nat, error : BOOLEAN]
Objects == {i \in [exists : BOOLEAN, deleting : BOOLEAN, finalizer : BOOLEAN, gen : Nat,
                   spec : WantedSpecs \cup {NoConfig}, status : Statuses] :
               i.exists => i.spec \in WantedSpecs}

TypeOK ==
    /\ wanted \in WantedSpecs
    /\ img \in Objects /\ seenImg \in Objects /\ imgFresh \in BOOLEAN
    /\ networkSecret \in [version : Nat, owners : SUBSET {"image", "host"}]
    /\ imgBudget \in [edits : Nat, faults : Nat]

(***************************************************************************)
(* The inductive invariant, at version v of the secret.                    *)
(***************************************************************************)
\* Configuration c is not for a version that is still to come.
Past(c, v) == c # NoConfig => c.net <= v

\* No reconcile of a copy with this spec asks for configuration c any more.
Superseded(c, spec, v) == \A w \in Nat : w >= v => c # Config(spec, w)

\* c is what a reconcile of the spec asked for.
Fits(c, spec, v) == \E w \in Nat : (spec.network => 0 < w) /\ w <= v /\ c = Config(spec, w)

\* c is for network data that has changed since.
Outdated(c, v) == c.net \in Nat /\ 0 < c.net /\ c.net < v

\* How a copy may differ from the object i.
Close(copy, i, v) ==
    copy.exists =>
        /\ copy.finalizer /\ ~copy.deleting => i.exists /\ i.finalizer
        /\ i.exists /\ copy.deleting => i.deleting
        /\ i.exists /\ ~copy.deleting /\ copy.status.config # i.status.config
             => Superseded(copy.status.config, copy.spec, v)
        /\ i.exists /\ i.status.ready /\ ~copy.status.ready
             => /\ copy.status.config = i.status.config
                /\ Fits(i.status.config, copy.spec, v)

\* What the provider holds images for, given the object.
Held(builds, i) ==
    /\ builds \subseteq (IF i.exists THEN {i.status.config} ELSE {})
    /\ i.exists /\ ~i.finalizer => builds = {}

\* A build exists for a ready status, unless its network data is old.
Backed(builds, i, v) ==
    i.exists /\ i.status.ready /\ ~i.deleting
        => i.status.config \in builds \/ Outdated(i.status.config, v)

IInv ==
    /\ TypeOK
    /\ Past(img.status.config, networkSecret.version) /\ Past(seenImg.status.config, networkSecret.version)
    /\ imgFresh => seenImg = img
    /\ Close(seenImg, img, networkSecret.version)
    /\ Held(built, img)
    /\ Backed(built, img, networkSecret.version) /\ Backed(built, seenImg, networkSecret.version)

-----------------------------------------------------------------------------
(***************************************************************************)
(* Configurations, and what a growing version of the secret does to them.  *)
(***************************************************************************)
\* A configuration holds the version it is for, or none.
LEMMA ConfigNet ==
    ASSUME ConstantsFit, NEW spec \in WantedSpecs, NEW w \in Nat
    PROVE  /\ Config(spec, w) \in Configs /\ Config(spec, w) # NoConfig
           /\ spec.network => Config(spec, w).net = w
           /\ ~spec.network => Config(spec, w).net = 0
           /\ \A x \in Nat : ~spec.network => Config(spec, x) = Config(spec, w)
<1>1. Config(spec, w) \in Configs
  BY DEF Configs
<1>2. QED
  BY <1>1 DEF ConstantsFit, Config

\* The network data of a configuration.
LEMMA NetIsNatural ==
    ASSUME ConstantsFit, NEW c \in Configs
    PROVE  c.net \in Nat
<1>1. PICK s \in WantedSpecs, w \in Nat : c = Config(s, w)
  BY DEF Configs
<1>2. QED
  BY <1>1, ConfigNet DEF ConstantsFit

\* What was past, superseded or outdated stays so.
LEMMA VersionGrows ==
    ASSUME ConstantsFit, NEW v \in Nat, NEW w \in Nat, v <= w
    PROVE  /\ \A c \in Configs \cup {NoConfig} : Past(c, v) => Past(c, w)
           /\ \A c, spec : Superseded(c, spec, v) => Superseded(c, spec, w)
           /\ \A c, spec : Fits(c, spec, v) => Fits(c, spec, w)
           /\ \A c : Outdated(c, v) => Outdated(c, w)
<1>1. \A c \in Configs \cup {NoConfig} : Past(c, v) => Past(c, w)
  BY NetIsNatural DEF Past
<1>2. \A c, spec : Superseded(c, spec, v) => Superseded(c, spec, w)
  BY DEF Superseded
<1>3. \A c, spec : Fits(c, spec, v) => Fits(c, spec, w)
  BY DEF Fits
<1>4. \A c : Outdated(c, v) => Outdated(c, w)
  BY DEF Outdated
<1>5. QED
  BY <1>1, <1>2, <1>3, <1>4

\* So a copy stays close, and a status backed.
LEMMA VersionGrowsUnderImage ==
    ASSUME ConstantsFit, NEW v \in Nat, NEW w \in Nat, v <= w
    PROVE  /\ \A copy, i : Close(copy, i, v) => Close(copy, i, w)
           /\ \A builds, i : Backed(builds, i, v) => Backed(builds, i, w)
BY VersionGrows DEF Close, Backed

\* A configuration that is not the one asked for now is not asked for later.
LEMMA OtherConfigIsSuperseded ==
    ASSUME ConstantsFit, NEW spec \in WantedSpecs, NEW c \in Configs \cup {NoConfig},
           NEW v \in Nat, Past(c, v), c # Config(spec, v)
    PROVE  Superseded(c, spec, v)
<1> SUFFICES ASSUME NEW w \in Nat, w >= v, c = Config(spec, w) PROVE FALSE
  BY DEF Superseded
<1>1. c # NoConfig /\ c.net <= v
  BY ConfigNet DEF Past
<1>2. CASE spec.network
  BY <1>1, <1>2, ConfigNet
<1>3. CASE ~spec.network
  BY <1>3, ConfigNet
<1>4. QED
  BY <1>2, <1>3

\* A configuration that fitted, and is not the one asked for now, is outdated.
LEMMA FittingConfigIsOutdated ==
    ASSUME ConstantsFit, NEW spec \in WantedSpecs, NEW c, NEW v \in Nat, NEW w \in Nat, v <= w,
           Fits(c, spec, v), c # Config(spec, w)
    PROVE  Outdated(c, w)
<1>1. PICK x \in Nat : (spec.network => 0 < x) /\ x <= v /\ c = Config(spec, x)
  BY DEF Fits
<1>2. spec.network
  BY <1>1, ConfigNet
<1>3. c.net = x /\ x # w
  BY <1>1, <1>2, ConfigNet
<1>4. QED
  BY <1>1, <1>2, <1>3 DEF Outdated

-----------------------------------------------------------------------------
(***************************************************************************)
(* The two ends of a reconcile: the object stays, or the new one is saved. *)
(***************************************************************************)
Kept == img' = img /\ imgFresh' = imgFresh

Saved(new) == imgFresh /\ img' = new /\ imgFresh' = (new = img)

\* Save ends in one of these.
LEMMA SaveOutcome ==
    ASSUME TypeOK, NEW new, Image!Save(new)
    PROVE  /\ Kept \/ Saved(new)
           /\ imgBudget' \in [edits : Nat, faults : Nat]
BY DEF TypeOK, Image!Save, Image!Fault, Kept, Saved

\* Nothing but the version of the secret and the builds change: an image was
\* discarded, or built, that the copy describes.
LEMMA KeptObjectKeeps ==
    ASSUME ConstantsFit, IInv, TypeOK', Kept, seenImg' = seenImg,
           networkSecret.version <= networkSecret'.version,
           \/ built' = built
           \/ /\ built' = built \ {seenImg.status.config}
              /\ seenImg.exists
              /\ \/ seenImg.deleting
                 \/ /\ ~seenImg.status.ready
                    /\ seenImg.status.config # Config(seenImg.spec, networkSecret'.version)
           \/ /\ built' = built \cup {seenImg.status.config}
              /\ seenImg.exists /\ ~seenImg.deleting /\ seenImg.finalizer
              /\ seenImg.status.config = Config(seenImg.spec, networkSecret'.version)
    PROVE  IInv'
<1> DEFINE v == networkSecret.version
           w == networkSecret'.version
           c == img.status.config
           d == seenImg.status.config
<1>1. /\ v \in Nat /\ w \in Nat /\ v <= w
      /\ img \in Objects /\ seenImg \in Objects
      /\ c \in Configs \cup {NoConfig} /\ d \in Configs \cup {NoConfig}
      /\ seenImg.exists => seenImg.spec \in WantedSpecs
      /\ img' = img /\ imgFresh' = imgFresh
  BY DEF IInv, TypeOK, Objects, Statuses, Kept
<1>2. /\ Past(c, v) /\ Past(d, v) /\ Close(seenImg, img, v) /\ Held(built, img)
      /\ Backed(built, img, v) /\ Backed(built, seenImg, v)
      /\ imgFresh => seenImg = img
  BY DEF IInv
<1> HIDE DEF v, w, c, d
<1>3. /\ Past(c, w) /\ Past(d, w) /\ Close(seenImg, img, w)
      /\ Backed(built, img, w) /\ Backed(built, seenImg, w)
  BY <1>1, <1>2, VersionGrows, VersionGrowsUnderImage
<1>4. CASE built' = built
  BY <1>1, <1>2, <1>3, <1>4 DEF IInv, v, w, c, d
<1>5. CASE built' = built \ {d} /\ seenImg.exists /\ seenImg.deleting
  <2>1. Held(built', img)
    BY <1>2, <1>5 DEF Held
  <2>2. img.exists => img.deleting
    BY <1>2, <1>5 DEF Close
  <2>3. Backed(built', img, w) /\ Backed(built', seenImg, w)
    BY <1>5, <2>2 DEF Backed
  <2>4. QED
    BY <1>1, <1>2, <1>3, <2>1, <2>3 DEF IInv, v, w, c, d
<1>6. CASE /\ built' = built \ {d} /\ seenImg.exists /\ ~seenImg.deleting
           /\ ~seenImg.status.ready /\ d # Config(seenImg.spec, w)
  <2>1. Held(built', img)
    BY <1>2, <1>6 DEF Held
  <2>2. Backed(built', seenImg, w)
    BY <1>6 DEF Backed
  <2>3. Backed(built', img, w)
    <3>1. SUFFICES ASSUME img.exists, img.status.ready, ~img.deleting
                   PROVE  c \in built' \/ Outdated(c, w)
      BY DEF Backed, c
    <3>2. d = c /\ Fits(c, seenImg.spec, v)
      BY <1>2, <1>6, <3>1 DEF Close, c, d
    <3>3. QED
      BY <1>1, <1>6, <3>2, FittingConfigIsOutdated
  <2>4. QED
    BY <1>1, <1>2, <1>3, <2>1, <2>2, <2>3 DEF IInv, v, w, c, d
<1>7. CASE /\ built' = built \cup {d}
           /\ seenImg.exists /\ ~seenImg.deleting /\ seenImg.finalizer
           /\ d = Config(seenImg.spec, w)
  <2>1. img.exists /\ img.finalizer
    BY <1>2, <1>7 DEF Close
  <2>2. ~Superseded(d, seenImg.spec, w)
    BY <1>1, <1>7 DEF Superseded
  <2>3. d = c
    BY <1>3, <1>7, <2>1, <2>2 DEF Close, c, d
  <2>4. Held(built', img)
    BY <1>2, <1>7, <2>1, <2>3 DEF Held, c
  <2>5. Backed(built', img, w) /\ Backed(built', seenImg, w)
    BY <1>3, <1>7 DEF Backed
  <2>6. QED
    BY <1>1, <1>2, <1>3, <2>4, <2>5 DEF IInv, v, w, c, d
<1>8. QED
  BY <1>4, <1>5, <1>6, <1>7 DEF w, d

\* A new version of the object is accepted: its copy was exact, and is one write behind.
LEMMA SavedObjectKeeps ==
    ASSUME ConstantsFit, IInv, TypeOK', NEW new, Saved(new), seenImg' = seenImg,
           networkSecret.version <= networkSecret'.version,
           seenImg.exists, ~seenImg.deleting, new.exists, ~new.deleting,
           seenImg.finalizer => new.finalizer,
           Past(new.status.config, networkSecret'.version),
           new.status.config # seenImg.status.config
             => Superseded(seenImg.status.config, seenImg.spec, networkSecret'.version),
           new.status.ready /\ ~seenImg.status.ready
             => /\ new.status.config = seenImg.status.config
                /\ Fits(new.status.config, seenImg.spec, networkSecret'.version),
           Held(built', new),
           Backed(built', new, networkSecret'.version),
           Backed(built', seenImg, networkSecret'.version)
    PROVE  IInv'
<1>1. img' = new /\ (imgFresh' => seenImg = new)
  BY DEF Saved, IInv
<1>2. Close(seenImg, new, networkSecret'.version)
  BY DEF Close
<1>3. Past(seenImg.status.config, networkSecret'.version)
  BY VersionGrows DEF IInv, TypeOK, Objects, Statuses
<1>4. QED
  BY <1>1, <1>2, <1>3 DEF IInv

-----------------------------------------------------------------------------
(***************************************************************************)
(* The actions.                                                            *)
(***************************************************************************)
\* The object that does not exist.
LEMMA NoImageFields ==
    ASSUME ConstantsFit
    PROVE  /\ Image!NoImage \in Objects /\ Image!NoImage.exists = FALSE
           /\ Image!NoImage.status.config = NoConfig /\ Image!NoImage.status.ready = FALSE
<1>1. Image!NewStatus \in Statuses /\ Image!NewStatus.config = NoConfig /\ Image!NewStatus.ready = FALSE
  BY DEF Image!NewStatus, Statuses
<1>2. QED
  BY <1>1 DEF Image!NoImage, Objects

\* Nothing is written, or a new version that differs in spec, generation and
\* finalizer only.
LEMMA MetadataKeeps ==
    ASSUME ConstantsFit, IInv, NEW new \in Objects, Image!Save(new),
           UNCHANGED <<wanted, seenImg, networkSecret, built>>,
           seenImg.exists, ~seenImg.deleting,
           new.exists, ~new.deleting, new.status = seenImg.status,
           seenImg.finalizer => new.finalizer
    PROVE  IInv'
<1>1. Kept \/ Saved(new)
  BY SaveOutcome DEF IInv
<1>2. TypeOK'
  BY <1>1, SaveOutcome DEF IInv, TypeOK, Kept, Saved
<1>3. CASE Kept
  BY <1>2, <1>3, KeptObjectKeeps DEF IInv, TypeOK
<1>4. CASE Saved(new)
  <2>1. seenImg = img
    BY <1>4 DEF Saved, IInv
  <2>2. Held(built', new)
    BY <2>1 DEF IInv, Held
  <2>3. Backed(built', new, networkSecret'.version) /\ Backed(built', seenImg, networkSecret'.version)
    BY DEF IInv, Backed
  <2>4. Past(new.status.config, networkSecret'.version) /\ networkSecret.version <= networkSecret'.version
    BY DEF IInv, TypeOK
  <2>5. QED
    BY <1>2, <1>4, <2>2, <2>3, <2>4, SavedObjectKeeps
<1>5. QED
  BY <1>1, <1>3, <1>4

\* The host controller.
LEMMA HostStepsKeep ==
    ASSUME ConstantsFit, IInv, Image!HostSteps
    PROVE  IInv'
<1>1. /\ seenImg \in Objects /\ img \in Objects /\ wanted \in WantedSpecs
      /\ networkSecret.version \in Nat /\ networkSecret.owners \in SUBSET {"image", "host"}
  BY DEF IInv, TypeOK
<1>2. CASE Image!CreateImage
  <2> DEFINE new == [Image!NoImage EXCEPT !.exists = TRUE, !.gen = 1, !.spec = wanted]
  <2>1. /\ new \in Objects /\ new.exists = TRUE /\ new.finalizer = FALSE
        /\ new.status.ready = FALSE /\ new.status.config = NoConfig
    BY <1>1, NoImageFields DEF Objects, Image!NoImage
  <2>2. /\ img' = new /\ imgFresh' = FALSE /\ ~seenImg.exists /\ ~img.exists
        /\ UNCHANGED <<wanted, seenImg, networkSecret, built, imgBudget>>
    BY <1>2 DEF Image!CreateImage
  <2> HIDE DEF new
  <2>3. built = {}
    BY <2>2 DEF IInv, Held
  <2>4. TypeOK'
    BY <2>1, <2>2 DEF IInv, TypeOK
  <2>5. /\ Close(seenImg, new, networkSecret.version) /\ Held({}, new)
        /\ Backed({}, new, networkSecret.version) /\ Past(new.status.config, networkSecret.version)
    BY <2>1, <2>2 DEF Close, Held, Backed, Past
  <2>6. QED
    BY <2>2, <2>3, <2>4, <2>5 DEF IInv
<1>3. CASE Image!UpdateSpec
  <2> DEFINE gen == seenImg.gen + 1
             new == [seenImg EXCEPT !.spec = wanted, !.gen = @ + 1]
  <2>0. gen \in Nat /\ new = [seenImg EXCEPT !.spec = wanted, !.gen = gen]
    BY <1>1 DEF Objects
  <2> HIDE DEF gen
  <2>1. /\ new \in Objects /\ new.exists = seenImg.exists /\ new.deleting = seenImg.deleting
        /\ new.finalizer = seenImg.finalizer /\ new.status = seenImg.status
    BY <1>1, <2>0 DEF Objects
  <2>2. /\ Image!Save(new) /\ seenImg.exists /\ ~seenImg.deleting
        /\ UNCHANGED <<wanted, seenImg, networkSecret, built>>
    BY <1>3 DEF Image!UpdateSpec
  <2> HIDE DEF new
  <2>3. QED
    BY <2>1, <2>2, MetadataKeeps
<1>4. CASE Image!ClaimNetworkData
  <2>1. networkSecret' = [version |-> networkSecret.version + 1, owners |-> networkSecret.owners \cup {"host"}]
    BY <1>4 DEF Image!ClaimNetworkData, Image!AcquireSecret
  <2>2. /\ networkSecret'.version = networkSecret.version + 1
        /\ networkSecret' \in [version : Nat, owners : SUBSET {"image", "host"}]
    BY <1>1, <2>1
  <2>3. Kept /\ seenImg' = seenImg /\ built' = built /\ TypeOK'
    BY <1>4, <2>2 DEF Image!ClaimNetworkData, Kept, IInv, TypeOK
  <2>4. QED
    BY <1>1, <2>2, <2>3, KeptObjectKeeps
<1>5. QED
  BY <1>2, <1>3, <1>4 DEF Image!HostSteps

\* The image controller's finalizer.
LEMMA AddFinalizerKeeps ==
    ASSUME ConstantsFit, IInv, Image!AddFinalizer
    PROVE  IInv'
<1> DEFINE new == [seenImg EXCEPT !.finalizer = TRUE]
<1>1. seenImg \in Objects
  BY DEF IInv, TypeOK
<1>2. /\ new \in Objects /\ new.exists = seenImg.exists /\ new.deleting = seenImg.deleting
      /\ new.finalizer = TRUE /\ new.status = seenImg.status
  BY <1>1 DEF Objects
<1>3. /\ Image!Save(new) /\ seenImg.exists /\ ~seenImg.deleting
      /\ UNCHANGED <<wanted, seenImg, networkSecret, built>>
  BY DEF Image!AddFinalizer
<1> HIDE DEF new
<1>4. QED
  BY <1>2, <1>3, MetadataKeeps

\* The build of a deleted image is discarded before its finalizer goes.
LEMMA CleanUpKeeps ==
    ASSUME ConstantsFit, IInv, Image!CleanUp
    PROVE  IInv'
<1>1. /\ seenImg.exists /\ seenImg.deleting /\ Image!Save(Image!NoImage)
      /\ built' = built \ {seenImg.status.config}
      /\ UNCHANGED <<wanted, seenImg, networkSecret>>
  BY DEF Image!CleanUp, Image!DiscardExistingImage
<1>2. /\ Kept \/ Saved(Image!NoImage)
      /\ imgBudget' \in [edits : Nat, faults : Nat]
  BY <1>1, SaveOutcome DEF IInv
<1>3. TypeOK'
  BY <1>1, <1>2, NoImageFields DEF IInv, TypeOK, Kept, Saved
<1>4. CASE Kept
  BY <1>1, <1>3, <1>4, KeptObjectKeeps DEF IInv, TypeOK
<1>5. CASE Saved(Image!NoImage)
  <2>1. seenImg = img /\ img' = Image!NoImage
    BY <1>5 DEF Saved, IInv
  <2>2. built' = {}
    BY <1>1, <2>1 DEF IInv, Held
  <2>3. imgFresh' => seenImg = Image!NoImage
    BY <1>5, <2>1 DEF Saved
  <2>4. Close(seenImg, Image!NoImage, networkSecret.version) /\ Held({}, Image!NoImage)
    BY <1>1, NoImageFields DEF Close, Held
  <2>5. Backed({}, Image!NoImage, networkSecret.version) /\ Backed({}, seenImg, networkSecret.version)
    BY <1>1, NoImageFields DEF Backed
  <2>6. Past(Image!NoImage.status.config, networkSecret.version)
    BY NoImageFields DEF Past
  <2>7. QED
    BY <1>1, <1>3, <2>1, <2>2, <2>3, <2>4, <2>5, <2>6 DEF IInv
<1>6. QED
  BY <1>2, <1>4, <1>5

\* A new status of an image that goes on being wanted.
LEMMA StatusFields ==
    ASSUME ConstantsFit, IInv, NEW status \in Statuses
    PROVE  LET new == [seenImg EXCEPT !.status = status]
           IN  /\ new \in Objects /\ new.status = status
               /\ new.exists = seenImg.exists /\ new.deleting = seenImg.deleting
               /\ new.finalizer = seenImg.finalizer
BY DEF IInv, TypeOK, Objects

\* The statuses that UpdateImage writes.
LEMMA StatusesAreStatuses ==
    ASSUME ConstantsFit, IInv
    PROVE  /\ LET unready == Image!SetUnready(seenImg.status, seenImg.gen)
              IN  /\ unready \in Statuses /\ unready.ready = FALSE
                  /\ unready.config = seenImg.status.config
           /\ LET error == Image!SetError(seenImg.status, seenImg.gen)
              IN  /\ error \in Statuses /\ error.ready = FALSE
                  /\ error.config = seenImg.status.config
           /\ \A url \in BOOLEAN, config \in Configs :
                LET set == Image!SetImage(url, config, seenImg.gen)
                IN  set \in Statuses /\ set.ready = url /\ set.config = config
<1>1. seenImg.status \in Statuses /\ seenImg.gen \in Nat
  BY DEF IInv, TypeOK, Objects
<1>2. QED
  BY <1>1 DEF Image!SetUnready, Image!SetError, Image!SetImage, Statuses

\* A status is saved, or not, that leaves the configuration alone, while nothing is
\* discarded and what is built is for this configuration.
LEMMA SameConfigKeeps ==
    ASSUME ConstantsFit, IInv, NEW status \in Statuses,
           UNCHANGED <<wanted, seenImg>>,
           networkSecret' \in [version : Nat, owners : SUBSET {"image", "host"}],
           networkSecret.version <= networkSecret'.version,
           imgBudget' \in [edits : Nat, faults : Nat],
           Kept \/ Saved([seenImg EXCEPT !.status = status]),
           seenImg.exists, ~seenImg.deleting, seenImg.finalizer,
           status.config = seenImg.status.config,
           \/ built' = built /\ ~status.ready
           \/ /\ built' = built \cup {seenImg.status.config}
              /\ Fits(seenImg.status.config, seenImg.spec, networkSecret'.version)
              /\ seenImg.status.config = Config(seenImg.spec, networkSecret'.version)
    PROVE  IInv'
<1> DEFINE new == [seenImg EXCEPT !.status = status]
<1>1. /\ new \in Objects /\ new.status = status
      /\ new.exists = seenImg.exists /\ new.deleting = seenImg.deleting
      /\ new.finalizer = seenImg.finalizer
  BY StatusFields
<1>2. Kept \/ Saved(new)
  OBVIOUS
<1> HIDE DEF new
<1>3. TypeOK'
  BY <1>1, <1>2 DEF IInv, TypeOK, Kept, Saved
<1>4. CASE Kept
  BY <1>3, <1>4, KeptObjectKeeps
<1>5. CASE Saved(new)
  <2>1. seenImg = img
    BY <1>5 DEF Saved, IInv
  <2>2. Held(built', new)
    BY <1>1, <2>1 DEF IInv, Held
  <2>3. Backed(built', seenImg, networkSecret'.version)
    <3>1. Backed(built, seenImg, networkSecret'.version)
      BY VersionGrowsUnderImage DEF IInv, TypeOK
    <3>2. QED
      BY <3>1 DEF Backed
  <2>4. Backed(built', new, networkSecret'.version)
    BY <1>1 DEF Backed
  <2>5. Past(new.status.config, networkSecret'.version)
    BY <1>1, VersionGrows DEF IInv, TypeOK, Objects, Statuses
  <2>6. new.status.ready => Fits(new.status.config, seenImg.spec, networkSecret'.version)
    BY <1>1
  <2>7. QED
    BY <1>1, <1>3, <1>5, <2>2, <2>3, <2>4, <2>5, <2>6, SavedObjectKeeps
<1>6. QED
  BY <1>2, <1>4, <1>5

\* The old build is discarded and the new configuration recorded.
LEMMA NewConfigKeeps ==
    ASSUME ConstantsFit, IInv, NEW status \in Statuses,
           UNCHANGED <<wanted, seenImg>>,
           networkSecret' \in [version : Nat, owners : SUBSET {"image", "host"}],
           networkSecret.version <= networkSecret'.version,
           imgBudget' \in [edits : Nat, faults : Nat],
           Kept \/ Saved([seenImg EXCEPT !.status = status]),
           seenImg.exists, ~seenImg.deleting, seenImg.finalizer, ~seenImg.status.ready,
           status.config = Config(seenImg.spec, networkSecret'.version), ~status.ready,
           seenImg.status.config # status.config,
           built' = built \ {seenImg.status.config}
    PROVE  IInv'
<1> DEFINE new == [seenImg EXCEPT !.status = status]
<1>1. /\ new \in Objects /\ new.status = status
      /\ new.exists = seenImg.exists /\ new.deleting = seenImg.deleting
      /\ new.finalizer = seenImg.finalizer
  BY StatusFields
<1>2. Kept \/ Saved(new)
  OBVIOUS
<1> HIDE DEF new
<1>3. TypeOK'
  BY <1>1, <1>2 DEF IInv, TypeOK, Kept, Saved
<1>4. CASE Kept
  BY <1>3, <1>4, KeptObjectKeeps
<1>5. CASE Saved(new)
  <2>1. seenImg = img
    BY <1>5 DEF Saved, IInv
  <2>2. built' = {} /\ Held(built', new)
    BY <1>1, <2>1 DEF IInv, Held
  <2>3. Backed(built', seenImg, networkSecret'.version) /\ Backed(built', new, networkSecret'.version)
    BY <1>1 DEF Backed
  <2>4. /\ seenImg.spec \in WantedSpecs /\ networkSecret.version \in Nat /\ networkSecret'.version \in Nat
        /\ seenImg.status.config \in Configs \cup {NoConfig}
    BY DEF IInv, TypeOK, Objects, Statuses
  <2>5. Past(seenImg.status.config, networkSecret'.version)
    BY <2>4, VersionGrows DEF IInv
  <2>6. Superseded(seenImg.status.config, seenImg.spec, networkSecret'.version)
    BY <2>4, <2>5, OtherConfigIsSuperseded
  <2>7. Past(new.status.config, networkSecret'.version)
    <3>1. Config(seenImg.spec, networkSecret'.version).net \in {0, networkSecret'.version}
      BY <2>4, ConfigNet DEF ConstantsFit
    <3>2. QED
      BY <1>1, <2>4, <3>1 DEF Past
  <2>8. QED
    BY <1>1, <1>3, <1>5, <2>2, <2>3, <2>6, <2>7, SavedObjectKeeps
<1>6. QED
  BY <1>2, <1>4, <1>5

\* A claim of the network data keeps its version or makes a new one.
LEMMA ClaimGrows ==
    ASSUME TypeOK
    PROVE  LET claimed == Image!AcquireSecret("image")
           IN  /\ claimed \in [version : Nat, owners : SUBSET {"image", "host"}]
               /\ networkSecret.version <= claimed.version
<1>1. /\ networkSecret \in [version : Nat, owners : SUBSET {"image", "host"}]
      /\ networkSecret.version \in Nat /\ networkSecret.owners \in SUBSET {"image", "host"}
  BY DEF TypeOK
<1>2. CASE "image" \in networkSecret.owners
  BY <1>1, <1>2 DEF Image!AcquireSecret
<1>3. CASE "image" \notin networkSecret.owners
  <2> DEFINE next == [version |-> networkSecret.version + 1, owners |-> networkSecret.owners \cup {"image"}]
  <2>1. Image!AcquireSecret("image") = next
    BY <1>3 DEF Image!AcquireSecret
  <2>2. next \in [version : Nat, owners : SUBSET {"image", "host"}] /\ networkSecret.version <= next.version
    BY <1>1
  <2>3. QED
    BY <2>1, <2>2
<1>4. QED
  BY <1>2, <1>3

\* The image controller's update.
LEMMA UpdateImageKeeps ==
    ASSUME ConstantsFit, IInv, Image!UpdateImage
    PROVE  IInv'
<1> DEFINE spec == seenImg.spec
           claimed == IF spec.network THEN Image!AcquireSecret("image") ELSE networkSecret
           config == [format |-> Image!GetImageFormat(spec.formats), arch |-> spec.arch,
                      net |-> IF spec.network THEN claimed.version ELSE 0]
           status == seenImg.status
<1>1. /\ seenImg.exists /\ ~seenImg.deleting /\ seenImg.finalizer
      /\ UNCHANGED <<wanted, seenImg>>
      /\ \/ /\ Image!CannotBuild(spec)
            /\ Image!SaveStatus(Image!SetError(status, seenImg.gen)) /\ UNCHANGED <<networkSecret, built>>
         \/ /\ ~Image!CannotBuild(spec) /\ networkSecret' = claimed
            /\ \/ status.config # config /\ Image!ChangeConfig(config)
               \/ status.config = config /\ Image!Build(config)
  BY DEF Image!UpdateImage
<1>2. /\ spec \in WantedSpecs /\ spec.network \in BOOLEAN
      /\ networkSecret \in [version : Nat, owners : SUBSET {"image", "host"}]
      /\ networkSecret.version \in Nat
  BY <1>1 DEF IInv, TypeOK, Objects, ConstantsFit
<1>3. claimed \in [version : Nat, owners : SUBSET {"image", "host"}]
      /\ networkSecret.version <= claimed.version
  BY <1>2, ClaimGrows DEF IInv
<1>4. claimed.version \in Nat /\ config = Config(spec, claimed.version) /\ config \in Configs
  BY <1>2, <1>3, ConfigNet DEF Config
<1>5. ~Image!CannotBuild(spec) => (spec.network => 0 < claimed.version)
  <2> HIDE DEF claimed, config, spec
  <2>1. ~Image!CannotBuild(spec) /\ spec.network => networkSecret.version # 0
    BY DEF Image!CannotBuild
  <2>2. QED
    BY <1>2, <1>3, <1>4, <2>1
<1>6. \A new : Image!Save(new) => (Kept \/ Saved(new)) /\ imgBudget' \in [edits : Nat, faults : Nat]
  BY SaveOutcome DEF IInv
<1> DEFINE unready == Image!SetUnready(status, seenImg.gen)
           error == Image!SetError(status, seenImg.gen)
           set(url) == Image!SetImage(url, config, seenImg.gen)
<1>7. /\ unready \in Statuses /\ unready.ready = FALSE /\ unready.config = status.config
      /\ error \in Statuses /\ error.ready = FALSE /\ error.config = status.config
      /\ \A url \in BOOLEAN : set(url) \in Statuses /\ set(url).ready = url /\ set(url).config = config
  BY <1>4, StatusesAreStatuses
<1>8. ASSUME Image!CannotBuild(spec), Image!SaveStatus(error), UNCHANGED <<networkSecret, built>> PROVE IInv'
  <2> HIDE DEF error, unready, claimed, config, set
  <2>1. Kept \/ Saved([seenImg EXCEPT !.status = error])
    BY <1>6, <1>8 DEF Image!SaveStatus
  <2>2. imgBudget' \in [edits : Nat, faults : Nat]
    BY <1>6, <1>8 DEF Image!SaveStatus
  <2>3. QED
    BY <1>1, <1>2, <1>7, <1>8, <2>1, <2>2, SameConfigKeeps
<1>9. ASSUME ~Image!CannotBuild(spec), networkSecret' = claimed, status.config # config, Image!ChangeConfig(config)
      PROVE  IInv'
  <2>1. CASE status.ready
    <3>1. Image!SaveStatus(unready) /\ UNCHANGED built
      BY <1>9, <2>1 DEF Image!ChangeConfig
    <3> HIDE DEF error, unready, claimed, config, set
    <3>2. /\ Kept \/ Saved([seenImg EXCEPT !.status = unready])
          /\ imgBudget' \in [edits : Nat, faults : Nat]
      BY <1>6, <3>1 DEF Image!SaveStatus
    <3>3. QED
      BY <1>1, <1>3, <1>7, <1>9, <3>1, <3>2, SameConfigKeeps
  <2>2. CASE ~status.ready
    <3>1. Image!SaveStatus(set(FALSE)) /\ built' = built \ {status.config}
      BY <1>9, <2>2 DEF Image!ChangeConfig, Image!DiscardExistingImage
    <3> DEFINE empty == set(FALSE)
    <3>2. empty \in Statuses /\ empty.ready = FALSE /\ empty.config = config
      BY <1>7
    <3> HIDE DEF error, unready, claimed, config, set, empty
    <3>3. /\ Kept \/ Saved([seenImg EXCEPT !.status = empty])
          /\ imgBudget' \in [edits : Nat, faults : Nat]
      BY <1>6, <3>1 DEF Image!SaveStatus, empty
    <3>4. QED
      BY <1>1, <1>3, <1>4, <1>9, <2>2, <3>1, <3>2, <3>3, NewConfigKeeps
  <2>3. QED
    BY <2>1, <2>2
<1>10. ASSUME ~Image!CannotBuild(spec), networkSecret' = claimed, status.config = config, Image!Build(config)
       PROVE  IInv'
  <2>1. Fits(config, spec, claimed.version)
    BY <1>4, <1>5, <1>10 DEF Fits
  <2> DEFINE full == set(TRUE)
  <2>2. full \in Statuses /\ full.config = config
    BY <1>7
  <2>3. \/ Image!SaveStatus(error) /\ UNCHANGED built
        \/ built' = built \cup {config} /\ Image!SaveStatus(full)
        \/ /\ built' = built \cup {config} /\ Image!Fault
           /\ Kept \/ Saved([seenImg EXCEPT !.status = unready])
    BY <1>10 DEF Image!Build, Kept, Saved
  <2> HIDE DEF error, unready, claimed, config, set, full
  <2>4. CASE Image!SaveStatus(error) /\ UNCHANGED built
    <3>1. /\ Kept \/ Saved([seenImg EXCEPT !.status = error])
          /\ imgBudget' \in [edits : Nat, faults : Nat]
      BY <1>6, <2>4 DEF Image!SaveStatus
    <3>2. QED
      BY <1>1, <1>3, <1>7, <1>10, <2>4, <3>1, SameConfigKeeps
  <2>5. CASE built' = built \cup {config} /\ Image!SaveStatus(full)
    <3>1. /\ Kept \/ Saved([seenImg EXCEPT !.status = full])
          /\ imgBudget' \in [edits : Nat, faults : Nat]
      BY <1>6, <2>5 DEF Image!SaveStatus
    <3>2. QED
      BY <1>1, <1>3, <1>4, <1>10, <2>1, <2>2, <2>5, <3>1, SameConfigKeeps
  <2>6. CASE /\ built' = built \cup {config} /\ Image!Fault
             /\ Kept \/ Saved([seenImg EXCEPT !.status = unready])
    <3>1. imgBudget' \in [edits : Nat, faults : Nat]
      BY <2>6 DEF Image!Fault, IInv, TypeOK
    <3>2. QED
      BY <1>1, <1>3, <1>4, <1>7, <1>10, <2>1, <2>6, <3>1, SameConfigKeeps
  <2>7. QED
    BY <2>3, <2>4, <2>5, <2>6
<1>11. QED
  BY <1>1, <1>8, <1>9, <1>10

\* The cache and the users.
LEMMA OthersKeep ==
    ASSUME ConstantsFit, IInv, Image!SyncImage \/ Image!ChangeWanted \/ Image!ChangeSecret \/ Image!DeleteImage
    PROVE  IInv'
<1>1. /\ seenImg \in Objects /\ img \in Objects
      /\ networkSecret \in [version : Nat, owners : SUBSET {"image", "host"}]
      /\ networkSecret.version \in Nat /\ imgBudget \in [edits : Nat, faults : Nat]
  BY DEF IInv, TypeOK
<1>2. Image!EditImage => imgBudget' \in [edits : Nat, faults : Nat]
  BY <1>1 DEF Image!EditImage
<1>3. CASE Image!SyncImage
  <2>1. seenImg' = img /\ imgFresh' = TRUE /\ UNCHANGED <<wanted, img, networkSecret, built, imgBudget>>
    BY <1>3 DEF Image!SyncImage
  <2>2. Close(img, img, networkSecret.version)
    BY DEF Close
  <2>3. TypeOK'
    BY <2>1 DEF IInv, TypeOK
  <2>4. QED
    BY <2>1, <2>2, <2>3 DEF IInv
<1>4. CASE Image!ChangeWanted
  <2>1. Kept /\ UNCHANGED <<seenImg, networkSecret, built>> /\ TypeOK'
    BY <1>2, <1>4 DEF Image!ChangeWanted, Kept, IInv, TypeOK
  <2>2. QED
    BY <1>1, <2>1, KeptObjectKeeps
<1>5. CASE Image!ChangeSecret
  <2>1. /\ networkSecret'.version = networkSecret.version + 1
        /\ networkSecret' \in [version : Nat, owners : SUBSET {"image", "host"}]
    BY <1>1, <1>5 DEF Image!ChangeSecret
  <2>2. Kept /\ UNCHANGED <<seenImg, built>> /\ TypeOK'
    BY <1>2, <1>5, <2>1 DEF Image!ChangeSecret, Kept, IInv, TypeOK
  <2>3. QED
    BY <1>1, <2>1, <2>2, KeptObjectKeeps
<1>6. CASE Image!DeleteImage /\ img.finalizer
  <2> DEFINE new == [img EXCEPT !.deleting = TRUE]
  <2>1. /\ new \in Objects /\ new.deleting = TRUE /\ new.exists = img.exists
        /\ new.finalizer = img.finalizer /\ new.status = img.status
    BY <1>1 DEF Objects
  <2>2. img' = new /\ imgFresh' = FALSE /\ UNCHANGED <<wanted, seenImg, networkSecret, built>>
    BY <1>6 DEF Image!DeleteImage
  <2> HIDE DEF new
  <2>3. TypeOK'
    BY <1>2, <1>6, <2>1, <2>2 DEF Image!DeleteImage, IInv, TypeOK
  <2>4. /\ Close(seenImg, new, networkSecret.version) /\ Held(built, new)
        /\ Backed(built, new, networkSecret.version) /\ Past(new.status.config, networkSecret.version)
    BY <2>1 DEF IInv, Close, Held, Backed
  <2>5. QED
    BY <2>2, <2>3, <2>4 DEF IInv
<1>7. CASE Image!DeleteImage /\ ~img.finalizer
  <2>1. /\ img' = Image!NoImage /\ imgFresh' = FALSE /\ UNCHANGED <<wanted, seenImg, networkSecret, built>>
        /\ img.exists
    BY <1>7 DEF Image!DeleteImage
  <2>2. TypeOK'
    BY <1>2, <1>7, <2>1, NoImageFields DEF Image!DeleteImage, IInv, TypeOK
  <2>3. built = {}
    BY <1>7, <2>1 DEF IInv, Held
  <2>4. Close(seenImg, Image!NoImage, networkSecret.version)
    BY <1>7, NoImageFields DEF IInv, Close
  <2>5. /\ Held({}, Image!NoImage) /\ Backed({}, Image!NoImage, networkSecret.version)
        /\ Past(Image!NoImage.status.config, networkSecret.version)
    BY NoImageFields DEF Held, Backed, Past
  <2>6. QED
    BY <2>1, <2>2, <2>3, <2>4, <2>5 DEF IInv
<1>8. QED
  BY <1>3, <1>4, <1>5, <1>6, <1>7

-----------------------------------------------------------------------------
\* The copy stays close to the object and the builds to its status.
THEOREM ImageInvariant ==
    ASSUME ConstantsFit
    PROVE  Spec => []IInv
<1>1. Image!Init => IInv
  <2> SUFFICES ASSUME Image!Init PROVE IInv
    OBVIOUS
  <2>1. /\ img = Image!NoImage /\ seenImg = Image!NoImage /\ built = {} /\ imgFresh = TRUE
        /\ wanted \in WantedSpecs
        /\ imgBudget = [edits |-> MaxImageEdits, faults |-> MaxImageFaults]
    BY DEF Image!Init
  <2>2. networkSecret \in [version : Nat, owners : SUBSET {"image", "host"}]
    BY DEF Image!Init
  <2>3. TypeOK
    BY <2>1, <2>2, NoImageFields DEF TypeOK, ConstantsFit
  <2>4. /\ Close(Image!NoImage, Image!NoImage, networkSecret.version) /\ Held({}, Image!NoImage)
        /\ Backed({}, Image!NoImage, networkSecret.version)
        /\ Past(Image!NoImage.status.config, networkSecret.version)
    BY NoImageFields DEF Close, Held, Backed, Past
  <2>5. QED
    BY <2>1, <2>3, <2>4 DEF IInv
<1>2. IInv /\ [Next]_vars => IInv'
  <2> SUFFICES ASSUME IInv, Image!Next \/ UNCHANGED imgVars PROVE IInv'
    BY DEF Next, vars
  <2>1. CASE Image!HostSteps
    BY <2>1, HostStepsKeep
  <2>2. CASE Image!ImageSteps
    BY <2>2, AddFinalizerKeeps, CleanUpKeeps, UpdateImageKeeps DEF Image!ImageSteps
  <2>3. CASE Image!SyncImage \/ Image!ChangeWanted \/ Image!ChangeSecret \/ Image!DeleteImage
    BY <2>3, OthersKeep
  <2>4. CASE UNCHANGED imgVars
    BY <2>4 DEF imgVars, IInv, TypeOK
  <2>5. QED
    BY <2>1, <2>2, <2>3, <2>4 DEF Image!Next
<1>3. Init => Image!Init
  BY DEF Init
<1>4. QED
  BY <1>1, <1>2, <1>3, PTL DEF Spec

\* The provider never holds an image that the status does not describe, for any wanted
\* images, with builds and status updates that fail and copies that are old.
THEOREM ImageCacheCannotLeakAlways ==
    ASSUME ConstantsFit
    PROVE  Spec => []ImageCacheCannotLeak
<1>1. IInv => ImageCacheCannotLeak
  BY DEF IInv, Held, ImageCacheCannotLeak, Image!ImageCacheCannotLeak
<1>2. QED
  BY <1>1, ImageInvariant, PTL

\* An image that a host accepts is still held by the provider.
THEOREM HostBootsExistingImageAlways ==
    ASSUME ConstantsFit
    PROVE  Spec => []HostBootsExistingImage
<1>1. IInv => HostBootsExistingImage
  <2> SUFFICES ASSUME IInv, Image!PreprovImageAvailable
               PROVE  seenImg.status.config \in built
    BY DEF HostBootsExistingImage, Image!HostBootsExistingImage
  <2>1. /\ seenImg.exists /\ ~seenImg.deleting /\ seenImg.status.ready
        /\ Image!NetworkDataIsCurrent
    BY DEF Image!PreprovImageAvailable, Image!Recognised
  <2>2. ~Outdated(seenImg.status.config, networkSecret.version)
    BY <2>1 DEF Image!NetworkDataIsCurrent, Outdated, IInv, TypeOK
  <2>3. QED
    BY <2>1, <2>2 DEF IInv, Backed
<1>2. QED
  BY <1>1, ImageInvariant, PTL
=============================================================================
