--------------------------- MODULE FinalizerProofs ---------------------------
(***************************************************************************)
(* What the finalizers that the controllers put on other objects are for:  *)
(* a secret that hosts hold is not removed under them (SecretManager), and *)
(* a BMCEventSubscription does not disappear while the subscription it     *)
(* records is in the BMC (BMCEventSubscription), for any number of hosts,  *)
(* edits and faults.                                                       *)
(***************************************************************************)
EXTENDS Subresources, TLAPS

-----------------------------------------------------------------------------
(***************************************************************************)
(* The secret. A claim that finds nothing to write believes the cache, so  *)
(* a finalizer in the cache must be one on the object: as long as no host  *)
(* is being deleted, nobody takes a finalizer off.                         *)
(***************************************************************************)
SecretRecords ==
    [exists : BOOLEAN, label : BOOLEAN, owners : SUBSET SharingHosts, finalizer : BOOLEAN,
     deleting : BOOLEAN, valid : BOOLEAN]

SecretTypeOK ==
    /\ secret \in SecretRecords /\ cachedSecret \in SecretRecords
    /\ hostStage \in [SharingHosts -> {"managed", "deleting", "gone"}]
    /\ holders \subseteq SharingHosts

AllManaged == \A h \in SharingHosts : hostStage[h] = "managed"

SecretInv ==
    /\ SecretTypeOK
    /\ secretFresh /\ cachedSecret.exists => cachedSecret = secret
    /\ secret.deleting => secret.finalizer
    /\ AllManaged =>
         /\ cachedSecret.exists /\ cachedSecret.finalizer => secret.exists /\ secret.finalizer
         /\ secret.exists /\ holders # {} => secret.finalizer

\* The object the API server keeps.
LEMMA StoredSecret ==
    ASSUME NEW s \in SecretRecords
    PROVE  /\ Secrets!Stored(s) \in SecretRecords
           /\ Secrets!Stored(s).deleting => Secrets!Stored(s).finalizer
           /\ s.finalizer \/ ~s.deleting => Secrets!Stored(s) = s
           /\ Secrets!Stored(s).exists => Secrets!Stored(s) = s
BY DEF Secrets!Stored, Secrets!NoSecret, SecretRecords

\* A claim adds to the copy it is made from.
LEMMA ClaimedSecret ==
    ASSUME NEW s \in SecretRecords, NEW owner \in SUBSET SharingHosts, NEW add \in BOOLEAN
    PROVE  /\ Secrets!Claimed(s, owner, add) \in SecretRecords
           /\ Secrets!Claimed(s, owner, add).exists = s.exists
           /\ Secrets!Claimed(s, owner, add).deleting = s.deleting
           /\ Secrets!Claimed(s, owner, add).finalizer = (s.finalizer \/ add)
           /\ Secrets!Claimed(s, owner, add).label = TRUE
<1> DEFINE owners == s.owners \cup owner
           finalizer == s.finalizer \/ add
<1>1. /\ owners \in SUBSET SharingHosts /\ finalizer \in BOOLEAN
      /\ Secrets!Claimed(s, owner, add) =
           [s EXCEPT !.label = TRUE, !.owners = owners, !.finalizer = finalizer]
  BY DEF Secrets!Claimed, SecretRecords
<1> HIDE DEF owners, finalizer
<1>2. /\ Secrets!Claimed(s, owner, add) \in SecretRecords
      /\ Secrets!Claimed(s, owner, add).exists = s.exists
      /\ Secrets!Claimed(s, owner, add).deleting = s.deleting
      /\ Secrets!Claimed(s, owner, add).finalizer = finalizer
      /\ Secrets!Claimed(s, owner, add).label = TRUE
  BY <1>1 DEF SecretRecords
<1>3. QED
  BY <1>2 DEF finalizer

\* What a claim writes is made from the object itself.
LEMMA WrittenSecretIsCurrent ==
    ASSUME SecretInv, Secrets!UpToDate
    PROVE  Secrets!FindSecret = secret
BY DEF SecretInv, Secrets!UpToDate, Secrets!FindSecret

\* Either a step keeps the invariant and the secret, or a host was being deleted.
SecretStep == SecretInv' /\ Secrets!RemovalStep

\* A new version of the secret, made from the present one, is stored.
LEMMA StoreKeepsSecret ==
    ASSUME SecretInv, NEW s \in SecretRecords, Secrets!StoreSecret(s),
           cachedSecret' = cachedSecret, hostStage' = hostStage,
           holders' = holders \/ s.finalizer,
           holders' \subseteq SharingHosts,
           s.exists = secret.exists, s.deleting /\ ~s.finalizer => ~secret.finalizer,
           secret.finalizer => s.finalizer
    PROVE  SecretStep
<1> DEFINE t == Secrets!Stored(s)
<1>1. /\ t \in SecretRecords /\ (t.deleting => t.finalizer)
      /\ s.finalizer => t = s
      /\ t.exists => t = s
  BY StoredSecret
<1>2. secret' = t /\ secretFresh' = FALSE
  BY DEF Secrets!StoreSecret
<1> HIDE DEF t
<1>3. AllManaged' = AllManaged
  BY DEF AllManaged
<1>4. SecretTypeOK'
  BY <1>1, <1>2 DEF SecretInv, SecretTypeOK
<1>5. SecretInv'
  BY <1>1, <1>2, <1>3, <1>4 DEF SecretInv
<1>6. Secrets!RemovalStep
  BY <1>1, <1>2 DEF SecretInv, AllManaged, Secrets!RemovalStep
<1>7. QED
  BY <1>5, <1>6 DEF SecretStep

\* Nothing is written to the secret.
LEMMA SameSecretKeeps ==
    ASSUME SecretInv, UNCHANGED <<secret, cachedSecret, secretFresh>>,
           SecretTypeOK', AllManaged' => AllManaged,
           AllManaged /\ holders' # holders => secret.finalizer \/ ~secret.exists
    PROVE  SecretStep
<1>1. SecretInv'
  BY DEF SecretInv
<1>2. Secrets!RemovalStep
  BY DEF Secrets!RemovalStep
<1>3. QED
  BY <1>1, <1>2 DEF SecretStep

\* A host's claim: what it finds to be there is there.
LEMMA ClaimForHostKeeps ==
    ASSUME SecretInv, NEW h \in SharingHosts, Secrets!ClaimForHost(h)
    PROVE  SecretStep
<1> DEFINE found == Secrets!FindSecret
           owner == Secrets!OwnerRef(h)
           s == Secrets!Claimed(found, owner, TRUE)
<1>1. found \in SecretRecords /\ owner \in SUBSET SharingHosts
  BY DEF SecretInv, SecretTypeOK, Secrets!FindSecret, Secrets!OwnerRef
<1>2. /\ s = found \/ Secrets!UpToDate
      /\ \/ s = found /\ UNCHANGED <<secret, secretFresh>>
         \/ s # found /\ Secrets!StoreSecret(s)
      /\ holders' = holders \cup {h} /\ UNCHANGED <<cachedSecret, hostStage>>
      /\ found.exists
  BY DEF Secrets!ClaimForHost, Secrets!ClaimSucceeds
<1>3. s \in SecretRecords /\ s.exists = found.exists /\ s.finalizer = TRUE
  BY <1>1, ClaimedSecret
<1>4. holders' \subseteq SharingHosts
  BY <1>2 DEF SecretInv, SecretTypeOK
<1>5. CASE s = found
  <2>1. found = cachedSecret \/ found = secret
    BY DEF Secrets!FindSecret
  <2> HIDE DEF s, found, owner
  <2>2. AllManaged => secret.finalizer
    BY <1>2, <1>3, <1>5, <2>1 DEF SecretInv
  <2>3. UNCHANGED <<secret, secretFresh, cachedSecret, hostStage>>
    BY <1>2, <1>5
  <2>4. SecretTypeOK' /\ (AllManaged' => AllManaged)
    BY <1>4, <2>3 DEF SecretInv, SecretTypeOK, AllManaged
  <2>5. QED
    BY <2>2, <2>3, <2>4, SameSecretKeeps
<1>6. CASE s # found
  <2>1. found = secret
    BY <1>2, <1>6, WrittenSecretIsCurrent
  <2> HIDE DEF s, found, owner
  <2>2. QED
    BY <1>2, <1>3, <1>4, <1>6, <2>1, StoreKeepsSecret
<1>7. QED
  BY <1>5, <1>6

\* A claim without finalizer keeps the one there is.
LEMMA ClaimElsewhereKeeps ==
    ASSUME SecretInv, Secrets!ClaimElsewhere
    PROVE  SecretStep
<1> DEFINE found == Secrets!FindSecret
           s == Secrets!Claimed(found, {}, FALSE)
<1>1. found \in SecretRecords
  BY DEF SecretInv, SecretTypeOK, Secrets!FindSecret
<1>2. /\ s = found \/ Secrets!UpToDate
      /\ ~found.label /\ Secrets!StoreSecret(s)
      /\ UNCHANGED <<cachedSecret, hostStage, holders>>
  BY DEF Secrets!ClaimElsewhere, Secrets!ClaimSucceeds
<1>3. /\ s \in SecretRecords /\ s.exists = found.exists /\ s.label = TRUE
      /\ s.finalizer = found.finalizer /\ s.deleting = found.deleting
  <2>1. {} \in SUBSET SharingHosts /\ found.finalizer \in BOOLEAN
    BY <1>1 DEF SecretRecords
  <2>2. QED
    BY <1>1, <2>1, ClaimedSecret
<1> HIDE DEF s
<1>4. found = secret
  BY <1>2, <1>3, WrittenSecretIsCurrent
<1> HIDE DEF found
<1>5. holders' \subseteq SharingHosts
  BY <1>2 DEF SecretInv, SecretTypeOK
<1>6. QED
  BY <1>2, <1>3, <1>4, <1>5, StoreKeepsSecret

\* Once a host is being deleted the promise ends; only types and copies matter.
LEMMA DeletionKeeps ==
    ASSUME SecretInv, NEW h \in SharingHosts,
           \/ Secrets!ReleaseForHost(h) \/ Secrets!FinishWithoutSecret(h)
           \/ Secrets!DeleteHost(h)
    PROVE  SecretStep
<1>1. hostStage \in [SharingHosts -> {"managed", "deleting", "gone"}]
  BY DEF SecretInv, SecretTypeOK
<1>2. CASE Secrets!DeleteHost(h) \/ Secrets!FinishWithoutSecret(h)
  <2>1. /\ UNCHANGED <<secret, cachedSecret, secretFresh, holders>>
        /\ \E stage \in {"deleting", "gone"} : hostStage' = [hostStage EXCEPT ![h] = stage]
    BY <1>2 DEF Secrets!DeleteHost, Secrets!FinishWithoutSecret
  <2>2. hostStage' \in [SharingHosts -> {"managed", "deleting", "gone"}] /\ hostStage'[h] # "managed"
    BY <1>1, <2>1
  <2>3. SecretTypeOK' /\ ~AllManaged'
    BY <2>1, <2>2 DEF SecretInv, SecretTypeOK, AllManaged
  <2>4. QED
    BY <2>1, <2>3, SameSecretKeeps
<1>3. CASE Secrets!ReleaseForHost(h)
  <2> DEFINE found == Secrets!FindSecret
             owner == Secrets!OwnerRef(h)
             s == Secrets!Claimed(found, owner, FALSE)
             released == Secrets!Release(s)
  <2>1. found \in SecretRecords /\ owner \in SUBSET SharingHosts
    BY DEF SecretInv, SecretTypeOK, Secrets!FindSecret, Secrets!OwnerRef
  <2>2. s \in SecretRecords
    BY <2>1, ClaimedSecret
  <2>3. /\ hostStage[h] = "deleting"
        /\ UNCHANGED <<secret, secretFresh>> \/ Secrets!StoreSecret(released)
        /\ hostStage' = hostStage \/ hostStage' = [hostStage EXCEPT ![h] = "gone"]
        /\ UNCHANGED <<cachedSecret, holders>>
    BY <1>3 DEF Secrets!ReleaseForHost
  <2> HIDE DEF s
  <2>4. released \in SecretRecords
    BY <2>2 DEF Secrets!Release, SecretRecords
  <2> HIDE DEF released
  <2>5. /\ hostStage' \in [SharingHosts -> {"managed", "deleting", "gone"}]
        /\ hostStage'[h] # "managed"
    BY <1>1, <2>3
  <2>6. ~AllManaged /\ ~AllManaged' /\ Secrets!RemovalStep
    BY <2>3, <2>5 DEF AllManaged, Secrets!RemovalStep
  <2>7. CASE UNCHANGED <<secret, secretFresh>>
    BY <2>3, <2>5, <2>6, <2>7 DEF SecretInv, SecretTypeOK, SecretStep
  <2>8. CASE Secrets!StoreSecret(released)
    <3>1. /\ secret' \in SecretRecords /\ (secret'.deleting => secret'.finalizer)
          /\ secretFresh' = FALSE
      BY <2>4, <2>8, StoredSecret DEF Secrets!StoreSecret
    <3>2. QED
      BY <2>3, <2>5, <2>6, <3>1 DEF SecretInv, SecretTypeOK, SecretStep
  <2>9. QED
    BY <2>3, <2>7, <2>8
<1>4. QED
  BY <1>2, <1>3

\* The users, the garbage collector and the cache.
LEMMA OthersKeepSecret ==
    ASSUME SecretInv,
           \/ Secrets!SyncSecret \/ Secrets!DeleteSecret \/ Secrets!CreateSecret
           \/ Secrets!ChangeSecret \/ Secrets!CollectGarbage
    PROVE  SecretStep
<1>1. /\ secret \in SecretRecords /\ cachedSecret \in SecretRecords
      /\ holders \subseteq SharingHosts
  BY DEF SecretInv, SecretTypeOK
<1>2. CASE Secrets!SyncSecret
  <2>1. /\ cachedSecret' = secret \/ cachedSecret' = Secrets!NoSecret
        /\ UNCHANGED <<secret, hostStage, holders>>
    BY <1>2 DEF Secrets!SyncSecret
  <2>2. Secrets!NoSecret \in SecretRecords /\ ~Secrets!NoSecret.exists
    BY DEF Secrets!NoSecret, SecretRecords
  <2>3. SecretInv'
    BY <1>1, <2>1, <2>2 DEF SecretInv, SecretTypeOK, AllManaged
  <2>4. Secrets!RemovalStep
    BY <2>1 DEF Secrets!RemovalStep
  <2>5. QED
    BY <2>3, <2>4 DEF SecretStep
<1>3. CASE Secrets!DeleteSecret \/ Secrets!CollectGarbage
  <2> DEFINE s == [secret EXCEPT !.deleting = TRUE]
  <2>1. s \in SecretRecords /\ s.exists = secret.exists /\ s.finalizer = secret.finalizer
    BY <1>1 DEF SecretRecords
  <2>2. Secrets!StoreSecret(s) /\ UNCHANGED <<cachedSecret, hostStage, holders>>
    BY <1>3 DEF Secrets!DeleteSecret, Secrets!CollectGarbage
  <2> HIDE DEF s
  <2>3. QED
    BY <1>1, <2>1, <2>2, StoreKeepsSecret
<1>4. CASE Secrets!ChangeSecret
  <2> DEFINE s == [secret EXCEPT !.valid = ~@]
  <2>1. s \in SecretRecords /\ s.exists = secret.exists /\ s.finalizer = secret.finalizer
    BY <1>1 DEF SecretRecords
  <2>2. Secrets!StoreSecret(s) /\ UNCHANGED <<cachedSecret, hostStage, holders>>
    BY <1>4 DEF Secrets!ChangeSecret
  <2> HIDE DEF s
  <2>3. QED
    BY <1>1, <2>1, <2>2, StoreKeepsSecret
<1>5. CASE Secrets!CreateSecret
  <2> DEFINE s == [Secrets!NoSecret EXCEPT !.exists = TRUE, !.valid = TRUE]
  <2>1. s \in SecretRecords /\ s.deleting = FALSE /\ s.exists = TRUE
    BY DEF Secrets!NoSecret, SecretRecords
  <2>2. /\ secret' = s /\ secretFresh' = FALSE /\ ~secret.exists /\ holders' = {}
        /\ UNCHANGED <<cachedSecret, hostStage>>
    <3>1. /\ secret' = Secrets!Stored(s) /\ secretFresh' = FALSE /\ ~secret.exists /\ holders' = {}
          /\ UNCHANGED <<cachedSecret, hostStage>>
      BY <1>5 DEF Secrets!CreateSecret, Secrets!StoreSecret
    <3> HIDE DEF s
    <3>2. QED
      BY <2>1, <3>1, StoredSecret
  <2> HIDE DEF s
  <2>3. SecretInv'
    BY <2>1, <2>2 DEF SecretInv, SecretTypeOK, AllManaged
  <2>4. Secrets!RemovalStep
    BY <2>2 DEF Secrets!RemovalStep
  <2>5. QED
    BY <2>3, <2>4 DEF SecretStep
<1>6. QED
  BY <1>2, <1>3, <1>4, <1>5

\* Every step keeps the invariant, and the secret that hosts hold.
LEMMA NextKeepsSecret == SecretInv /\ [Next]_vars => SecretStep
<1> SUFFICES ASSUME SecretInv, Secrets!Next \/ UNCHANGED secretVars PROVE SecretStep
  BY DEF Next, vars
<1>1. CASE \E h \in SharingHosts : Secrets!ReconcileHost(h) \/ Secrets!DeleteHost(h)
  BY <1>1, ClaimForHostKeeps, DeletionKeeps DEF Secrets!ReconcileHost
<1>2. CASE Secrets!ClaimElsewhere
  BY <1>2, ClaimElsewhereKeeps
<1>3. CASE \/ Secrets!SyncSecret \/ Secrets!DeleteSecret \/ Secrets!CreateSecret
           \/ Secrets!ChangeSecret \/ Secrets!CollectGarbage
  BY <1>3, OthersKeepSecret
<1>4. CASE UNCHANGED secretVars
  <2>1. UNCHANGED <<secret, cachedSecret, secretFresh, hostStage, holders>>
    BY <1>4 DEF secretVars
  <2>2. SecretTypeOK' /\ (AllManaged' => AllManaged)
    BY <2>1 DEF SecretInv, SecretTypeOK, AllManaged
  <2>3. QED
    BY <2>1, <2>2, SameSecretKeeps
<1>5. QED
  BY <1>1, <1>2, <1>3, <1>4 DEF Secrets!Next

\* claimSecret: a secret that a host holds does not go before one of the hosts that
\* share it is deleted, for any number of hosts, stale copies, claims of others and
\* failed updates.
THEOREM SecretIsKeptAlways == Spec => SecretIsKept
<1>1. Init => SecretInv
  <2> SUFFICES ASSUME Secrets!Init PROVE SecretInv
    BY DEF Init
  <2> DEFINE s == [Secrets!NoSecret EXCEPT !.exists = TRUE, !.valid = TRUE]
  <2>1. /\ s \in SecretRecords /\ s.deleting = FALSE
        /\ Secrets!NoSecret \in SecretRecords /\ Secrets!NoSecret.exists = FALSE
    BY DEF Secrets!NoSecret, SecretRecords
  <2>2. /\ secret = s /\ cachedSecret = Secrets!NoSecret /\ holders = {}
        /\ hostStage = [h \in SharingHosts |-> "managed"]
    BY DEF Secrets!Init
  <2> HIDE DEF s
  <2>3. SecretTypeOK
    BY <2>1, <2>2 DEF SecretTypeOK
  <2>4. QED
    BY <2>1, <2>2, <2>3 DEF SecretInv
<1>2. SecretInv /\ [Next]_vars => SecretInv' /\ [Secrets!RemovalStep]_secretVars
  BY NextKeepsSecret DEF SecretStep
<1>3. QED
  BY <1>1, <1>2, PTL DEF Spec, SecretIsKept

-----------------------------------------------------------------------------
(***************************************************************************)
(* The subscription. Its ID is recorded only on an object with finalizer,  *)
(* since a pass saves only what nobody touched after it had read it, and   *)
(* the removal from the BMC is the one of the recorded ID, since the copy  *)
(* with which the finalizer is taken off is exact.                         *)
(***************************************************************************)
SubRecords ==
    [exists : BOOLEAN, deleting : BOOLEAN, finalizer : BOOLEAN, headers : HeaderChoices \cup {FALSE},
     id : Nat]

SubTypeOK ==
    /\ sub \in SubRecords /\ seenSub \in SubRecords
    /\ pass \in [active : BOOLEAN, fresh : BOOLEAN, id : Nat]
    /\ subFresh \in BOOLEAN
    /\ created \in Nat /\ bmc \subseteq 1 .. created

SubInv ==
    /\ SubTypeOK
    /\ subFresh => seenSub = sub
    /\ sub.id # 0 => sub.finalizer
    /\ pass.active /\ pass.fresh => sub.exists /\ sub.finalizer

SubStep == SubInv' /\ Subscription!RemovalStep

\* The object that does not exist.
LEMMA NoSubFields ==
    Subscription!NoSub \in SubRecords /\ Subscription!NoSub.id = 0 /\ ~Subscription!NoSub.exists
BY DEF Subscription!NoSub, SubRecords

\* A pass that creates a subscription, or fails to, with its finalizer.
LEMMA CreationKeeps ==
    ASSUME SubInv, Subscription!CreateSubscription \/ Subscription!CreationFails
    PROVE  SubStep
<1>1. sub \in SubRecords /\ seenSub \in SubRecords /\ created \in Nat /\ subFresh \in BOOLEAN
  BY DEF SubInv, SubTypeOK
<1>2. seenSub.exists /\ ~pass.active /\ seenSub' = seenSub
  BY DEF Subscription!CreateSubscription, Subscription!CreationFails, Subscription!HostFound
<1> DEFINE finalized == [sub EXCEPT !.finalizer = TRUE]
<1>3. /\ finalized \in SubRecords /\ finalized.finalizer = TRUE
      /\ finalized.exists = sub.exists /\ finalized.id = sub.id
  BY <1>1 DEF SubRecords
<1>4. \/ UNCHANGED <<sub, subFresh>> /\ seenSub.finalizer
      \/ UNCHANGED sub /\ subFresh' = FALSE
      \/ subFresh /\ sub' = finalized /\ subFresh' = FALSE
  BY DEF Subscription!CreateSubscription, Subscription!CreationFails, Subscription!AddFinalizer
<1>5. /\ sub' \in SubRecords /\ sub'.exists = sub.exists
      /\ subFresh' \in BOOLEAN /\ (subFresh' => seenSub' = sub')
      /\ sub'.id # 0 => sub'.finalizer
  <2> HIDE DEF finalized
  <2>1. sub.id # 0 => sub.finalizer
    BY DEF SubInv
  <2>2. CASE sub' = sub
    <3>1. subFresh' = subFresh \/ subFresh' = FALSE
      BY <1>4
    <3>2. subFresh => seenSub = sub
      BY DEF SubInv
    <3>3. subFresh' \in BOOLEAN
      BY <1>1, <3>1
    <3>4. subFresh' => seenSub' = sub'
      BY <1>2, <2>2, <3>1, <3>2
    <3>5. sub' \in SubRecords /\ sub'.exists = sub.exists
      BY <1>1, <2>2
    <3>6. sub'.id # 0 => sub'.finalizer
      BY <2>1, <2>2
    <3>7. QED
      BY <3>3, <3>4, <3>5, <3>6
  <2>3. CASE sub' = finalized /\ subFresh' = FALSE
    BY <1>1, <1>2, <1>3, <2>1, <2>3
  <2>4. QED
    BY <1>4, <2>2, <2>3
<1>6. Subscription!RemovalStep
  BY <1>5 DEF Subscription!RemovalStep
<1>7. CASE Subscription!CreationFails
  <2>1. UNCHANGED <<pass, bmc, created>>
    BY <1>7 DEF Subscription!CreationFails
  <2>2. SubTypeOK'
    BY <1>2, <1>5, <2>1 DEF SubInv, SubTypeOK
  <2>3. QED
    BY <1>2, <1>5, <1>6, <2>1, <2>2 DEF SubInv, SubStep
<1>8. CASE Subscription!CreateSubscription
  <2>1. /\ created' = created + 1 /\ bmc' = bmc \cup {created + 1}
        /\ pass' = [active |-> TRUE, fresh |-> subFresh, id |-> created + 1]
    BY <1>8 DEF Subscription!CreateSubscription
  <2>2. bmc' \subseteq 1 .. created' /\ created' \in Nat
    BY <1>1, <2>1 DEF SubInv, SubTypeOK
  <2>3. SubTypeOK'
    BY <1>1, <1>2, <1>5, <2>1, <2>2 DEF SubInv, SubTypeOK
  <2>4. subFresh => sub'.exists /\ sub'.finalizer
    <3>1. Subscription!AddFinalizer
      BY <1>8 DEF Subscription!CreateSubscription
    <3>2. subFresh => sub = seenSub
      BY DEF SubInv
    <3>3. CASE seenSub.finalizer
      BY <1>2, <3>1, <3>2, <3>3 DEF Subscription!AddFinalizer
    <3>4. CASE ~seenSub.finalizer
      BY <1>2, <1>3, <3>1, <3>2, <3>4 DEF Subscription!AddFinalizer
    <3>5. QED
      BY <3>3, <3>4
  <2>5. QED
    BY <1>5, <1>6, <2>1, <2>3, <2>4 DEF SubInv, SubStep
<1>9. QED
  BY <1>7, <1>8

\* The ID is recorded on the object the pass has read, which has its finalizer.
LEMMA SaveKeeps ==
    ASSUME SubInv, Subscription!SaveSubscription
    PROVE  SubStep
<1>1. /\ sub \in SubRecords /\ pass.id \in Nat /\ pass.active
      /\ pass' = Subscription!NoPass /\ UNCHANGED <<seenSub, bmc, created>>
  BY DEF SubInv, SubTypeOK, Subscription!SaveSubscription
<1>2. /\ Subscription!NoPass \in [active : BOOLEAN, fresh : BOOLEAN, id : Nat]
      /\ ~Subscription!NoPass.active
  BY DEF Subscription!NoPass
<1> DEFINE recorded == [sub EXCEPT !.id = pass.id]
<1>3. /\ recorded \in SubRecords /\ recorded.exists = sub.exists
      /\ recorded.finalizer = sub.finalizer
  BY <1>1 DEF SubRecords
<1>4. \/ pass.fresh /\ sub' = recorded /\ subFresh' = FALSE
      \/ UNCHANGED <<sub, subFresh>>
  BY DEF Subscription!SaveSubscription, Subscription!SaveID
<1> HIDE DEF recorded
<1>5. SubTypeOK'
  BY <1>1, <1>2, <1>3, <1>4 DEF SubInv, SubTypeOK
<1>6. SubInv' /\ Subscription!RemovalStep
  BY <1>1, <1>2, <1>3, <1>4, <1>5 DEF SubInv, Subscription!RemovalStep
<1>7. QED
  BY <1>6 DEF SubStep

\* The finalizer goes with the copy whose ID was removed, and that copy is exact.
LEMMA DeletionKeepsSub ==
    ASSUME SubInv, Subscription!DeleteSubscription
    PROVE  SubStep
<1>1. /\ bmc' = bmc \ {seenSub.id} /\ UNCHANGED <<seenSub, pass, created>>
      /\ ~pass.active /\ seenSub.deleting
      /\ \/ /\ subFresh /\ subFresh' = FALSE
            /\ sub' = Subscription!Stored([sub EXCEPT !.finalizer = FALSE])
         \/ UNCHANGED <<sub, subFresh>>
  BY DEF Subscription!DeleteSubscription, Subscription!HostFound, Subscription!ToDelete,
         Subscription!RemoveFromBMC
<1>2. bmc' \subseteq 1 .. created
  BY <1>1 DEF SubInv, SubTypeOK
<1>3. CASE UNCHANGED <<sub, subFresh>>
  <2>1. SubTypeOK'
    BY <1>1, <1>2, <1>3 DEF SubInv, SubTypeOK
  <2>2. QED
    BY <1>1, <1>3, <2>1 DEF SubInv, SubStep, Subscription!RemovalStep
<1>4. CASE /\ subFresh /\ subFresh' = FALSE
           /\ sub' = Subscription!Stored([sub EXCEPT !.finalizer = FALSE])
  <2>1. sub = seenSub /\ sub \in SubRecords
    BY <1>4 DEF SubInv, SubTypeOK
  <2>2. sub' = Subscription!NoSub
    <3>1. /\ [sub EXCEPT !.finalizer = FALSE].deleting = sub.deleting
          /\ [sub EXCEPT !.finalizer = FALSE].finalizer = FALSE
      BY <2>1 DEF SubRecords
    <3>2. QED
      BY <1>1, <1>4, <2>1, <3>1 DEF Subscription!Stored
  <2>3. SubTypeOK'
    BY <1>1, <1>2, <1>4, <2>2, NoSubFields DEF SubInv, SubTypeOK
  <2>4. SubInv'
    BY <1>1, <1>4, <2>2, <2>3, NoSubFields DEF SubInv
  <2>5. Subscription!RemovalStep
    BY <1>1, <2>1 DEF Subscription!RemovalStep
  <2>6. QED
    BY <2>4, <2>5 DEF SubStep
<1>5. QED
  BY <1>1, <1>3, <1>4

\* A removal that fails leaves the object alone, but for its error.
LEMMA FailedRemovalKeepsSub ==
    ASSUME SubInv, Subscription!RemovalFails
    PROVE  SubStep
<1>1. UNCHANGED <<sub, seenSub, pass, bmc, created>> /\ subFresh' \in {subFresh, FALSE}
  BY DEF Subscription!RemovalFails
<1>2. SubTypeOK'
  BY <1>1 DEF SubInv, SubTypeOK
<1>3. CASE subFresh' = subFresh
  BY <1>1, <1>2, <1>3 DEF SubInv, SubStep, Subscription!RemovalStep
<1>4. CASE subFresh' = FALSE
  BY <1>1, <1>2, <1>4 DEF SubInv, SubStep, Subscription!RemovalStep
<1>5. QED
  BY <1>1, <1>3, <1>4

\* A user's deletion removes only an object without finalizer, which records no ID.
LEMMA EditsKeepSub ==
    ASSUME SubInv,
           \/ Subscription!EditSubscription \/ Subscription!EditCluster
           \/ Subscription!SyncSubscription
    PROVE  SubStep
<1>1. /\ sub \in SubRecords /\ pass \in [active : BOOLEAN, fresh : BOOLEAN, id : Nat]
      /\ 0 \notin bmc
  BY DEF SubInv, SubTypeOK
<1>2. CASE Subscription!EditSubscription
  <2> DEFINE doomed == [sub EXCEPT !.deleting = TRUE]
  <2>1. /\ doomed \in SubRecords /\ doomed.finalizer = sub.finalizer /\ doomed.id = sub.id
        /\ doomed.exists = sub.exists
    BY <1>1 DEF SubRecords
  <2>2. sub' \in {sub, doomed} \/ (sub' = Subscription!NoSub /\ ~doomed.finalizer)
    BY <1>2 DEF Subscription!EditSubscription, Subscription!Stored
  <2>3. /\ subFresh' = FALSE /\ UNCHANGED <<seenSub, bmc, created>>
        /\ pass' = [pass EXCEPT !.fresh = FALSE]
    BY <1>2 DEF Subscription!EditSubscription
  <2>4. pass' \in [active : BOOLEAN, fresh : BOOLEAN, id : Nat] /\ pass'.fresh = FALSE
    BY <1>1, <2>3
  <2> HIDE DEF doomed
  <2>5. /\ sub' \in SubRecords /\ (sub'.id # 0 => sub'.finalizer)
        /\ sub.exists /\ ~sub'.exists => sub.id = 0
    BY <1>1, <2>1, <2>2, NoSubFields DEF SubInv
  <2>6. SubTypeOK'
    BY <2>3, <2>4, <2>5 DEF SubInv, SubTypeOK
  <2>7. SubInv' /\ Subscription!RemovalStep
    BY <1>1, <2>3, <2>4, <2>5, <2>6 DEF SubInv, Subscription!RemovalStep
  <2>8. QED
    BY <2>7 DEF SubStep
<1>3. CASE Subscription!EditCluster \/ Subscription!SyncSubscription
  <2>1. /\ UNCHANGED <<sub, pass, bmc, created>>
        /\ \/ UNCHANGED <<seenSub, subFresh>>
           \/ seenSub' = sub /\ subFresh' = TRUE
    BY <1>3 DEF Subscription!EditCluster, Subscription!SyncSubscription
  <2>2. SubTypeOK'
    BY <2>1 DEF SubInv, SubTypeOK
  <2>3. QED
    BY <2>1, <2>2 DEF SubInv, SubStep, Subscription!RemovalStep
<1>4. QED
  BY <1>2, <1>3

\* deleteSubscription: a BMCEventSubscription disappears only once the ID it records is
\* gone from the BMC, for any edits, faults, stale copies and restarts.
THEOREM RecordedSubscriptionIsRemovedAlways ==
    Spec => RecordedSubscriptionIsRemoved
<1>1. Init => SubInv
  <2> SUFFICES ASSUME Subscription!Init PROVE SubInv
    BY DEF Init
  <2>1. PICK h \in HeaderChoices :
           sub = [Subscription!NoSub EXCEPT !.exists = TRUE, !.headers = h]
    BY DEF Subscription!Init
  <2>2. sub \in SubRecords /\ sub.id = 0
    BY <2>1 DEF Subscription!NoSub, SubRecords
  <2>3. /\ seenSub = Subscription!NoSub /\ subFresh = FALSE /\ bmc = {} /\ created = 0
        /\ pass = Subscription!NoPass
    BY DEF Subscription!Init
  <2>4. QED
    BY <2>2, <2>3, NoSubFields DEF SubInv, SubTypeOK, Subscription!NoPass
<1>2. SubInv /\ [Next]_vars => SubInv' /\ [Subscription!RemovalStep]_subVars
  <2> SUFFICES ASSUME SubInv, Subscription!Next \/ UNCHANGED subVars
               PROVE  SubStep
    BY DEF SubStep, Next, vars
  <2>1. CASE Subscription!ReconcileSubscription
    BY <2>1, CreationKeeps, SaveKeeps, DeletionKeepsSub, FailedRemovalKeepsSub
       DEF Subscription!ReconcileSubscription
  <2>2. CASE \/ Subscription!EditSubscription \/ Subscription!EditCluster
             \/ Subscription!SyncSubscription
    BY <2>2, EditsKeepSub
  <2>3. CASE UNCHANGED subVars
    <3>1. UNCHANGED <<sub, seenSub, subFresh, pass, bmc, created>>
      BY <2>3 DEF subVars
    <3>2. QED
      BY <3>1 DEF SubInv, SubTypeOK, SubStep, Subscription!RemovalStep
  <2>4. QED
    BY <2>1, <2>2, <2>3 DEF Subscription!Next
<1>3. QED
  BY <1>1, <1>2, PTL DEF Spec, RecordedSubscriptionIsRemoved
==============================================================================
