--------------------------- MODULE BareMetalSwitch ---------------------------
(***************************************************************************)
(* Top-of-rack switches and the two secrets generated from them.           *)
(*                                                                         *)
(* The reconcile of any switch regenerates the configuration of all of     *)
(* them and writes it into the config secret, then writes the SSH keys     *)
(* into the credentials secret, and then the condition of its own switch.  *)
(* Each of the writes may fail, reconciles of different switches run       *)
(* concurrently, and a switch is only queued by an event of its own        *)
(* resource or of a secret that names it as an owner.                      *)
(*                                                                         *)
(* The switches and their credentials are modelled as the cache shows      *)
(* them: an edit and the event it causes are one step. The generated       *)
(* secrets, which the reconciles compete for, are read from a cache that   *)
(* lags behind.                                                            *)
(***************************************************************************)
EXTENDS Integers, FiniteSets

CONSTANTS
    Switches,
    SwitchWorkers,   \* MaxConcurrentReconciles
    MaxSwitchEdits,  \* bound on the users' steps
    MaxSwitchFaults  \* bound on failed calls and restarts

VARIABLES
    switches,      \* the BareMetalSwitches
    credentials,   \* the credentials secret of each
    valid,         \* their Valid condition and the generation it observed
    switchQueue,   \* switches to reconcile
    work,          \* the reconciles in progress
    generated,     \* what the config secret and the credentials secret say of each switch
    cached,        \* the cache's copies of the two, and whether they are the last version
    switchBudget

switchVars ==
    <<switches, credentials, valid, switchQueue, work, generated, cached, switchBudget>>

Idle == [stage |-> "idle"]
NoCondition == [status |-> "unknown", gen |-> 0]
NoEntry == [kind |-> "none", gen |-> 0, data |-> 0]
Generated == {"config", "keys"}   \* the two secrets

Init ==
    /\ switches = [s \in Switches |-> [exists |-> TRUE, gen |-> 0, ref |-> TRUE]]
    /\ credentials \in [Switches -> [kind : {"missing", "key"}, data : {0}, owned : {FALSE}]]
    /\ valid = [s \in Switches |-> NoCondition]
    /\ switchQueue = Switches
    /\ work = [s \in Switches |-> Idle]
    /\ generated = [name \in Generated |-> [s \in Switches |-> NoEntry]]
    /\ cached = [name \in Generated |-> [data |-> [s \in Switches |-> NoEntry], fresh |-> TRUE]]
    /\ switchBudget = [edits |-> MaxSwitchEdits, faults |-> MaxSwitchFaults]

SwitchFault ==
    /\ switchBudget.faults > 0
    /\ switchBudget' = [switchBudget EXCEPT !.faults = @ - 1]

(***************************************************************************)
(* generateSwitchConfig and writeSwitchEntry.                              *)
(***************************************************************************)
\* AcquireSecret of every switch makes it an owner of its secret.
Acquirable(s) == switches[s].exists /\ switches[s].ref
Acquires(s) == Acquirable(s) /\ credentials[s].kind # "missing"

\* A switch with a credentialConfigError or credentialSecretNotFoundError.
CredentialError(s) ==
    ~switches[s].ref \/ credentials[s].kind \in {"missing", "bad"}

EntryOf(s) ==
    IF ~switches[s].exists \/ CredentialError(s) THEN NoEntry
    ELSE [kind |-> credentials[s].kind, gen |-> switches[s].gen, data |-> credentials[s].data]

\* The private key of a publickey switch, under a name its entry refers to.
KeyOf(entry) == IF entry.kind = "key" THEN entry ELSE NoEntry

AllOrNothing ==
    [s \in Switches |-> IF \E t \in Switches : switches[t].exists /\ CredentialError(t)
                        THEN NoEntry ELSE EntryOf(s)]

\* One bad switch does not keep the others out.
SwitchConfig == [s \in Switches |-> EntryOf(s)]

(***************************************************************************)
(* Reconcile, in its three steps.                                          *)
(***************************************************************************)
Running == {s \in Switches : work[s] # Idle}

\* The new owner references are events of the secrets.
Generate(s) ==
    /\ s \in switchQueue /\ work[s] = Idle
    /\ Cardinality(Running) < SwitchWorkers
    /\ credentials' = [t \in Switches |-> [credentials[t] EXCEPT !.owned = @ \/ Acquires(t)]]
    /\ switchQueue' = (switchQueue \ {s})
                      \cup {t \in Switches : Acquires(t) /\ ~credentials[t].owned}
    /\ work' = [work EXCEPT ![s] = [stage |-> "config", entries |-> SwitchConfig,
                                    exists |-> switches[s].exists, gen |-> switches[s].gen,
                                    error |-> CredentialError(s),
                                    missing |-> Acquirable(s) /\ credentials[s].kind = "missing"]]
    /\ UNCHANGED <<switches, valid, generated, cached, switchBudget>>

\* A failed call ends the reconcile, which is queued again.
Abort(s) ==
    /\ SwitchFault
    /\ work' = [work EXCEPT ![s] = Idle]
    /\ switchQueue' = switchQueue \cup {s}

\* updateSecretData: the cache's copy is compared with the new data and carries
\* the resource version, so a copy that is old leads to a conflict, or to no
\* update at all when it happens to be equal.
UpdateSecretData(s, name, new, next) ==
    LET copy == cached[name] IN
    /\ \/ /\ copy.data = new
          /\ work' = [work EXCEPT ![s].stage = next]
          /\ UNCHANGED <<generated, cached, switchQueue, switchBudget>>
       \/ /\ copy.data # new /\ copy.fresh
          /\ generated' = [generated EXCEPT ![name] = new]
          /\ cached' = [cached EXCEPT ![name].fresh = FALSE]
          /\ work' = [work EXCEPT ![s].stage = next]
          /\ UNCHANGED <<switchQueue, switchBudget>>
       \/ /\ copy.data # new /\ ~copy.fresh
          /\ work' = [work EXCEPT ![s] = Idle]
          /\ switchQueue' = switchQueue \cup {s}
          /\ UNCHANGED <<generated, cached, switchBudget>>
       \/ Abort(s) /\ UNCHANGED <<generated, cached>>
    /\ UNCHANGED <<switches, credentials, valid>>

WriteConfig(s) ==
    work[s].stage = "config" /\ UpdateSecretData(s, "config", work[s].entries, "keys")

WriteKeys(s) ==
    /\ work[s].stage = "keys"
    /\ UpdateSecretData(s, "keys", [t \in Switches |-> KeyOf(work[s].entries[t])], "status")

NeverRequeued(s) == {}

\* Nobody would tell of a secret that does not exist yet: RequeueAfter.
Requeued(s) == IF work[s].missing THEN {s} ELSE {}

\* The condition is written when it differs, and a status that changes is an
\* event, too. The write of a switch that was edited meanwhile is a conflict.
Condition(s) ==
    [status |-> IF work[s].error THEN "false" ELSE "true", gen |-> work[s].gen]

WriteStatus(s) ==
    /\ work[s].stage = "status"
    /\ work' = [work EXCEPT ![s] = Idle]
    /\ \/ /\ ~work[s].exists \/ valid[s] = Condition(s)
          /\ switchQueue' = switchQueue \cup Requeued(s)
          /\ UNCHANGED <<valid, switchBudget>>
       \/ /\ work[s].exists /\ valid[s] # Condition(s)
          /\ valid' = IF switches[s].exists /\ work[s].gen = switches[s].gen
                      THEN [valid EXCEPT ![s] = Condition(s)] ELSE valid
          /\ switchQueue' = switchQueue \cup {s}
          /\ UNCHANGED switchBudget
       \/ work[s].exists /\ valid[s] # Condition(s) /\ Abort(s) /\ UNCHANGED valid
    /\ UNCHANGED <<switches, credentials, generated, cached>>

ReconcileSwitch(s) == Generate(s) \/ WriteConfig(s) \/ WriteKeys(s) \/ WriteStatus(s)

(***************************************************************************)
(* The users and the operator.                                             *)
(***************************************************************************)
EditSwitch ==
    /\ switchBudget.edits > 0
    /\ switchBudget' = [switchBudget EXCEPT !.edits = @ - 1]

ChangeSwitch(s) ==
    /\ EditSwitch
    /\ \E exists, ref \in BOOLEAN :
         /\ exists \/ (switches[s].exists /\ ref = switches[s].ref)
         /\ switches' = [switches EXCEPT ![s] = [exists |-> exists, gen |-> @.gen + 1, ref |-> ref]]
    /\ valid' = IF switches'[s].exists /\ switches[s].exists THEN valid
                ELSE [valid EXCEPT ![s] = NoCondition]
    /\ switchQueue' = switchQueue \cup {s}
    /\ UNCHANGED <<credentials, work, generated, cached>>

\* A secret that is created again has no owner; one without owner wakes nobody.
ChangeCredentials(s) ==
    /\ EditSwitch
    /\ \E kind \in {"missing", "bad", "password", "key"} :
         credentials' =
            [credentials EXCEPT ![s] =
                IF kind = "missing" \/ @.kind = "missing"
                THEN [kind |-> kind, data |-> @.data, owned |-> FALSE]
                ELSE [kind |-> kind, data |-> IF kind = @.kind THEN 1 - @.data ELSE @.data,
                      owned |-> @.owned]]
    /\ credentials' # credentials
    /\ switchQueue' = IF credentials[s].owned THEN switchQueue \cup {s} ELSE switchQueue
    /\ UNCHANGED <<switches, valid, work, generated, cached>>

\* A restarted operator reconciles every switch there is.
RestartOperator ==
    /\ SwitchFault
    /\ work' = [s \in Switches |-> Idle]
    /\ switchQueue' = {s \in Switches : switches[s].exists}
    /\ cached' = [name \in Generated |-> [data |-> generated[name], fresh |-> TRUE]]
    /\ UNCHANGED <<switches, credentials, valid, generated>>

SyncGenerated(name) ==
    /\ ~cached[name].fresh
    /\ cached' = [cached EXCEPT ![name] = [data |-> generated[name], fresh |-> TRUE]]
    /\ UNCHANGED <<switches, credentials, valid, switchQueue, work, generated, switchBudget>>

\* The informers' resync, every ten hours by default, queues every switch there is.
Resync ==
    /\ switchQueue' = switchQueue \cup {s \in Switches : switches[s].exists}
    /\ switchQueue' # switchQueue
    /\ UNCHANGED <<switches, credentials, valid, work, generated, cached, switchBudget>>

Next ==
    \/ \E s \in Switches : ReconcileSwitch(s) \/ ChangeSwitch(s) \/ ChangeCredentials(s)
    \/ \E name \in Generated : SyncGenerated(name)
    \/ RestartOperator \/ Resync

Spec == Init /\ [][Next]_switchVars

(***************************************************************************)
(* Properties.                                                             *)
(***************************************************************************)
\* What the condition and the two secrets should say of a switch.
Reported(s) ==
    switches[s].exists =>
        valid[s] = [status |-> IF CredentialError(s) THEN "false" ELSE "true",
                    gen |-> switches[s].gen]
Configured(s) ==
    /\ generated["config"][s] = EntryOf(s)
    /\ generated["keys"][s] = KeyOf(EntryOf(s))

\* Reconcile: once the users leave them alone, the condition of every switch comes
\* to say whether its credentials can be used, although nobody is told of a secret
\* that has no owner yet, reconciles of other switches run at the same time, and a
\* write may be refused. No resync is needed.
ConditionsConverge == <>[](\A s \in Switches : Reported(s))

\* "the controller skips that switch and continues generating config for the
\* remaining healthy switches": with the informers' resync, both secrets come to
\* describe the switches as they are, however edits, failures, restarts and the
\* writes of concurrent reconciles fell. (A switch has no finalizer: when the last
\* one goes just before a restart, nothing is queued and its entry stays.)
ConfigConverges ==
    WF_switchVars(Resync) =>
        <>[]((\E t \in Switches : switches[t].exists) => \A s \in Switches : Configured(s))

\* Not true of the code: "SwitchConditionValid indicates whether the switch has been
\* successfully reconciled into the switch config secret", so when no reconcile is
\* queued or running, a valid switch is in the config secret as it is. Of two
\* reconciles the one that listed the switches first may write last, and only the
\* next resync repairs it.
ValidSwitchIsConfigured ==
    switchQueue = {} /\ Running = {} =>
        \A s \in Switches :
            switches[s].exists /\ valid[s] = [status |-> "true", gen |-> switches[s].gen] =>
                generated["config"][s] = EntryOf(s)
=============================================================================
