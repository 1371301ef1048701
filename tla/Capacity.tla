------------------------------ MODULE Capacity ------------------------------
(***************************************************************************)
(* The limit on the hosts that Ironic works on at the same time.           *)
(*                                                                         *)
(* A host that is about to enter a limited state (inspecting,              *)
(* provisioning, deprovisioning), and every pass of a host that is in one, *)
(* first counts the busy nodes of Ironic; without a free slot the host is  *)
(* delayed and asks again later. The call that makes its node busy comes   *)
(* later in the same pass, while the passes of other hosts do the same.    *)
(* Preparing cleans a node without asking, virtual media hosts never ask.  *)
(***************************************************************************)
EXTENDS Integers, FiniteSets

CONSTANTS
    BusyHosts,      \* the hosts
    VirtualMedia,   \* those that boot from virtual media
    MaxBusyHosts,   \* PROVISIONING_LIMIT
    HostWorkers,    \* BMO_CONCURRENCY
    MaxJobs         \* bound on the limited operations of one host

VARIABLES
    hostPhase,  \* rest, preparing, or limited: its provisioning state
    delayed,    \* hosts whose operational status is delayed
    granted,    \* hosts in a pass that found a free slot
    nodeBusy,   \* nodes in a busy provision state
    jobs        \* limited operations each host has still to do

capacityVars == <<hostPhase, delayed, granted, nodeBusy, jobs>>

Init ==
    /\ hostPhase = [h \in BusyHosts |-> "rest"]
    /\ delayed = {} /\ granted = {} /\ nodeBusy = {}
    /\ jobs = [h \in BusyHosts |-> MaxJobs]

\* loadBusyHosts leaves out the nodes with a virtual media boot interface.
LoadBusyHosts == nodeBusy \ VirtualMedia

HasCapacityOffByOne(h) ==
    \/ h \in VirtualMedia
    \/ h \in LoadBusyHosts
    \/ Cardinality(LoadBusyHosts) <= MaxBusyHosts

HasCapacity(h) ==
    \/ h \in VirtualMedia
    \/ h \in LoadBusyHosts
    \/ Cardinality(LoadBusyHosts) < MaxBusyHosts

\* A host is reconciled by one worker at a time.
InPass(h) == h \in granted

\* updateHostStateFrom, at the end of a pass of a host at rest.
EnterLimited(h) ==
    /\ hostPhase[h] = "rest" /\ ~InPass(h) /\ h \notin delayed
    /\ jobs[h] > 0
    /\ IF HasCapacity(h)
       THEN hostPhase' = [hostPhase EXCEPT ![h] = "limited"] /\ UNCHANGED delayed
       ELSE delayed' = delayed \cup {h} /\ UNCHANGED hostPhase
    /\ UNCHANGED <<granted, nodeBusy, jobs>>

StayDelayed(h) == delayed

Undelay(h) == delayed \ {h}

\* checkDelayedHost of a delayed host: it only clears the status.
CheckDelayed(h) ==
    /\ h \in delayed /\ HasCapacity(h)
    /\ delayed' = Undelay(h)
    /\ UNCHANGED <<hostPhase, granted, nodeBusy, jobs>>

\* checkDelayedHost of a host in a limited state, before it does anything.
CheckAgain(h) ==
    /\ hostPhase[h] = "limited" /\ ~InPass(h) /\ h \notin delayed
    /\ h \notin nodeBusy
    /\ Cardinality(granted) < HostWorkers
    /\ IF HasCapacity(h)
       THEN granted' = granted \cup {h} /\ UNCHANGED delayed
       ELSE delayed' = delayed \cup {h} /\ UNCHANGED granted
    /\ UNCHANGED <<hostPhase, nodeBusy, jobs>>

\* The same pass starts the operation, or fails and leaves it to the next one.
StartOperation(h) ==
    /\ InPass(h)
    /\ granted' = granted \ {h}
    /\ nodeBusy' = nodeBusy \cup {h}
    /\ UNCHANGED <<hostPhase, delayed, jobs>>

FailOperation(h) ==
    /\ InPass(h) /\ jobs[h] > 0
    /\ granted' = granted \ {h}
    /\ jobs' = [jobs EXCEPT ![h] = @ - 1]
    /\ UNCHANGED <<hostPhase, delayed, nodeBusy>>

\* Preparing asks nobody: its manual cleaning makes the node busy all the same.
StartCleaning(h) ==
    /\ hostPhase[h] = "rest" /\ h \notin delayed /\ jobs[h] > 0
    /\ hostPhase' = [hostPhase EXCEPT ![h] = "preparing"]
    /\ nodeBusy' = nodeBusy \cup {h}
    /\ jobs' = [jobs EXCEPT ![h] = @ - 1]
    /\ UNCHANGED <<delayed, granted>>

\* Ironic is done, and the host leaves the state.
Finish(h) ==
    /\ h \in nodeBusy
    /\ nodeBusy' = nodeBusy \ {h}
    /\ hostPhase' = [hostPhase EXCEPT ![h] = "rest"]
    /\ jobs' = [jobs EXCEPT ![h] = IF hostPhase[h] = "limited" /\ @ > 0 THEN @ - 1 ELSE @]
    /\ UNCHANGED <<delayed, granted>>

ReconcileBusyHost(h) ==
    EnterLimited(h) \/ CheckDelayed(h) \/ CheckAgain(h) \/ StartOperation(h)

Next ==
    \E h \in BusyHosts :
        ReconcileBusyHost(h) \/ FailOperation(h) \/ StartCleaning(h) \/ Finish(h)

Spec == Init /\ [][Next]_capacityVars

(***************************************************************************)
(* Properties.                                                             *)
(***************************************************************************)
LimitedBusy == {h \in nodeBusy \ VirtualMedia : hostPhase[h] = "limited"}

\* "The Operator will try to enforce this limit, but overflows could happen in
\* case of [...] higher number of concurrent reconciles": the hosts that are
\* being (de)provisioned exceed the limit by fewer than the concurrent passes.
BusyBound == Cardinality(LimitedBusy) <= MaxBusyHosts + HostWorkers - 1

\* A delayed host gets its turn: no host is left waiting when the others are done.
DelayedHostsProceed == []<>(delayed = {})
=============================================================================
