---------------------------- MODULE HostLifecycle ----------------------------
(***************************************************************************)
(* What the BareMetalHost API promises about the disk of a machine, as the *)
(* user sees it: images are written only while a host is being deployed    *)
(* (or torn down again), nothing touches the disk of a running host, a     *)
(* host comes back for new deployments only after its disk was erased, and *)
(* a deployment starts only on a disk that holds none of our images.       *)
(***************************************************************************)
CONSTANTS Images, Blank

VARIABLES
    phase,    \* "idle", "deploying", "running", "tearing down", "leaving", "gone"
    disk

vars == <<phase, disk>>

Init == phase = "idle" /\ disk \notin Images

Go(from, to) == phase \in from /\ phase' = to /\ UNCHANGED disk

\* A host in the "idle" phase is enrolled, inspected, prepared or available.
StartDeploy == disk \notin Images /\ Go({"idle"}, "deploying")

\* Hosts that somebody else deployed are running from the start.
Run == Go({"idle", "deploying"}, "running")

StartTeardown == Go({"deploying", "running"}, "tearing down")

FinishTeardown == disk = Blank /\ Go({"tearing down"}, "idle")

Leave == Go({"idle", "deploying", "running", "tearing down"}, "leaving")

Vanish == Go({"idle", "leaving"}, "gone")

Erase ==
    /\ phase # "running"
    /\ disk' = Blank
    /\ UNCHANGED phase

\* A deployment that cannot be interrupted still ends while it is torn down.
Write ==
    /\ phase \in {"deploying", "tearing down", "leaving", "gone"}
    /\ disk' \in Images
    /\ UNCHANGED phase

Next ==
    \/ StartDeploy
    \/ Run
    \/ StartTeardown
    \/ FinishTeardown
    \/ Leave
    \/ Vanish
    \/ Erase
    \/ Write

Spec == Init /\ [][Next]_vars

=============================================================================
