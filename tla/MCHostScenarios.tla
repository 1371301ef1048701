--------------------------- MODULE MCHostScenarios ---------------------------
(***************************************************************************)
(* One host in one of four scenarios, chosen at the start:                 *)
(*   images    the constants of the configuration: images change, and      *)
(*             everything fails twice;                                     *)
(*   raid      the RAID configuration changes, and everything but the      *)
(*             capacity fails twice;                                       *)
(*   inspect   inspection is disabled and enabled, and something fails;    *)
(*   giveup    Ironic fails often enough for the controller to give up.    *)
(* `disturbed' remembers whether a host was disturbed in Preparing.        *)
(***************************************************************************)
EXTENDS BareMetalHost

VARIABLES scenario, disturbed

OneImage == {CHOOSE i \in Images : TRUE}

RAID == INSTANCE BareMetalHost WITH
    Images <- OneImage, UserOps <- {"raid"}, Faults <- Faults \ {"slot"}

Inspect == INSTANCE BareMetalHost WITH
    Images <- OneImage, UserOps <- {"inspect"}, MaxFaults <- 1

GiveUp == INSTANCE BareMetalHost WITH
    Images <- OneImage, Faults <- {"ironic"}, MaxFaults <- 5

MCInit ==
    /\ \/ scenario = "images" /\ Init
       \/ scenario = "raid" /\ RAID!Init
       \/ scenario = "inspect" /\ Inspect!Init
       \/ scenario = "giveup" /\ GiveUp!Init
    /\ disturbed = FALSE

MCNext ==
    /\ \/ scenario = "images" /\ Next
       \/ scenario = "raid" /\ RAID!Next
       \/ scenario = "inspect" /\ Inspect!Next
       \/ scenario = "giveup" /\ GiveUp!Next
    /\ UNCHANGED scenario
    /\ disturbed' = (disturbed \/ ~Undisturbed)

MCSpec == MCInit /\ [][MCNext]_<<vars, scenario, disturbed>>

\* handlePreparing records a RAID configuration when the cleaning that creates it
\* starts.  As long as no host was disturbed in Preparing, a prepared host has the RAID
\* volumes that its status reports: stale copies, saves that conflict or are lost,
\* refused calls, a lost Ironic database (registerHost forgets the software volumes of a
\* host with a new node), failures in every other state, and edits in every other
\* state do no harm.
SettingsAppliedUndisturbed == ~disturbed => SettingsApplied
=============================================================================
