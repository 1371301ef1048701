----------------------------- MODULE MCFirmware -----------------------------
EXTENDS Firmware

CONSTANT FirstValue

\* The values of the setting are interchangeable: the node starts with one of them.
MCInit == Init /\ node.bios = FirstValue

MCSpec == MCInit /\ [][Next]_vars /\ Fairness
=============================================================================
