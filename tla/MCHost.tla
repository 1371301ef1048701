------------------------------- MODULE MCHost -------------------------------
EXTENDS BareMetalHost
=============================================================================
