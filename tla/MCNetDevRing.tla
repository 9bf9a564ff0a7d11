---------------------------- MODULE MCNetDevRing ----------------------------
EXTENDS NetDevRing
=============================================================================
