---------------------------- MODULE MCBsdLibrary ----------------------------
EXTENDS BsdLibrary
=============================================================================
