---------------------------- MODULE MCOsalThread ----------------------------
EXTENDS OsalThread
=============================================================================
