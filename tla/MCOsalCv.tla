------------------------------ MODULE MCOsalCv ------------------------------
EXTENDS OsalCv
=============================================================================
