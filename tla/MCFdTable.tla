----------------------------- MODULE MCFdTable ------------------------------
EXTENDS FdTable
=============================================================================
