---------------------------- MODULE MCAccount ----------------------------
\* Account by itself, for the runs that refute what is said of it.
EXTENDS Account
===========================================================================
