----------------------------- MODULE MCRegistry -----------------------------
\* Registry with the source's time constants, in seconds, for TLC.
EXTENDS RegistryProps, TLC
=============================================================================
