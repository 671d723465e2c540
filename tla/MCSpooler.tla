----------------------------- MODULE MCSpooler -----------------------------
EXTENDS Spooler
=============================================================================
