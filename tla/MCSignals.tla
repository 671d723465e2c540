------------------------------ MODULE MCSignals ------------------------------
(* Two workers and a mule, one signal, and pipes that hold one byte.          *)
EXTENDS Signals
=============================================================================
