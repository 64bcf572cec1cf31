------------------------------ MODULE MCPoller ------------------------------
(* The states of a slice that the pollers are given.                        *)
EXTENDS Poller

SliceStates == {"Configuring", "StableOK", "StableError", "Closing", "Dead"}

=============================================================================
