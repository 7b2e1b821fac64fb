------------------------------- MODULE MCGateRun -------------------------------
(* Instances of GateRun for TLC.                                           *)
EXTENDS GateRun

NoFaults == {}
EveryFault == FaultKinds
=============================================================================
