---------------------------- MODULE MCDeviceFlow ----------------------------
(* Small instances of DeviceFlow; flows and requests are interchangeable, user *)
(* codes are not, since NewRecord chooses one.                                *)
EXTENDS DeviceFlow, TLC

Interchangeable == Permutations(Flows) \cup Permutations(Creators)
=============================================================================
