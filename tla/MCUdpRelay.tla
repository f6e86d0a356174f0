------------------------------ MODULE MCUdpRelay ------------------------------
(* The module the run of UdpRelay is started from. *)
EXTENDS UdpRelay
===============================================================================
