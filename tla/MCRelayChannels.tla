-------------------------- MODULE MCRelayChannels --------------------------
(* Instances of RelayChannels: two devices, a few frames and mishaps.        *)
EXTENDS RelayChannels

CONSTANTS a, b   \* devices
=============================================================================
