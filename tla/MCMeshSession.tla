--------------------------- MODULE MCMeshSession ---------------------------
(* Instances of MeshSession: two connections, and requests of every kind.   *)
EXTENDS MeshSession

CONSTANTS
    a, b,      \* connections
    direct,    \* a request sent directly, with a timeout
    relayed,   \* a relayed request with a timeout
    patient    \* a relayed request without one
=============================================================================
