----------------------------- MODULE MCRelayHub -----------------------------
(* Instances of the hub: which connection may gossip which devices.          *)
EXTENDS RelayHub, TLC

CONSTANTS c1, c2, c3, dA, dB, dC

\* Every connection holds one device of its own.
OneDeviceEach == (c1 :> {dA}) @@ (c2 :> {dB}) @@ (c3 :> {dC})

\* c1 fronts both devices, as a gateway does; dB also connects by itself, on c2.
TwoClients == (c1 :> {dA, dB}) @@ (c2 :> {dB})

\* The connections are interchangeable, each together with its device.
OneDeviceSymmetry ==
    {[x \in {c1, c2, c3, dA, dB, dC} |->
        IF x \in DOMAIN p THEN p[x]
        ELSE CHOOSE d \in OneDeviceEach[p[CHOOSE c \in DOMAIN p : x \in OneDeviceEach[c]]] : TRUE] :
     p \in Permutations({c1, c2, c3})}

\* c1 and c2 are clients, each with its device; c3 is the uplink.
ClientSymmetry == {p \in OneDeviceSymmetry : p[c3] = c3}

\* Where a connection holds one device only, the order of the registry's keys
\* decides nothing: states that differ in it alone have the same behaviours.
OrderFreeView == <<link, connections, uplink, registry, connectionDevice, pairings,
                   mostRecentPairing, handler, known>>

=============================================================================
