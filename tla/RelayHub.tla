------------------------------ MODULE RelayHub ------------------------------
(***************************************************************************)
(* The relay role of a hub (core/src/domain/relay-hub.ts): the registry of *)
(* gossiped device adverts, their forwarding and catch-up, relay pairings  *)
(* between connections, the forwarding of relay-data, and one uplink to an *)
(* upstream hub.                                                           *)
(*                                                                         *)
(* A connection is served by one loop that handles its frames one at a     *)
(* time; between two awaits of one loop the others run.  The awaits that   *)
(* matter are the sends of a gossip fan-out and of the uplink's            *)
(* announcement, so those handlers take several steps here; a handler that *)
(* reads nothing after its one await is a single step.  Adverts that fail  *)
(* verification or the extension policy are dropped one by one before the  *)
(* registry is read, so the frames enumerated here hold only the others.   *)
(* A Connection object is used once: a device that reconnects gets another *)
(* one.  Frames that the code ignores are not steps.                       *)
(*                                                                         *)
(* A Map or Set that the code walks is a function to the positions its     *)
(* keys have in insertion order, 1, 2, ..., with 0 for a key not in it.    *)
(***************************************************************************)
EXTENDS Naturals, Sequences, FiniteSets

CONSTANTS
    Conn,          \* Connection objects
    Device,        \* device-ids
    Carries,       \* the devices whose adverts each connection may gossip
    MaxSnapshot,   \* bound: snapshot-seconds are 1..MaxSnapshot
    MaxAdverts,    \* bound: adverts in one gossip frame
    MaxFailures,   \* bound: transports that die
    MayUplink,     \* connections that lead to the upstream hub
    NoConn,
    NoDevice

ASSUME HubAssumption ==
    /\ IsFiniteSet(Conn) /\ NoConn \notin Conn
    /\ IsFiniteSet(Device) /\ NoDevice \notin Device
    /\ Carries \in [Conn -> SUBSET Device]
    /\ MaxSnapshot \in Nat
    /\ MaxAdverts \in Nat
    /\ MaxFailures \in Nat
    /\ MayUplink \subseteq Conn

VARIABLES
    link,               \* the transport under each connection: "new", "up" or "down"
    connections,        \* the served connections: their positions in the Set
    uplink,             \* the connection to the upstream hub, or NoConn
    registry,           \* `devices`: the connection and snapshot held for each device
    order,              \* the positions of the keys of `devices`
    connectionDevice,   \* the device attributed to each connection, or NoDevice
    pairings,           \* per connection, the peer connection under each device
    mostRecentPairing,  \* per connection, the peer of its latest pairing
    handler,            \* where each connection's handler is suspended
    known               \* per connection, the newest snapshot of each device sent to it

hubVars == <<link, connections, uplink, registry, order, connectionDevice, pairings,
             mostRecentPairing, handler, known>>

Adverts == [device : Device, snapshot : 1..MaxSnapshot]

Unregistered == [connection |-> NoConn, snapshot |-> 0]

Unpaired == [d \in Device |-> NoConn]

Idle == [step |-> "idle", adverts |-> {}, visited |-> {}]

Throwing == [step |-> "throw", adverts |-> {}, visited |-> {}]

Keys(positions) == {k \in DOMAIN positions : positions[k] > 0}

Added(positions, k) == [positions EXCEPT ![k] = Cardinality(Keys(positions)) + 1]

Kept(positions, keys) ==
    [k \in DOMAIN positions |->
        IF k \in keys THEN Cardinality({x \in keys : positions[x] <= positions[k]}) ELSE 0]

Served == Keys(connections)

IsIdle(c) == handler[c] = Idle

\* Only frames of a live link are read, one at a time.
Reading(c) == c \in Served /\ link[c] = "up" /\ IsIdle(c)

\* The frames enumerated: no two adverts of one frame name the same device.
GossipFrames ==
    [c \in Conn |->
        UNION {{f \in [1..k -> {a \in Adverts : a.device \in Carries[c]}] :
                  \A i, j \in 1..k : f[i].device = f[j].device => i = j} : k \in 1..MaxAdverts}]

Init ==
    /\ link = [c \in Conn |-> "new"]
    /\ connections = [c \in Conn |-> 0]
    /\ uplink = NoConn
    /\ registry = [d \in Device |-> Unregistered]
    /\ order = [d \in Device |-> 0]
    /\ connectionDevice = [c \in Conn |-> NoDevice]
    /\ pairings = [c \in Conn |-> Unpaired]
    /\ mostRecentPairing = [c \in Conn |-> NoConn]
    /\ handler = [c \in Conn |-> Idle]
    /\ known = [c \in Conn |-> [d \in Device |-> 0]]

-----------------------------------------------------------------------------
(* Helpers of the handlers.                                                  *)

RegisteredAdverts(reg) ==
    {[device |-> d, snapshot |-> reg[d].snapshot] : d \in {e \in Device : reg[e] # Unregistered}}

\* What the device behind c knows once `adverts` were sent to it; a send on a
\* dead link fails and changes nothing.  A session keeps the newest advert.
Tell(c, adverts) ==
    IF link[c] = "up"
    THEN [known EXCEPT ![c] = [d \in Device |->
             IF \E a \in adverts : a.device = d /\ a.snapshot > known[c][d]
             THEN (CHOOSE a \in adverts : a.device = d /\ a.snapshot > known[c][d]).snapshot
             ELSE known[c][d]]]
    ELSE known

\* Variant: an equally new advert takes a registration from another connection.
SupersedesOrEquals(registered, advert, c) == advert.snapshot >= registered.snapshot

Supersedes(registered, advert, c) ==
    IF registered.connection = c
    THEN advert.snapshot >= registered.snapshot
    ELSE advert.snapshot > registered.snapshot

\* Variant: only the initiator's side is recorded.
AddPairingOneSided(pairs, a, aDevice, b, bDevice) == [pairs EXCEPT ![a][bDevice] = b]

AddPairing(pairs, a, aDevice, b, bDevice) ==
    [pairs EXCEPT ![a][bDevice] = b, ![b][aDevice] = a]

AddRecent(recent, a, b) == [recent EXCEPT ![a] = b, ![b] = a]

PeersIn(pairs, c) == {pairs[c][d] : d \in Device} \ {NoConn}

\* Variant: only the forgotten connection's own map goes.
ForgetPairingsOneSided(pairs, c) == [pairs EXCEPT ![c] = Unpaired]

\* Every entry that leads back to c goes, at the peers c's own map names.
ForgetPairings(pairs, c) ==
    [x \in Conn |->
        IF x = c THEN Unpaired
        ELSE IF x \in PeersIn(pairs, c)
             THEN [d \in Device |-> IF pairs[x][d] = c THEN NoConn ELSE pairs[x][d]]
             ELSE pairs[x]]

ForgetRecent(recent, pairs, c) ==
    [x \in Conn |->
        IF x = c \/ (x \in PeersIn(pairs, c) /\ recent[x] = c) THEN NoConn ELSE recent[x]]

Unregister(c) ==
    /\ registry' = [d \in Device |->
                      IF registry[d].connection = c THEN Unregistered ELSE registry[d]]
    /\ order' = Kept(order, {d \in Keys(order) : registry[d].connection # c})

ForgetConnection(c) ==
    /\ connections' = Kept(connections, Served \ {c})
    /\ Unregister(c)
    /\ connectionDevice' = [connectionDevice EXCEPT ![c] = NoDevice]
    /\ uplink' = IF uplink = c THEN NoConn ELSE uplink
    /\ pairings' = ForgetPairings(pairings, c)
    /\ mostRecentPairing' = ForgetRecent(mostRecentPairing, pairings, c)
    /\ handler' = [handler EXCEPT ![c] = Idle]

\* A send outside gossip is not caught: when it fails, the loop of the
\* connection whose frame was being handled is on its way out.
SendOrThrow(c, target) ==
    /\ link[target] # "new"
    /\ handler' = [handler EXCEPT ![c] = IF link[target] = "up" THEN Idle ELSE Throwing]

InitiatorOf(c, claimed) ==
    IF claimed = NoDevice THEN connectionDevice[c]
    ELSE IF registry[claimed].connection = c THEN claimed ELSE NoDevice

-----------------------------------------------------------------------------
(* Connections.                                                              *)

\* handleConnection, or registerConnection: a new connection is served.
HandleConnection(c) ==
    /\ link[c] = "new"
    /\ c \notin MayUplink
    /\ link' = [link EXCEPT ![c] = "up"]
    /\ connections' = Added(connections, c)
    /\ UNCHANGED <<uplink, registry, order, connectionDevice, pairings, mostRecentPairing,
                   handler, known>>

\* handleUplink up to its await: the adverts to announce are read now, and the
\* connection joins the served ones only once they are sent.
HandleUplink(c) ==
    /\ link[c] = "new"
    /\ c \in MayUplink
    /\ uplink = NoConn
    /\ link' = [link EXCEPT ![c] = "up"]
    /\ uplink' = c
    /\ IF Keys(order) = {}
       THEN connections' = Added(connections, c) /\ UNCHANGED handler
       ELSE /\ handler' = [handler EXCEPT ![c] =
                             [step |-> "announce", adverts |-> RegisteredAdverts(registry),
                              visited |-> {}]]
            /\ UNCHANGED connections
    /\ UNCHANGED <<registry, order, connectionDevice, pairings, mostRecentPairing, known>>

\* The announcement is sent, or failed and was swallowed: serve() begins.
Announced(c) ==
    /\ handler[c].step = "announce"
    /\ known' = Tell(c, handler[c].adverts)
    /\ connections' = Added(connections, c)
    /\ handler' = [handler EXCEPT ![c] = Idle]
    /\ UNCHANGED <<link, uplink, registry, order, connectionDevice, pairings,
                   mostRecentPairing>>

\* The transport dies; the hub finds out when its loop next reads, or sends.
LinkFails(c) ==
    /\ link[c] = "up"
    /\ Cardinality({x \in Conn : link[x] = "down"}) < MaxFailures
    /\ link' = [link EXCEPT ![c] = "down"]
    /\ UNCHANGED <<connections, uplink, registry, order, connectionDevice, pairings,
                   mostRecentPairing, handler, known>>

\* Variant: the loop's cleanup runs only when the handler throws.
DisconnectOnlyThrown(c) ==
    /\ c \in Served
    /\ handler[c] = Throwing
    /\ ForgetConnection(c)
    /\ UNCHANGED <<link, known>>

\* The frame stream ended, or the handler threw: serve()'s finally.
Disconnect(c) ==
    /\ c \in Served
    /\ (link[c] = "down" /\ IsIdle(c)) \/ handler[c] = Throwing
    /\ ForgetConnection(c)
    /\ UNCHANGED <<link, known>>

-----------------------------------------------------------------------------
(* Gossip.                                                                   *)

\* The devices a frame adds to the registry take the next positions.
AddedInOrder(positions, frame) ==
    [d \in DOMAIN positions |->
        IF positions[d] = 0 /\ \E i \in DOMAIN frame : frame[i].device = d
        THEN Cardinality(Keys(positions)) + Cardinality({i \in DOMAIN frame :
                 positions[frame[i].device] = 0 /\ \E j \in DOMAIN frame : frame[j].device = d /\ i <= j})
        ELSE positions[d]]

AcceptedAdverts(c, frame) ==
    {a \in {frame[i] : i \in DOMAIN frame} :
        registry[a.device] = Unregistered \/ Supersedes(registry[a.device], a, c)}

\* The synchronous part of the gossip handler: registration, then the device
\* of c that comes first in the registry is attributed to it, and fan-out begins.
Register(c, frame) ==
    LET accepted == AcceptedAdverts(c, frame)
        reg == [d \in Device |->
                  IF \E a \in accepted : a.device = d
                  THEN [connection |-> c,
                        snapshot |-> (CHOOSE a \in accepted : a.device = d).snapshot]
                  ELSE registry[d]]
        mine == {d \in Device : reg[d].connection = c}
    IN  /\ accepted # {}
        /\ registry' = reg
        /\ order' = AddedInOrder(order, frame)
        /\ \E d \in mine :
              /\ \A e \in mine : order'[d] <= order'[e]
              /\ connectionDevice' = [connectionDevice EXCEPT ![c] = d]
        /\ handler' = [handler EXCEPT ![c] =
                         [step |-> "forward", adverts |-> accepted, visited |-> {}]]

Gossip(c, frame) ==
    /\ Reading(c)
    /\ Register(c, frame)
    /\ UNCHANGED <<link, connections, uplink, pairings, mostRecentPairing, known>>

\* The served connections the fan-out has still to reach: the walk is over the
\* live set, so one that registers meanwhile is reached too.
Remaining(c) == Served \ (handler[c].visited \cup {c})

\* One send of the fan-out; its failure is swallowed.
Forward(c) ==
    /\ handler[c].step = "forward"
    /\ \E other \in Remaining(c) :
          /\ \A x \in Remaining(c) : connections[other] <= connections[x]
          /\ known' = Tell(other, handler[c].adverts)
          /\ handler' = [handler EXCEPT ![c].visited = @ \cup {other}]
    /\ UNCHANGED <<link, connections, uplink, registry, order, connectionDevice, pairings,
                   mostRecentPairing>>

\* Variant: the gossiping connection is never caught up.
CatchUpSkipped(c) ==
    /\ handler[c].step = "forward"
    /\ Remaining(c) = {}
    /\ handler' = [handler EXCEPT ![c] = Idle]
    /\ UNCHANGED <<link, connections, uplink, registry, order, connectionDevice, pairings,
                   mostRecentPairing, known>>

\* The fan-out is over: the sender is sent every other connection's adverts,
\* as registered now, unless it is the uplink.
CatchUp(c) ==
    /\ handler[c].step = "forward"
    /\ Remaining(c) = {}
    /\ known' = IF c = uplink THEN known
                ELSE Tell(c, {a \in RegisteredAdverts(registry) :
                                registry[a.device].connection # c})
    /\ handler' = [handler EXCEPT ![c] = Idle]
    /\ UNCHANGED <<link, connections, uplink, registry, order, connectionDevice, pairings,
                   mostRecentPairing>>

-----------------------------------------------------------------------------
(* Relay.                                                                    *)

\* relay-connect: pairs, and tells the target, or passes it on to the uplink.
RelayConnect(c, target, source) ==
    LET held == registry[target].connection
        initiator == InitiatorOf(c, source)
    IN  /\ Reading(c)
        /\ held \notin {NoConn, c}
        /\ initiator # NoDevice
        /\ c # uplink
        /\ pairings' = AddPairing(pairings, c, initiator, held, target)
        /\ mostRecentPairing' = AddRecent(mostRecentPairing, c, held)
        /\ SendOrThrow(c, held)
        /\ UNCHANGED <<link, connections, uplink, registry, order, connectionDevice, known>>

\* relay-inbound, heeded only from the uplink: an upstream device was paired
\* with one of this hub's clients.
HandleUplinkInbound(c, source, target) ==
    LET local == registry[target].connection IN
    /\ Reading(c)
    /\ c = uplink
    /\ local \notin {NoConn, c}
    /\ registry[source].connection = c
    /\ pairings' = AddPairing(pairings, local, target, c, source)
    /\ mostRecentPairing' = AddRecent(mostRecentPairing, local, c)
    /\ SendOrThrow(c, local)
    /\ UNCHANGED <<link, connections, uplink, registry, order, connectionDevice, known>>

\* Where relay-data of c goes, addressed (to # NoDevice) or not, and whom it is
\* stamped as coming from, with or without a from-device of its own.
PeerOf(c, to) == IF to = NoDevice THEN mostRecentPairing[c] ELSE pairings[c][to]

Relayable(c, to, claimedFrom) ==
    /\ PeerOf(c, to) # NoConn
    /\ InitiatorOf(c, claimedFrom) # NoDevice
    /\ claimedFrom # NoDevice => pairings[PeerOf(c, to)][claimedFrom] = c

RelayData(c, to, claimedFrom) ==
    /\ Reading(c)
    /\ Relayable(c, to, claimedFrom)
    /\ SendOrThrow(c, PeerOf(c, to))
    /\ UNCHANGED <<link, connections, uplink, registry, order, connectionDevice, pairings,
                   mostRecentPairing, known>>

-----------------------------------------------------------------------------
Handle(c) == Announced(c) \/ Forward(c) \/ CatchUp(c) \/ Disconnect(c)

Next ==
    \E c \in Conn :
        \/ HandleConnection(c)
        \/ HandleUplink(c)
        \/ LinkFails(c)
        \/ Handle(c)
        \/ \E frame \in GossipFrames[c] : Gossip(c, frame)
        \/ \E target \in Device, source \in Device \cup {NoDevice} :
              RelayConnect(c, target, source)
        \/ \E source, target \in Device : HandleUplinkInbound(c, source, target)
        \/ \E to, from \in Device \cup {NoDevice} : RelayData(c, to, from)

Spec == Init /\ [][Next]_hubVars

\* A suspended handler resumes when its send settles, and a loop whose frame
\* stream has ended finishes.
FairSpec == Spec /\ \A c \in Conn : WF_hubVars(Handle(c))

-----------------------------------------------------------------------------
TypeOK ==
    /\ link \in [Conn -> {"new", "up", "down"}]
    /\ connections \in [Conn -> Nat]
    /\ uplink \in MayUplink \cup {NoConn}
    /\ registry \in [Device -> [connection : Conn, snapshot : 1..MaxSnapshot] \cup {Unregistered}]
    /\ order \in [Device -> Nat]
    /\ \A d \in Device : registry[d] = Unregistered <=> order[d] = 0
    /\ connectionDevice \in [Conn -> Device \cup {NoDevice}]
    /\ pairings \in [Conn -> [Device -> Conn \cup {NoConn}]]
    /\ mostRecentPairing \in [Conn -> Conn \cup {NoConn}]
    /\ handler \in [Conn -> [step : {"idle", "announce", "forward", "throw"},
                             adverts : SUBSET Adverts, visited : SUBSET Conn]]
    /\ known \in [Conn -> [Device -> 0..MaxSnapshot]]

(* A device is only ever looked up to a connection that is still served:     *)
(* forgetConnection leaves no registration and no attribution behind, also   *)
(* when another connection's handler is suspended in the middle of its       *)
(* fan-out, and the two maps agree on who holds what.                        *)
RegistryIsServed ==
    /\ \A d \in Device : registry[d] # Unregistered => registry[d].connection \in Served
    /\ \A c \in Conn : connectionDevice[c] # NoDevice => c \in Served
    /\ \A d \in Device : registry[d] # Unregistered =>
                            connectionDevice[registry[d].connection] # NoDevice

(* A registration only changes hands for a strictly newer advert, is only    *)
(* refreshed by one as new, and disappears only with its connection          *)
(* (supersedes, forgetConnection).                                           *)
FreshestAdvertHolds ==
    [][\A d \in Device :
          registry[d] # Unregistered /\ registry'[d] # registry[d] =>
             \/ registry'[d] = Unregistered /\ registry[d].connection \notin Served'
             \/ registry'[d].snapshot > registry[d].snapshot]_hubVars

(* Once a client has identified itself and neither its own handler nor the   *)
(* one that registered a device is under way, it has been sent that device's *)
(* registered advert: fan-out and catch-up together miss nobody, in whatever *)
(* order connections join, gossip, take devices over and leave.              *)
EveryoneCaughtUp ==
    \A c \in Served, d \in Device :
        /\ connectionDevice[c] # NoDevice
        /\ c # uplink
        /\ link[c] = "up"
        /\ IsIdle(c)
        /\ registry[d].connection \notin {NoConn, c}
        /\ IsIdle(registry[d].connection)
        => known[c][d] >= registry[d].snapshot

(* An established pairing "dies only with the connection itself": an entry   *)
(* changes only when one of its two connections is forgotten, or when the    *)
(* same device is paired again (addPairing, forgetConnection).               *)
PairingDiesWithConnection ==
    [][\A c \in Conn, d \in Device :
          pairings[c][d] # NoConn /\ pairings'[c][d] # pairings[c][d] =>
             \/ pairings'[c][d] # NoConn
             \/ c \notin Served'
             \/ pairings[c][d] \notin Served']_hubVars

(* "Symmetric: pairing a connection with a peer always registers both        *)
(* directions, so either side's own map lookup finds the other" (the comment *)
(* on pairings).                                                             *)
PairingsSymmetric ==
    \A a, b \in Conn :
        (\E d \in Device : pairings[a][d] = b) => (\E d \in Device : pairings[b][d] = a)

(* A pairing, and the fallback route for unaddressed data, never leads to a  *)
(* connection that is no longer served.                                      *)
RoutesAreServed ==
    \A c \in Conn :
        /\ \A d \in Device : pairings[c][d] # NoConn => pairings[c][d] \in Served
        /\ mostRecentPairing[c] # NoConn => mostRecentPairing[c] \in Served

(* A relayed frame can be answered: what the receiver addresses to the       *)
(* from-device stamped on it goes back to the connection that sent it, since *)
(* that device is "what a peer's own pairing map keys this connection by"    *)
(* (RelayConnectionState.device).                                            *)
ReplyRoutesBack ==
    \A c \in Conn, to, from \in Device \cup {NoDevice} :
        Reading(c) /\ Relayable(c, to, from) => pairings[PeerOf(c, to)][InitiatorOf(c, from)] = c

(* An identified client whose link stays up is, sooner or later, sent every  *)
(* advert that another connection got registered, unless that connection is  *)
(* forgotten first.                                                          *)
AdvertsReachEveryClient ==
    \A c \in Conn, d \in Device, s \in 1..MaxSnapshot :
        /\ c \in Served /\ c # uplink /\ connectionDevice[c] # NoDevice
        /\ registry[d].connection \notin {NoConn, c} /\ registry[d].snapshot = s
        ~> known[c][d] >= s \/ link[c] = "down" \/ c \notin Served \/ registry[d] = Unregistered

(* A connection whose transport died is forgotten, with all it registered.   *)
DeadConnectionsAreForgotten ==
    \A c \in Conn : link[c] = "down" ~> (c \notin Served /\ handler[c] = Idle)

=============================================================================
