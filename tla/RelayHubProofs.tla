--------------------------- MODULE RelayHubProofs ---------------------------
(* Invariance proofs for the relay hub: for any finite sets of connections   *)
(* and devices, any snapshots, any number of transport failures.             *)
EXTENDS RelayHub, FiniteSetTheorems, TLAPS

(* Positions stay numbers, and exactly the intended keys are in the map.     *)
LEMMA AddedPositions ==
  ASSUME NEW S, IsFiniteSet(S), NEW p \in [S -> Nat], NEW k \in S
  PROVE  /\ Added(p, k) \in [S -> Nat]
         /\ Keys(Added(p, k)) = Keys(p) \cup {k}
<1>1. Keys(p) \subseteq S
    BY DEF Keys
<1>2. Cardinality(Keys(p)) \in Nat
    BY <1>1, FS_Subset, FS_CardinalityType
<1> QED
    BY <1>2 DEF Added, Keys

LEMMA KeptPositions ==
  ASSUME NEW S, IsFiniteSet(S), NEW p \in [S -> Nat], NEW keys, keys \subseteq Keys(p)
  PROVE  /\ Kept(p, keys) \in [S -> Nat]
         /\ Keys(Kept(p, keys)) = keys
<1>1. keys \subseteq S
    BY DEF Keys
<1>2. ASSUME NEW k \in keys
      PROVE  /\ Cardinality({x \in keys : p[x] <= p[k]}) \in Nat
             /\ Cardinality({x \in keys : p[x] <= p[k]}) > 0
    <2> DEFINE T == {x \in keys : p[x] <= p[k]}
    <2>1. IsFiniteSet(T)
        BY <1>1, FS_Subset
    <2>2. p[k] \in Nat /\ p[k] <= p[k]
        BY <1>1
    <2>3. k \in T
        BY <2>2
    <2>4. Cardinality(T) \in Nat
        BY <2>1, FS_CardinalityType
    <2>5. Cardinality(T) # 0
        BY <2>1, <2>3, FS_EmptySet
    <2> QED
        BY <2>4, <2>5
<1>3. Kept(p, keys) \in [S -> Nat]
    BY <1>1, <1>2 DEF Kept
<1>4. \A k \in S : Kept(p, keys)[k] > 0 <=> k \in keys
    BY <1>1, <1>2 DEF Kept
<1> QED
    BY <1>1, <1>3, <1>4 DEF Keys

LEMMA AddedInOrderPositions ==
  ASSUME NEW S, IsFiniteSet(S), NEW p \in [S -> Nat],
         NEW n \in Nat, NEW frame, DOMAIN frame = 1..n
  PROVE  /\ AddedInOrder(p, frame) \in [S -> Nat]
         /\ \A d \in S : AddedInOrder(p, frame)[d] = 0 <=>
                           p[d] = 0 /\ ~\E i \in 1..n : frame[i].device = d
<1>1. Cardinality(Keys(p)) \in Nat
    <2>1. Keys(p) \subseteq S
        BY DEF Keys
    <2> QED
        BY <2>1, FS_Subset, FS_CardinalityType
<1>2. ASSUME NEW d \in S, p[d] = 0, NEW j \in 1..n, frame[j].device = d
      PROVE  LET T == {i \in DOMAIN frame :
                         p[frame[i].device] = 0 /\ \E l \in DOMAIN frame : frame[l].device = d /\ i <= l}
             IN  Cardinality(T) \in Nat /\ Cardinality(T) > 0
    <2> DEFINE T == {i \in DOMAIN frame :
                       p[frame[i].device] = 0 /\ \E l \in DOMAIN frame : frame[l].device = d /\ i <= l}
    <2>1. T \subseteq 1..n
        OBVIOUS
    <2>2. IsFiniteSet(T)
        <3>1. 0 \in Int /\ 1 \in Int /\ n \in Int
            OBVIOUS
        <3>2. IsFiniteSet(1..n)
            BY <3>1, FS_Interval
        <3> HIDE DEF T
        <3> QED
            BY <2>1, <3>2, FS_Subset
    <2>3. j \in T
        <3>1. j \in DOMAIN frame /\ j <= j
            OBVIOUS
        <3> QED
            BY <1>2, <3>1
    <2>4. Cardinality(T) \in Nat /\ Cardinality(T) # 0
        BY <2>2, <2>3, FS_CardinalityType, FS_EmptySet
    <2> QED
        BY <2>4
<1> QED
    BY <1>1, <1>2 DEF AddedInOrder

-----------------------------------------------------------------------------
(* What the handlers are given and produce.                                  *)

HandlerStates == [step : {"idle", "announce", "forward", "throw"},
                  adverts : SUBSET Adverts, visited : SUBSET Conn]

LEMMA SimpleTypes ==
  /\ Idle \in HandlerStates
  /\ Throwing \in HandlerStates
  /\ Unpaired \in [Device -> Conn \cup {NoConn}]
  BY DEF Idle, Throwing, Unpaired, HandlerStates

LEMMA FramesHoldAdverts ==
  ASSUME NEW c \in Conn, NEW frame \in GossipFrames[c]
  PROVE  \E n \in Nat : /\ frame \in [1..n -> {a \in Adverts : a.device \in Carries[c]}]
                        /\ DOMAIN frame = 1..n
  BY HubAssumption DEF GossipFrames

LEMMA JoiningTypes ==
  ASSUME TypeOK, NEW c \in Conn
  PROVE  /\ Added(connections, c) \in [Conn -> Nat]
         /\ Keys(Added(connections, c)) = Served \cup {c}
<1>1. connections \in [Conn -> Nat] /\ IsFiniteSet(Conn)
    BY HubAssumption DEF TypeOK
<1> QED
    BY <1>1, AddedPositions DEF Served

LEMMA ToldTypes ==
  ASSUME TypeOK, NEW c \in Conn, NEW adverts \in SUBSET Adverts
  PROVE  Tell(c, adverts) \in [Conn -> [Device -> 0..MaxSnapshot]]
<1>1. ASSUME NEW d \in Device, \E a \in adverts : a.device = d /\ a.snapshot > known[c][d]
      PROVE  (CHOOSE a \in adverts : a.device = d /\ a.snapshot > known[c][d]).snapshot
                \in 0..MaxSnapshot
    <2>1. PICK a \in adverts :
            a = CHOOSE b \in adverts : b.device = d /\ b.snapshot > known[c][d]
        BY <1>1
    <2>2. a.snapshot \in 1..MaxSnapshot
        BY DEF Adverts
    <2> QED
        BY <2>1, <2>2, HubAssumption
<1> QED
    BY <1>1 DEF Tell, TypeOK

LEMMA RegisteredAdvertsAreAdverts ==
  ASSUME TypeOK PROVE RegisteredAdverts(registry) \in SUBSET Adverts
<1> SUFFICES ASSUME NEW d \in Device, registry[d] # Unregistered
             PROVE  registry[d].snapshot \in 1..MaxSnapshot
    BY DEF RegisteredAdverts, Adverts
<1> QED
    BY DEF TypeOK

(* Every action keeps the types.                                             *)
LEMMA TypeStep == ASSUME TypeOK, [Next]_hubVars PROVE TypeOK'
<1> USE HubAssumption, SimpleTypes
<1>1. ASSUME NEW c \in Conn, HandleConnection(c) PROVE TypeOK'
    <2>1. connections' \in [Conn -> Nat]
        BY <1>1, JoiningTypes DEF HandleConnection, TypeOK
    <2> QED
        BY <1>1, <2>1 DEF HandleConnection, TypeOK
<1>2. ASSUME NEW c \in Conn, HandleUplink(c) PROVE TypeOK'
    <2>1. connections' \in [Conn -> Nat]
        BY <1>2, JoiningTypes DEF HandleUplink, TypeOK
    <2>2. handler' \in [Conn -> HandlerStates]
        <3> DEFINE state == [step |-> "announce", adverts |-> RegisteredAdverts(registry),
                             visited |-> {}]
        <3>1. state \in HandlerStates
            BY RegisteredAdvertsAreAdverts DEF HandlerStates
        <3>2. handler' = handler \/ handler' = [handler EXCEPT ![c] = state]
            BY <1>2 DEF HandleUplink
        <3>3. handler \in [Conn -> HandlerStates]
            BY DEF TypeOK, HandlerStates
        <3> QED
            BY <3>1, <3>2, <3>3
    <2> QED
        BY <1>2, <2>1, <2>2 DEF HandleUplink, TypeOK, HandlerStates
<1>3. ASSUME NEW c \in Conn, LinkFails(c) PROVE TypeOK'
    BY <1>3 DEF LinkFails, TypeOK
<1>4. ASSUME NEW c \in Conn, Announced(c) PROVE TypeOK'
    <2>1. connections' \in [Conn -> Nat]
        BY <1>4, JoiningTypes DEF Announced
    <2>2. known' \in [Conn -> [Device -> 0..MaxSnapshot]]
        BY <1>4, ToldTypes DEF Announced, TypeOK
    <2> QED
        BY <1>4, <2>1, <2>2 DEF Announced, TypeOK, HandlerStates
<1>5. ASSUME NEW c \in Conn, Forward(c) PROVE TypeOK'
    <2>1. PICK other \in Remaining(c) :
            /\ known' = Tell(other, handler[c].adverts)
            /\ handler' = [handler EXCEPT ![c].visited = @ \cup {other}]
        BY <1>5 DEF Forward
    <2>2. other \in Conn
        BY DEF Remaining, Served, Keys, TypeOK
    <2>3. known' \in [Conn -> [Device -> 0..MaxSnapshot]]
        BY <2>1, <2>2, ToldTypes DEF TypeOK
    <2>4. handler' \in [Conn -> HandlerStates]
        <3>1. handler[c] \in HandlerStates
            BY DEF TypeOK, HandlerStates
        <3>2. [handler[c] EXCEPT !.visited = @ \cup {other}] \in HandlerStates
            BY <2>2, <3>1 DEF HandlerStates
        <3> QED
            BY <2>1, <3>2 DEF TypeOK, HandlerStates
    <2>5. UNCHANGED <<link, connections, uplink, registry, order, connectionDevice, pairings,
                      mostRecentPairing>>
        BY <1>5 DEF Forward
    <2> QED
        BY <2>3, <2>4, <2>5 DEF TypeOK, HandlerStates
<1>6. ASSUME NEW c \in Conn, CatchUp(c) PROVE TypeOK'
    <2>1. known' \in [Conn -> [Device -> 0..MaxSnapshot]]
        <3>1. {a \in RegisteredAdverts(registry) : registry[a.device].connection # c}
                 \in SUBSET Adverts
            BY RegisteredAdvertsAreAdverts
        <3> QED
            BY <1>6, <3>1, ToldTypes DEF CatchUp, TypeOK
    <2> QED
        BY <1>6, <2>1 DEF CatchUp, TypeOK, HandlerStates
<1>7. ASSUME NEW c \in Conn, Disconnect(c) PROVE TypeOK'
    <2>1. connections' \in [Conn -> Nat]
        BY <1>7, KeptPositions DEF Disconnect, ForgetConnection, Served, TypeOK
    <2>2. /\ order' \in [Device -> Nat]
          /\ \A d \in Device : order'[d] > 0 <=> order[d] > 0 /\ registry[d].connection # c
        <3> DEFINE keys == {d \in Keys(order) : registry[d].connection # c}
        <3>1. order' = Kept(order, keys) /\ keys \subseteq Keys(order)
            BY <1>7 DEF Disconnect, ForgetConnection, Unregister
        <3>2. order \in [Device -> Nat] /\ IsFiniteSet(Device)
            BY DEF TypeOK
        <3>3. Kept(order, keys) \in [Device -> Nat] /\ Keys(Kept(order, keys)) = keys
            <4> HIDE DEF keys
            <4> QED
                BY <3>1, <3>2, KeptPositions
        <3> QED
            BY <3>1, <3>2, <3>3 DEF Keys
    <2>3. registry' = [d \in Device |->
                         IF registry[d].connection = c THEN Unregistered ELSE registry[d]]
        BY <1>7 DEF Disconnect, ForgetConnection, Unregister
    <2>4. pairings' \in [Conn -> [Device -> Conn \cup {NoConn}]]
        BY <1>7 DEF Disconnect, ForgetConnection, ForgetPairings, TypeOK
    <2>5. mostRecentPairing' \in [Conn -> Conn \cup {NoConn}]
        BY <1>7 DEF Disconnect, ForgetConnection, ForgetRecent, TypeOK
    <2>6. \A d \in Device : registry'[d] = Unregistered <=> order'[d] = 0
        BY <2>2, <2>3 DEF TypeOK, Unregistered
    <2> QED
        BY <1>7, <2>1, <2>2, <2>3, <2>4, <2>5, <2>6
        DEF Disconnect, ForgetConnection, TypeOK, HandlerStates
<1>8. ASSUME NEW c \in Conn, NEW frame \in GossipFrames[c], Gossip(c, frame) PROVE TypeOK'
    <2> DEFINE accepted == AcceptedAdverts(c, frame)
    <2>1. PICK n \in Nat : /\ frame \in [1..n -> {a \in Adverts : a.device \in Carries[c]}]
                           /\ DOMAIN frame = 1..n
        BY FramesHoldAdverts
    <2>2. accepted \in SUBSET Adverts
        BY <2>1 DEF AcceptedAdverts
    <2>3. /\ order' \in [Device -> Nat]
          /\ \A d \in Device : order'[d] = 0 <=>
                order[d] = 0 /\ ~\E i \in 1..n : frame[i].device = d
        <3>1. order' = AddedInOrder(order, frame)
            BY <1>8 DEF Gossip, Register
        <3>2. order \in [Device -> Nat] /\ IsFiniteSet(Device)
            BY DEF TypeOK
        <3> QED
            BY <2>1, <3>1, <3>2, AddedInOrderPositions
    <2>4. registry' = [d \in Device |->
                         IF \E a \in accepted : a.device = d
                         THEN [connection |-> c,
                               snapshot |-> (CHOOSE a \in accepted : a.device = d).snapshot]
                         ELSE registry[d]]
        BY <1>8 DEF Gossip, Register
    <2>5. ASSUME NEW d \in Device, \E a \in accepted : a.device = d
          PROVE  (CHOOSE a \in accepted : a.device = d).snapshot \in 1..MaxSnapshot
        BY <2>2, <2>5 DEF Adverts
    <2>6. registry' \in [Device -> [connection : Conn, snapshot : 1..MaxSnapshot]
                                     \cup {Unregistered}]
        BY <2>4, <2>5 DEF TypeOK
    <2>7. ASSUME NEW d \in Device PROVE registry'[d] = Unregistered <=> order'[d] = 0
        <3>1. registry'[d] = Unregistered <=>
                 registry[d] = Unregistered /\ ~\E a \in accepted : a.device = d
            BY <2>4, <2>5 DEF Unregistered
        <3>2. registry[d] = Unregistered =>
                 ((\E a \in accepted : a.device = d) <=> \E i \in 1..n : frame[i].device = d)
            BY <2>1 DEF AcceptedAdverts
        <3> QED
            BY <2>3, <3>1, <3>2 DEF TypeOK
    <2>8. connectionDevice' \in [Conn -> Device \cup {NoDevice}]
        BY <1>8 DEF Gossip, Register, TypeOK, HandlerStates
    <2>9. handler' \in [Conn -> HandlerStates]
        BY <1>8, <2>2 DEF Gossip, Register, TypeOK, HandlerStates
    <2> QED
        BY <1>8, <2>3, <2>6, <2>7, <2>8, <2>9 DEF Gossip, TypeOK, HandlerStates
<1>9. ASSUME NEW c \in Conn, NEW target \in Device, NEW source \in Device \cup {NoDevice},
             RelayConnect(c, target, source)
      PROVE  TypeOK'
    <2>1. registry[target].connection \in Conn
        BY <1>9 DEF RelayConnect, TypeOK, Unregistered
    <2>2. InitiatorOf(c, source) \in Device
        BY <1>9 DEF RelayConnect, InitiatorOf, TypeOK
    <2> QED
        BY <1>9, <2>1, <2>2
        DEF RelayConnect, AddPairing, AddRecent, SendOrThrow, TypeOK, HandlerStates
<1>10. ASSUME NEW c \in Conn, NEW source \in Device, NEW target \in Device,
              HandleUplinkInbound(c, source, target)
       PROVE  TypeOK'
    <2>1. registry[target].connection \in Conn
        BY <1>10 DEF HandleUplinkInbound, TypeOK, Unregistered
    <2> QED
        BY <1>10, <2>1
        DEF HandleUplinkInbound, AddPairing, AddRecent, SendOrThrow, TypeOK, HandlerStates
<1>11. ASSUME NEW c \in Conn, NEW to \in Device \cup {NoDevice},
              NEW from \in Device \cup {NoDevice}, RelayData(c, to, from)
       PROVE  TypeOK'
    <2>1. PeerOf(c, to) \in Conn
        BY <1>11 DEF RelayData, Relayable, PeerOf, TypeOK
    <2> QED
        BY <1>11, <2>1 DEF RelayData, SendOrThrow, TypeOK, HandlerStates
<1>12. CASE UNCHANGED hubVars
    BY <1>12 DEF hubVars, TypeOK
<1> QED
    BY <1>1, <1>2, <1>3, <1>4, <1>5, <1>6, <1>7, <1>8, <1>9, <1>10, <1>11, <1>12
    DEF Next, Handle

(* The hub's maps always hold what their types say, and a device has a       *)
(* position in `devices` exactly when it is registered.                      *)
THEOREM TypeCorrect == Spec => []TypeOK
<1>1. ASSUME Init PROVE TypeOK
    BY <1>1, HubAssumption, SimpleTypes DEF Init, TypeOK, HandlerStates
<1> QED
    BY <1>1, TypeStep, PTL DEF Spec

-----------------------------------------------------------------------------
(* The registry.                                                             *)

(* Which connections are served after a step that lets c join or leave.      *)
LEMMA ForgottenServed ==
  ASSUME TypeOK, NEW c \in Conn, ForgetConnection(c)
  PROVE  Served' = Served \ {c}
<1>1. connections \in [Conn -> Nat] /\ IsFiniteSet(Conn)
    BY HubAssumption DEF TypeOK
<1>2. Keys(Kept(connections, Served \ {c})) = Served \ {c}
    BY <1>1, KeptPositions DEF Served
<1> QED
    BY <1>2 DEF ForgetConnection, Served

LEMMA JoinedServed ==
  ASSUME TypeOK, NEW c \in Conn, connections' = Added(connections, c)
  PROVE  Served' = Served \cup {c}
  BY JoiningTypes DEF Served

(* Registering a frame gives every device it accepts to the gossiping        *)
(* connection, under the advert that won, and attributes one of them to it.  *)
LEMMA RegisterEffect ==
  ASSUME TypeOK, NEW c \in Conn, NEW frame \in GossipFrames[c], Gossip(c, frame)
  PROVE  /\ \A d \in Device :
               \/ registry'[d] = registry[d]
               \/ /\ registry'[d].connection = c
                  /\ d \in Carries[c]
                  /\ \E s \in 1..MaxSnapshot :
                        /\ registry'[d] = [connection |-> c, snapshot |-> s]
                        /\ registry[d] # Unregistered =>
                              Supersedes(registry[d], [device |-> d, snapshot |-> s], c)
         /\ \E d \in Device : /\ registry'[d].connection = c
                              /\ connectionDevice' = [connectionDevice EXCEPT ![c] = d]
<1> DEFINE accepted == AcceptedAdverts(c, frame)
<1>1. PICK n \in Nat : /\ frame \in [1..n -> {a \in Adverts : a.device \in Carries[c]}]
                       /\ DOMAIN frame = 1..n
    BY FramesHoldAdverts
<1>2. \A a \in accepted :
         /\ a \in Adverts /\ a.device \in Carries[c]
         /\ registry[a.device] = Unregistered \/ Supersedes(registry[a.device], a, c)
    BY <1>1 DEF AcceptedAdverts
<1>3. registry' = [d \in Device |->
                     IF \E a \in accepted : a.device = d
                     THEN [connection |-> c,
                           snapshot |-> (CHOOSE a \in accepted : a.device = d).snapshot]
                     ELSE registry[d]]
    BY DEF Gossip, Register
<1>4. ASSUME NEW d \in Device, \E a \in accepted : a.device = d
      PROVE  /\ registry'[d].connection = c
             /\ d \in Carries[c]
             /\ \E s \in 1..MaxSnapshot :
                   /\ registry'[d] = [connection |-> c, snapshot |-> s]
                   /\ registry[d] # Unregistered =>
                         Supersedes(registry[d], [device |-> d, snapshot |-> s], c)
    <2>1. PICK a \in accepted : a.device = d /\ a = CHOOSE b \in accepted : b.device = d
        BY <1>4
    <2>2. a.snapshot \in 1..MaxSnapshot /\ a = [device |-> d, snapshot |-> a.snapshot]
        BY <1>2, <2>1 DEF Adverts
    <2>3. registry'[d] = [connection |-> c, snapshot |-> a.snapshot]
        BY <1>3, <1>4, <2>1
    <2>4. /\ registry[d] # Unregistered =>
                Supersedes(registry[d], [device |-> d, snapshot |-> a.snapshot], c)
          /\ d \in Carries[c]
        BY <1>2, <2>1, <2>2
    <2> QED
        BY <2>2, <2>3, <2>4
<1>5. \A d \in Device : (~\E a \in accepted : a.device = d) => registry'[d] = registry[d]
    BY <1>3
<1>6. \E d \in Device : /\ registry'[d].connection = c
                        /\ connectionDevice' = [connectionDevice EXCEPT ![c] = d]
    BY DEF Gossip, Register
<1> QED
    BY <1>4, <1>5, <1>6

LEMMA RegistryStep ==
  ASSUME TypeOK, RegistryIsServed, [Next]_hubVars PROVE RegistryIsServed'
<1> USE HubAssumption
<1>1. ASSUME UNCHANGED <<registry, connectionDevice>>, Served \subseteq Served'
      PROVE  RegistryIsServed'
    BY <1>1 DEF RegistryIsServed
<1>2. ASSUME NEW c \in Conn, HandleConnection(c) PROVE RegistryIsServed'
    BY <1>1, <1>2, JoinedServed DEF HandleConnection
<1>3. ASSUME NEW c \in Conn, HandleUplink(c) PROVE RegistryIsServed'
    BY <1>1, <1>3, JoinedServed DEF HandleUplink, Served
<1>4. ASSUME NEW c \in Conn, Announced(c) PROVE RegistryIsServed'
    BY <1>1, <1>4, JoinedServed DEF Announced
<1>5. ASSUME NEW c \in Conn, Disconnect(c) PROVE RegistryIsServed'
    <2>1. Served' = Served \ {c}
        BY <1>5, ForgottenServed DEF Disconnect
    <2>2. /\ registry' = [d \in Device |->
                            IF registry[d].connection = c THEN Unregistered ELSE registry[d]]
          /\ connectionDevice' = [connectionDevice EXCEPT ![c] = NoDevice]
        BY <1>5 DEF Disconnect, ForgetConnection, Unregister
    <2> QED
        BY <2>1, <2>2 DEF RegistryIsServed, TypeOK
<1>6. ASSUME NEW c \in Conn, NEW frame \in GossipFrames[c], Gossip(c, frame)
      PROVE  RegistryIsServed'
    <2>1. Served' = Served /\ c \in Served
        BY <1>6 DEF Gossip, Reading, Served
    <2>2. \A d \in Device : registry'[d] = registry[d] \/ registry'[d].connection = c
        BY <1>6, RegisterEffect
    <2>3. PICK d \in Device : connectionDevice' = [connectionDevice EXCEPT ![c] = d]
        BY <1>6, RegisterEffect
    <2>4. connectionDevice'[c] # NoDevice /\ \A x \in Conn \ {c} : connectionDevice'[x] = connectionDevice[x]
        BY <2>3 DEF TypeOK
    <2>5. ASSUME NEW e \in Device, registry'[e] # Unregistered
          PROVE  /\ registry'[e].connection \in Served'
                 /\ connectionDevice'[registry'[e].connection] # NoDevice
        <3>1. CASE registry'[e].connection = c
            BY <2>1, <2>4, <3>1
        <3>2. CASE registry'[e].connection # c
            <4>1. registry'[e] = registry[e] /\ registry[e].connection \in Conn \ {c}
                BY <2>2, <2>5, <3>2 DEF TypeOK
            <4> QED
                BY <2>1, <2>4, <2>5, <4>1 DEF RegistryIsServed
        <3> QED
            BY <3>1, <3>2
    <2>6. \A x \in Conn : connectionDevice'[x] # NoDevice => x \in Served'
        BY <2>1, <2>4 DEF RegistryIsServed
    <2> QED
        BY <2>5, <2>6 DEF RegistryIsServed
<1>7. CASE \E c \in Conn :
              \/ LinkFails(c) \/ Forward(c) \/ CatchUp(c)
              \/ \E target \in Device, source \in Device \cup {NoDevice} :
                    RelayConnect(c, target, source)
              \/ \E source, target \in Device : HandleUplinkInbound(c, source, target)
              \/ \E to, from \in Device \cup {NoDevice} : RelayData(c, to, from)
    BY <1>1, <1>7
    DEF LinkFails, Forward, CatchUp, RelayConnect, HandleUplinkInbound, RelayData, Served
<1>8. CASE UNCHANGED hubVars
    BY <1>1, <1>8 DEF hubVars, Served
<1> QED
    BY <1>2, <1>3, <1>4, <1>5, <1>6, <1>7, <1>8 DEF Next, Handle

(* No registration and no attribution outlives its connection, and every     *)
(* connection that holds a registration has a device attributed to it,       *)
(* whatever the interleaving of fan-outs, takeovers and disconnects.         *)
THEOREM RegistryServed == Spec => []RegistryIsServed
<1>1. ASSUME Init PROVE TypeOK /\ RegistryIsServed
    BY <1>1, HubAssumption, SimpleTypes DEF Init, TypeOK, HandlerStates, RegistryIsServed
<1>2. TypeOK /\ RegistryIsServed /\ [Next]_hubVars => (TypeOK /\ RegistryIsServed)'
    BY TypeStep, RegistryStep
<1> QED
    BY <1>1, <1>2, PTL DEF Spec

(* supersedes: a registration is replaced only by a strictly newer advert    *)
(* and removed only when its connection is forgotten.                        *)
THEOREM FreshestHolds == Spec => FreshestAdvertHolds
<1> DEFINE Fresh == \A d \in Device :
                       registry[d] # Unregistered /\ registry'[d] # registry[d] =>
                          \/ registry'[d] = Unregistered /\ registry[d].connection \notin Served'
                          \/ registry'[d].snapshot > registry[d].snapshot
<1>1. ASSUME TypeOK, [Next]_hubVars PROVE Fresh
    <2>1. ASSUME NEW c \in Conn, Disconnect(c) PROVE Fresh
        <3>1. Served' = Served \ {c}
            BY <1>1, <2>1, ForgottenServed DEF Disconnect
        <3>2. registry' = [d \in Device |->
                             IF registry[d].connection = c THEN Unregistered ELSE registry[d]]
            BY <2>1 DEF Disconnect, ForgetConnection, Unregister
        <3> QED
            BY <3>1, <3>2
    <2>2. ASSUME NEW c \in Conn, NEW frame \in GossipFrames[c], Gossip(c, frame) PROVE Fresh
        <3> SUFFICES ASSUME NEW d \in Device, registry[d] # Unregistered,
                            registry'[d] # registry[d]
                     PROVE  registry'[d].snapshot > registry[d].snapshot
            OBVIOUS
        <3>1. PICK s \in 1..MaxSnapshot :
                /\ registry'[d] = [connection |-> c, snapshot |-> s]
                /\ Supersedes(registry[d], [device |-> d, snapshot |-> s], c)
            BY <1>1, <2>2, RegisterEffect
        <3>2. registry[d] \in [connection : Conn, snapshot : 1..MaxSnapshot]
            BY <1>1 DEF TypeOK
        <3> QED
            BY <3>1, <3>2, HubAssumption DEF Supersedes
    <2>3. CASE UNCHANGED registry
        BY <2>3
    <2> QED
        BY <1>1, <2>1, <2>2, <2>3
        DEF Next, Handle, HandleConnection, HandleUplink, LinkFails, Announced, Forward, CatchUp,
            RelayConnect, HandleUplinkInbound, RelayData, hubVars
<1> QED
    BY <1>1, TypeCorrect, PTL DEF Spec, FreshestAdvertHolds

-----------------------------------------------------------------------------
(* Pairings.                                                                 *)

LEMMA AddPairingEntries ==
  ASSUME TypeOK, NEW a \in Conn, NEW b \in Conn, a # b, NEW aDevice \in Device,
         NEW bDevice \in Device, NEW x \in Conn, NEW d \in Device
  PROVE  AddPairing(pairings, a, aDevice, b, bDevice)[x][d] =
            IF x = a /\ d = bDevice THEN b
            ELSE IF x = b /\ d = aDevice THEN a ELSE pairings[x][d]
<1>1. pairings \in [Conn -> [Device -> Conn \cup {NoConn}]]
    BY DEF TypeOK
<1>2. CASE x = a
    BY <1>1, <1>2 DEF AddPairing
<1>3. CASE x = b
    BY <1>1, <1>3 DEF AddPairing
<1>4. CASE x \notin {a, b}
    BY <1>1, <1>4 DEF AddPairing
<1> QED
    BY <1>2, <1>3, <1>4

LEMMA ForgetPairingsEntries ==
  ASSUME TypeOK, NEW c \in Conn, NEW x \in Conn, NEW d \in Device
  PROVE  ForgetPairings(pairings, c)[x][d] =
            IF x = c \/ (pairings[x][d] = c /\ x \in PeersIn(pairings, c))
            THEN NoConn ELSE pairings[x][d]
  BY DEF ForgetPairings, Unpaired, TypeOK

(* forgetConnection and addPairing: an established pairing is only lost with *)
(* one of its two connections.                                               *)
THEOREM PairingsLast == Spec => PairingDiesWithConnection
<1> DEFINE Lasts == \A c \in Conn, d \in Device :
                       pairings[c][d] # NoConn /\ pairings'[c][d] # pairings[c][d] =>
                          \/ pairings'[c][d] # NoConn
                          \/ c \notin Served'
                          \/ pairings[c][d] \notin Served'
<1> USE HubAssumption
<1>1. ASSUME TypeOK, [Next]_hubVars PROVE Lasts
    <2>1. ASSUME NEW c \in Conn, Disconnect(c) PROVE Lasts
        <3>1. Served' = Served \ {c}
            BY <1>1, <2>1, ForgottenServed DEF Disconnect
        <3>2. pairings' = ForgetPairings(pairings, c)
            BY <2>1 DEF Disconnect, ForgetConnection
        <3> QED
            BY <1>1, <3>1, <3>2, ForgetPairingsEntries
    <2>2. ASSUME NEW a \in Conn, NEW b \in Conn, a # b,
                 NEW aDevice \in Device, NEW bDevice \in Device,
                 pairings' = AddPairing(pairings, a, aDevice, b, bDevice)
          PROVE  Lasts
        BY <1>1, <2>2, AddPairingEntries
    <2>3. ASSUME NEW c \in Conn, NEW target \in Device, NEW source \in Device \cup {NoDevice},
                 RelayConnect(c, target, source)
          PROVE  Lasts
        <3>1. registry[target].connection \in Conn \ {c} /\ InitiatorOf(c, source) \in Device
            BY <1>1, <2>3 DEF RelayConnect, InitiatorOf, TypeOK, Unregistered
        <3>2. pairings' = AddPairing(pairings, c, InitiatorOf(c, source),
                                     registry[target].connection, target)
            BY <2>3 DEF RelayConnect
        <3> QED
            BY <2>2, <3>1, <3>2
    <2>4. ASSUME NEW c \in Conn, NEW source \in Device, NEW target \in Device,
                 HandleUplinkInbound(c, source, target)
          PROVE  Lasts
        <3>1. registry[target].connection \in Conn \ {c}
            BY <1>1, <2>4 DEF HandleUplinkInbound, TypeOK, Unregistered
        <3>2. pairings' = AddPairing(pairings, registry[target].connection, target, c, source)
            BY <2>4 DEF HandleUplinkInbound
        <3> QED
            BY <2>2, <3>1, <3>2
    <2>5. CASE UNCHANGED pairings
        BY <2>5
    <2> QED
        BY <1>1, <2>1, <2>3, <2>4, <2>5
        DEF Next, Handle, HandleConnection, HandleUplink, LinkFails, Announced, Gossip, Forward,
            CatchUp, RelayData, hubVars
<1> QED
    BY <1>1, TypeCorrect, PTL DEF Spec, PairingDiesWithConnection

(* The case without roaming: no two connections gossip the same device.  It  *)
(* is the one in which a pairing never has to follow a device.               *)
OwnDevices == \A c, e \in Conn : c # e => Carries[c] \cap Carries[e] = {}

RegistryCarried ==
    \A d \in Device : registry[d] # Unregistered => d \in Carries[registry[d].connection]

AttributionHeld ==
    \A c \in Conn : connectionDevice[c] # NoDevice => registry[connectionDevice[c]].connection = c

PairingsCarried ==
    \A a \in Conn, d \in Device :
        pairings[a][d] # NoConn => d \in Carries[pairings[a][d]] /\ a \in Served

PairingsAnswered ==
    \A a \in Conn, d \in Device :
        pairings[a][d] # NoConn => a \in PeersIn(pairings, pairings[a][d])

RecentAnswered ==
    \A x \in Conn : mostRecentPairing[x] # NoConn => x \in PeersIn(pairings, mostRecentPairing[x])

RouteInv ==
    RegistryCarried /\ AttributionHeld /\ PairingsCarried /\ PairingsAnswered /\ RecentAnswered

LEMMA HeldIsCarried ==
  ASSUME RouteInv, NEW c \in Conn, NEW d \in Device, registry[d].connection = c
  PROVE  d \in Carries[c]
<1>1. registry[d] # Unregistered
    BY HubAssumption DEF Unregistered
<1> QED
    BY <1>1 DEF RouteInv, RegistryCarried

LEMMA PairKeepsRoutes ==
  ASSUME TypeOK, OwnDevices, RouteInv, NEW a \in Served, NEW b \in Served, a # b,
         NEW aDevice \in Carries[a], NEW bDevice \in Carries[b],
         pairings' = AddPairing(pairings, a, aDevice, b, bDevice),
         mostRecentPairing' = AddRecent(mostRecentPairing, a, b),
         registry' = registry, connectionDevice' = connectionDevice, connections' = connections
  PROVE  RouteInv'
<1> USE HubAssumption
<1>1. /\ a \in Conn /\ b \in Conn /\ a # NoConn /\ b # NoConn
      /\ aDevice \in Device /\ bDevice \in Device
    BY DEF Served, Keys, TypeOK
<1>2. /\ pairings'[a][bDevice] = b /\ pairings'[b][aDevice] = a
      /\ \A x \in Conn, d \in Device :
            \/ x = a /\ d = bDevice
            \/ x = b /\ d = aDevice
            \/ pairings'[x][d] = pairings[x][d]
    <2>1. \A x \in Conn, d \in Device :
            pairings'[x][d] = IF x = a /\ d = bDevice THEN b
                              ELSE IF x = b /\ d = aDevice THEN a ELSE pairings[x][d]
        <3> SUFFICES ASSUME NEW x \in Conn, NEW d \in Device
                     PROVE  AddPairing(pairings, a, aDevice, b, bDevice)[x][d] =
                              IF x = a /\ d = bDevice THEN b
                              ELSE IF x = b /\ d = aDevice THEN a ELSE pairings[x][d]
            OBVIOUS
        <3> QED
            BY ONLY <1>1, TypeOK, a # b, AddPairingEntries
    <2> HIDE HubAssumption
    <2>2. pairings'[a][bDevice] = b
        BY ONLY <1>1, <2>1
    <2>3. pairings'[b][aDevice] = a
        BY ONLY <1>1, <2>1, a # b
    <2>4. \A x \in Conn, d \in Device :
            \/ x = a /\ d = bDevice
            \/ x = b /\ d = aDevice
            \/ pairings'[x][d] = pairings[x][d]
        BY ONLY <2>1
    <2> QED
        BY ONLY <2>2, <2>3, <2>4
<1>3. \A x \in Conn, d \in Device : pairings[x][d] # NoConn => pairings'[x][d] = pairings[x][d]
    <2> SUFFICES ASSUME NEW x \in Conn, NEW d \in Device, pairings[x][d] # NoConn
                 PROVE  pairings'[x][d] = pairings[x][d]
        OBVIOUS
    <2>1. pairings[x][d] \in Conn /\ d \in Carries[pairings[x][d]]
        <3>1. pairings[x][d] \in Conn
            BY DEF TypeOK
        <3> QED
            BY <3>1 DEF RouteInv, PairingsCarried
    <2> QED
        BY <1>1, <1>2, <2>1 DEF OwnDevices
<1>4. \A x, y \in Conn : x \in PeersIn(pairings, y) => x \in PeersIn(pairings', y)
    <2> SUFFICES ASSUME NEW x \in Conn, NEW y \in Conn, x \in PeersIn(pairings, y)
                 PROVE  x \in PeersIn(pairings', y)
        OBVIOUS
    <2>1. PICK d \in Device : pairings[y][d] = x
        BY DEF PeersIn
    <2>2. pairings'[y][d] = x
        BY <1>3, <2>1
    <2> QED
        BY <2>2 DEF PeersIn
<1>5. a \in PeersIn(pairings', b) /\ b \in PeersIn(pairings', a)
    BY <1>1, <1>2 DEF PeersIn
<1>6. Served' = Served
    BY DEF Served
<1>7. \A x \in Conn, d \in Device :
         pairings'[x][d] # NoConn => d \in Carries[pairings'[x][d]] /\ x \in Served'
    BY <1>1, <1>2, <1>6 DEF RouteInv, PairingsCarried
<1>8. \A x \in Conn, d \in Device :
         pairings'[x][d] # NoConn => x \in PeersIn(pairings', pairings'[x][d])
    <2> SUFFICES ASSUME NEW x \in Conn, NEW d \in Device, pairings'[x][d] # NoConn
                 PROVE  x \in PeersIn(pairings', pairings'[x][d])
        OBVIOUS
    <2>1. CASE pairings'[x][d] = pairings[x][d]
        <3>1. pairings[x][d] \in Conn /\ x \in PeersIn(pairings, pairings[x][d])
            <4>1. pairings[x][d] \in Conn
                BY <2>1 DEF TypeOK
            <4> QED
                BY <2>1, <4>1 DEF RouteInv, PairingsAnswered
        <3> QED
            BY <1>4, <2>1, <3>1
    <2> QED
        BY <1>2, <1>5, <2>1
<1>9. \A x \in Conn : mostRecentPairing'[x] # NoConn =>
                        x \in PeersIn(pairings', mostRecentPairing'[x])
    <2> SUFFICES ASSUME NEW x \in Conn, mostRecentPairing'[x] # NoConn
                 PROVE  x \in PeersIn(pairings', mostRecentPairing'[x])
        OBVIOUS
    <2>1. CASE x \in {a, b}
        <3>1. mostRecentPairing'[a] = b /\ mostRecentPairing'[b] = a
            BY <1>1 DEF AddRecent, TypeOK
        <3> QED
            BY <1>5, <2>1, <3>1
    <2>2. CASE x \notin {a, b}
        <3>1. mostRecentPairing'[x] = mostRecentPairing[x] /\ mostRecentPairing[x] \in Conn \cup {NoConn}
            BY <2>2 DEF AddRecent, TypeOK
        <3>2. x \in PeersIn(pairings, mostRecentPairing[x])
            BY <3>1 DEF RouteInv, RecentAnswered
        <3> QED
            BY <1>4, <3>1, <3>2
    <2> QED
        BY <2>1, <2>2
<1> QED
    BY <1>7, <1>8, <1>9
    DEF RouteInv, RegistryCarried, AttributionHeld, PairingsCarried, PairingsAnswered, RecentAnswered

LEMMA ForgetKeepsRoutes ==
  ASSUME TypeOK, RouteInv, NEW c \in Conn, ForgetConnection(c)
  PROVE  RouteInv'
<1> USE HubAssumption
<1>1. Served' = Served \ {c}
    BY ForgottenServed
<1>2. /\ registry' = [d \in Device |->
                        IF registry[d].connection = c THEN Unregistered ELSE registry[d]]
      /\ connectionDevice' = [connectionDevice EXCEPT ![c] = NoDevice]
      /\ pairings' = ForgetPairings(pairings, c)
      /\ mostRecentPairing' = ForgetRecent(mostRecentPairing, pairings, c)
    BY DEF ForgetConnection, Unregister
<1>3. \A d \in Device : registry'[d] # Unregistered => d \in Carries[registry'[d].connection]
    BY <1>2 DEF RouteInv, RegistryCarried
<1>4. \A x \in Conn : connectionDevice'[x] # NoDevice =>
                        registry'[connectionDevice'[x]].connection = x
    BY <1>2 DEF RouteInv, AttributionHeld, TypeOK
<1>5. \A x \in Conn, d \in Device :
         pairings'[x][d] = IF x = c \/ pairings[x][d] = c THEN NoConn ELSE pairings[x][d]
    BY <1>2, ForgetPairingsEntries DEF RouteInv, PairingsAnswered
<1>6. \A x, y \in Conn : x \in PeersIn(pairings, y) /\ x # c /\ y # c => x \in PeersIn(pairings', y)
    <2> SUFFICES ASSUME NEW x \in Conn, NEW y \in Conn, x \in PeersIn(pairings, y), x # c, y # c
                 PROVE  x \in PeersIn(pairings', y)
        OBVIOUS
    <2>1. PICK d \in Device : pairings[y][d] = x
        BY DEF PeersIn
    <2>2. pairings'[y][d] = x
        BY <1>5, <2>1
    <2> QED
        BY <2>2 DEF PeersIn
<1>7. \A x \in Conn, d \in Device :
         pairings'[x][d] # NoConn => d \in Carries[pairings'[x][d]] /\ x \in Served'
    BY <1>1, <1>5 DEF RouteInv, PairingsCarried
<1>8. \A x \in Conn, d \in Device :
         pairings'[x][d] # NoConn => x \in PeersIn(pairings', pairings'[x][d])
    <2> SUFFICES ASSUME NEW x \in Conn, NEW d \in Device, pairings'[x][d] # NoConn
                 PROVE  x \in PeersIn(pairings', pairings'[x][d])
        OBVIOUS
    <2>1. x # c /\ pairings[x][d] # c /\ pairings'[x][d] = pairings[x][d]
        BY <1>5
    <2>2. pairings[x][d] \in Conn /\ x \in PeersIn(pairings, pairings[x][d])
        <3>1. pairings[x][d] \in Conn
            BY <2>1 DEF TypeOK
        <3> QED
            BY <2>1, <3>1 DEF RouteInv, PairingsAnswered
    <2> QED
        BY <1>6, <2>1, <2>2
<1>9. \A x \in Conn : mostRecentPairing'[x] # NoConn =>
                        x \in PeersIn(pairings', mostRecentPairing'[x])
    <2> SUFFICES ASSUME NEW x \in Conn, mostRecentPairing'[x] # NoConn
                 PROVE  x \in PeersIn(pairings', mostRecentPairing'[x])
        OBVIOUS
    <2>1. x # c /\ mostRecentPairing'[x] = mostRecentPairing[x] /\ mostRecentPairing[x] \in Conn
        BY <1>2 DEF ForgetRecent, TypeOK
    <2>2. x \in PeersIn(pairings, mostRecentPairing[x])
        BY <2>1 DEF RouteInv, RecentAnswered
    <2>3. mostRecentPairing[x] # c
        BY <1>2, <2>1, <2>2 DEF ForgetRecent
    <2> QED
        BY <1>6, <2>1, <2>2, <2>3
<1> QED
    BY <1>3, <1>4, <1>7, <1>8, <1>9
    DEF RouteInv, RegistryCarried, AttributionHeld, PairingsCarried, PairingsAnswered, RecentAnswered

LEMMA RouteStep ==
  ASSUME OwnDevices, TypeOK, RegistryIsServed, RouteInv, [Next]_hubVars
  PROVE  RouteInv'
<1> USE HubAssumption
<1>1. ASSUME UNCHANGED <<registry, connectionDevice, pairings, mostRecentPairing>>,
             Served \subseteq Served'
      PROVE  RouteInv'
    BY <1>1
    DEF RouteInv, RegistryCarried, AttributionHeld, PairingsCarried, PairingsAnswered, RecentAnswered
<1>2. ASSUME NEW c \in Conn, HandleConnection(c) PROVE RouteInv'
    BY <1>1, <1>2, JoinedServed DEF HandleConnection
<1>3. ASSUME NEW c \in Conn, HandleUplink(c) PROVE RouteInv'
    BY <1>1, <1>3, JoinedServed DEF HandleUplink, Served
<1>4. ASSUME NEW c \in Conn, Announced(c) PROVE RouteInv'
    BY <1>1, <1>4, JoinedServed DEF Announced
<1>5. ASSUME NEW c \in Conn, Disconnect(c) PROVE RouteInv'
    BY <1>5, ForgetKeepsRoutes DEF Disconnect
<1>6. ASSUME NEW c \in Conn, NEW frame \in GossipFrames[c], Gossip(c, frame) PROVE RouteInv'
    <2>1. UNCHANGED <<connections, pairings, mostRecentPairing>>
        BY <1>6 DEF Gossip
    <2>2. \A d \in Device : \/ registry'[d] = registry[d]
                            \/ registry'[d].connection = c /\ d \in Carries[c]
        BY <1>6, RegisterEffect
    <2>3. PICK d \in Device : /\ registry'[d].connection = c
                              /\ connectionDevice' = [connectionDevice EXCEPT ![c] = d]
        BY <1>6, RegisterEffect
    <2>4. ASSUME NEW x \in Conn, connectionDevice'[x] # NoDevice
          PROVE  registry'[connectionDevice'[x]].connection = x
        <3>1. CASE x = c
            BY <2>3, <3>1 DEF TypeOK
        <3>2. CASE x # c
            <4> DEFINE e == connectionDevice[x]
            <4>1. connectionDevice'[x] = e /\ e \in Device
                BY <2>3, <2>4, <3>2 DEF TypeOK
            <4>2. registry[e].connection = x /\ registry[e] # Unregistered /\ e \in Carries[x]
                <5>1. registry[e].connection = x
                    BY <2>4, <4>1 DEF RouteInv, AttributionHeld
                <5> QED
                    BY <4>1, <5>1, HeldIsCarried DEF Unregistered
            <4>3. e \notin Carries[c]
                BY <3>2, <4>2 DEF OwnDevices
            <4> QED
                BY <2>2, <4>1, <4>2, <4>3
        <3> QED
            BY <3>1, <3>2
    <2>5. \A e \in Device : registry'[e] # Unregistered => e \in Carries[registry'[e].connection]
        BY <2>2 DEF RouteInv, RegistryCarried
    <2>6. Served' = Served
        BY <2>1 DEF Served
    <2> QED
        BY <2>1, <2>4, <2>5, <2>6
        DEF RouteInv, RegistryCarried, AttributionHeld, PairingsCarried, PairingsAnswered,
            RecentAnswered
<1>7. ASSUME NEW c \in Conn, NEW target \in Device, NEW source \in Device \cup {NoDevice},
             RelayConnect(c, target, source)
      PROVE  RouteInv'
    <2> DEFINE held == registry[target].connection
               initiator == InitiatorOf(c, source)
    <2>1. held \in Served /\ held # c /\ c \in Served /\ target \in Carries[held]
        <3>1. held # NoConn /\ held # c /\ c \in Served
            BY <1>7 DEF RelayConnect, Reading
        <3>2. registry[target] # Unregistered
            BY <3>1 DEF Unregistered
        <3> QED
            BY <3>1, <3>2 DEF RegistryIsServed, RouteInv, RegistryCarried
    <2>2. initiator \in Device /\ registry[initiator].connection = c
        BY <1>7 DEF RelayConnect, InitiatorOf, RouteInv, AttributionHeld, TypeOK
    <2>3. initiator \in Carries[c]
        BY <2>2, HeldIsCarried
    <2>4. /\ pairings' = AddPairing(pairings, c, initiator, held, target)
          /\ mostRecentPairing' = AddRecent(mostRecentPairing, c, held)
          /\ registry' = registry
          /\ connectionDevice' = connectionDevice
          /\ connections' = connections
        BY <1>7 DEF RelayConnect
    <2> HIDE DEF held, initiator
    <2> QED
        BY <2>1, <2>3, <2>4, PairKeepsRoutes
<1>8. ASSUME NEW c \in Conn, NEW source \in Device, NEW target \in Device,
             HandleUplinkInbound(c, source, target)
      PROVE  RouteInv'
    <2> DEFINE local == registry[target].connection
    <2>1. local \in Served /\ local # c /\ c \in Served /\ target \in Carries[local]
        <3>1. local # NoConn /\ local # c /\ c \in Served
            BY <1>8 DEF HandleUplinkInbound, Reading
        <3>2. registry[target] # Unregistered
            BY <3>1 DEF Unregistered
        <3> QED
            BY <3>1, <3>2 DEF RegistryIsServed, RouteInv, RegistryCarried
    <2>2. source \in Carries[c]
        BY <1>8, HeldIsCarried DEF HandleUplinkInbound
    <2>3. /\ pairings' = AddPairing(pairings, local, target, c, source)
          /\ mostRecentPairing' = AddRecent(mostRecentPairing, local, c)
          /\ registry' = registry
          /\ connectionDevice' = connectionDevice
          /\ connections' = connections
        BY <1>8 DEF HandleUplinkInbound
    <2> HIDE DEF local
    <2> QED
        BY <2>1, <2>2, <2>3, PairKeepsRoutes
<1>9. CASE \E c \in Conn : \/ LinkFails(c) \/ Forward(c) \/ CatchUp(c)
                           \/ \E to, from \in Device \cup {NoDevice} : RelayData(c, to, from)
    BY <1>1, <1>9 DEF LinkFails, Forward, CatchUp, RelayData, Served
<1>10. CASE UNCHANGED hubVars
    BY <1>1, <1>10 DEF hubVars, Served
<1> QED
    BY <1>2, <1>3, <1>4, <1>5, <1>6, <1>7, <1>8, <1>9, <1>10 DEF Next, Handle

THEOREM RouteInvariant == ASSUME OwnDevices PROVE Spec => [](TypeOK /\ RegistryIsServed /\ RouteInv)
<1>1. Init => TypeOK /\ RegistryIsServed /\ RouteInv
    <2> SUFFICES ASSUME Init PROVE TypeOK /\ RegistryIsServed /\ RouteInv
        OBVIOUS
    <2>1. TypeOK
        BY HubAssumption, SimpleTypes DEF Init, TypeOK, HandlerStates
    <2> QED
        BY <2>1
        DEF Init, RegistryIsServed, RouteInv, RegistryCarried, AttributionHeld, PairingsCarried,
            PairingsAnswered, RecentAnswered, Unpaired
<1>2. TypeOK /\ RegistryIsServed /\ RouteInv /\ [Next]_hubVars
         => (TypeOK /\ RegistryIsServed /\ RouteInv)'
    BY TypeStep, RegistryStep, RouteStep
<1> QED
    BY <1>1, <1>2, PTL DEF Spec

(* Without roaming, pairings are symmetric as their comment says, and no     *)
(* pairing or fallback route leads to a connection that is gone: what        *)
(* forgetConnection walks, the closed connection's own map, is exactly the   *)
(* set of maps that mention it.                                              *)
THEOREM PairingsStaySymmetric == ASSUME OwnDevices PROVE Spec => []PairingsSymmetric
<1>1. TypeOK /\ RouteInv => PairingsSymmetric
    <2> SUFFICES ASSUME TypeOK, RouteInv, NEW a \in Conn, NEW b \in Conn, NEW d \in Device,
                        pairings[a][d] = b
                 PROVE  \E e \in Device : pairings[b][e] = a
        BY DEF PairingsSymmetric
    <2>1. a \in PeersIn(pairings, b)
        BY HubAssumption DEF RouteInv, PairingsAnswered
    <2> QED
        BY <2>1 DEF PeersIn
<1> QED
    BY <1>1, RouteInvariant, PTL

THEOREM RoutesStayServed == ASSUME OwnDevices PROVE Spec => []RoutesAreServed
<1>1. TypeOK /\ RouteInv => RoutesAreServed
    <2> SUFFICES ASSUME TypeOK, RouteInv PROVE RoutesAreServed
        OBVIOUS
    <2>1. ASSUME NEW x \in Conn, NEW y \in Conn, x \in PeersIn(pairings, y) PROVE y \in Served
        <3>1. PICK d \in Device : pairings[y][d] = x
            BY <2>1 DEF PeersIn
        <3> QED
            BY <3>1, HubAssumption DEF RouteInv, PairingsCarried
    <2> QED
        BY <2>1 DEF RouteInv, PairingsAnswered, RecentAnswered, RoutesAreServed, TypeOK
<1> QED
    BY <1>1, RouteInvariant, PTL

(* With one device on each connection, a relayed frame is always stamped     *)
(* with the device its receiver holds the sending connection under.          *)
THEOREM RepliesRouteBack ==
  ASSUME OwnDevices, \A c \in Conn : \A d, e \in Carries[c] : d = e
  PROVE  Spec => []ReplyRoutesBack
<1>1. TypeOK /\ RouteInv => ReplyRoutesBack
    <2> SUFFICES ASSUME TypeOK, RouteInv, NEW c \in Conn, NEW to \in Device \cup {NoDevice},
                        NEW from \in Device \cup {NoDevice}, Relayable(c, to, from)
                 PROVE  pairings[PeerOf(c, to)][InitiatorOf(c, from)] = c
        BY DEF ReplyRoutesBack
    <2> USE HubAssumption
    <2> DEFINE peer == PeerOf(c, to)
               sender == InitiatorOf(c, from)
    <2>1. peer \in Conn /\ c \in PeersIn(pairings, peer)
        BY DEF Relayable, PeerOf, RouteInv, PairingsAnswered, RecentAnswered, TypeOK
    <2>2. PICK d \in Device : pairings[peer][d] = c
        BY <2>1 DEF PeersIn
    <2>3. d \in Carries[c]
        BY <2>1, <2>2 DEF RouteInv, PairingsCarried
    <2>4. sender \in Device /\ registry[sender].connection = c
        BY DEF Relayable, InitiatorOf, RouteInv, AttributionHeld, TypeOK
    <2>5. sender \in Carries[c]
        BY <2>4, HeldIsCarried
    <2> QED
        BY <2>2, <2>3, <2>5
<1> QED
    BY <1>1, RouteInvariant, PTL

=============================================================================
