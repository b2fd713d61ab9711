---- MODULE HibernatingHub ----
(***************************************************************************)
(* The hub on sockets that outlive it                                      *)
(* (cloudflare-hub/src/hibernating-hub.ts): the instance is evicted at any *)
(* time, and the next one takes the sockets over with what was written to  *)
(* their attachments (exportConnection, restoreConnections of              *)
(* core/src/domain/relay-hub.ts).                                          *)
(*                                                                         *)
(* Unlike the hub of RelayHub, this one is called for every event, so that *)
(* a socket may close while a gossip of its own is being verified.  What   *)
(* the hub sends is left out; it has no uplink.                            *)
(***************************************************************************)
EXTENDS Naturals, FiniteSets, SequencesExt

CONSTANTS
    Socket,
    Scenario,   \* sets of the sockets that come in one history
    Advert,     \* the adverts gossiped: a device, the socket it comes on, its time
    MaxVerifying \* bound: adverts in verification at a time

None == "none"
Gossiped == {e.device : e \in Advert}

VARIABLES
    survivors,   \* the sockets the runtime holds, oldest first
    closed,      \* sockets that closed, and whether the hub has been told
    attachment,  \* attachment[s]: the relay state written to s
    instance,    \* the hub's maps, in memory
    verifying,   \* adverts whose signature is being checked
    dropped      \* devices of pairings some instance did not restore

sleepVars == <<survivors, closed, attachment, instance, verifying, dropped>>

NoState == [device |-> None, adverts |-> <<>>, paired |-> <<>>, recent |-> None]

\* An instance that has not looked at its sockets yet.  The maps devices and
\* pairings are kept in the order of their keys.
Asleep == [adopted |-> FALSE, known |-> {}, devices |-> <<>>,
           device |-> [s \in Socket |-> None],
           pairings |-> [s \in Socket |-> <<>>],
           recent |-> [s \in Socket |-> None]]

SleepInit ==
    /\ survivors = <<>>
    /\ \E sockets \in Scenario :
        closed = [s \in Socket |-> IF s \in sockets THEN "new" ELSE "absent"]
    /\ attachment = [s \in Socket |-> NoState]
    /\ instance = Asleep
    /\ verifying = {}
    /\ dropped = {}

\* map.set and map.get, on a map kept as the sequence of its entries.
Put(map, e) ==
    IF \E i \in DOMAIN map : map[i].device = e.device
    THEN [i \in DOMAIN map |-> IF map[i].device = e.device THEN e ELSE map[i]]
    ELSE Append(map, e)
At(map, d) ==
    IF \E i \in DOMAIN map : map[i].device = d
    THEN map[CHOOSE i \in DOMAIN map : map[i].device = d].on ELSE None
OfSocket(map, s) == SelectSeq(map, LAMBDA e : e.on = s)
Devices(map) == [i \in DOMAIN map |-> map[i].device]

(***************************************************************************)
(* Export and restore.                                                     *)
(***************************************************************************)
ExportConnection(h, s) ==
    LET recent == OfSocket(h.pairings[s], h.recent[s]) IN
    IF h.device[s] = None THEN NoState
    ELSE [device |-> h.device[s],
          adverts |-> OfSocket(h.devices, s),
          paired |-> Devices(h.pairings[s]),
          recent |-> IF recent = <<>> THEN None ELSE recent[1].device]

\* stateChanged, for connections whose socket has not been forgotten.  What
\* is written to a closed socket goes with it.
Persist(h, changed) ==
    attachment' = [s \in Socket |->
        CASE s \notin ToSet(survivors') -> NoState
          [] s \in changed \intersect h.known -> ExportConnection(h, s)
          [] OTHER -> attachment[s]]

\* The sockets with an attachment, in the order they are looked at.
Entries == SelectSeq(survivors, LAMBDA s : attachment[s] # NoState)

\* Whose connection a device is taken to have: the last that goes by its
\* name, else the first that has its advert.
ByDevice(d) ==
    LET named == SelectSeq(Entries, LAMBDA s : attachment[s].device = d)
        fronting == SelectSeq(Entries, LAMBDA s : At(attachment[s].adverts, d) # None)
    IN IF named # <<>> THEN Last(named)
       ELSE IF fronting # <<>> THEN Head(fronting) ELSE None

RestoredPairings(s) ==
    LET found == SelectSeq(attachment[s].paired, LAMBDA d : ByDevice(d) # None)
    IN [i \in DOMAIN found |-> [device |-> found[i], on |-> ByDevice(found[i])]]

RestoreConnections ==
    LET restored == ToSet(Entries) IN
    [adopted |-> TRUE,
     known |-> ToSet(survivors),
     devices |-> FoldLeft(LAMBDA map, s : FoldLeft(Put, map, attachment[s].adverts),
                          <<>>, Entries),
     device |-> [s \in Socket |-> IF s \in restored THEN attachment[s].device ELSE None],
     pairings |-> [s \in Socket |-> IF s \in restored THEN RestoredPairings(s) ELSE <<>>],
     recent |-> [s \in Socket |->
        IF s \in restored /\ attachment[s].recent # None
        THEN ByDevice(attachment[s].recent) ELSE None]]

\* adopt(): the instance, whole before it handles anything.
Adopt == IF instance.adopted THEN instance ELSE RestoreConnections

NotRestored ==
    {d \in Gossiped : ~ instance.adopted /\ ByDevice(d) = None
                   /\ \E s \in ToSet(Entries) : d \in ToSet(attachment[s].paired)}
NotesDropped == dropped' = dropped \union NotRestored

(***************************************************************************)
(* The runtime's events.                                                   *)
(***************************************************************************)
Accept(s) ==
    /\ closed[s] = "new"
    /\ closed' = [closed EXCEPT ![s] = "open"]
    /\ survivors' = Append(survivors, s)
    /\ instance' = [Adopt EXCEPT !.known = @ \union {s}]
    /\ NotesDropped
    /\ UNCHANGED <<attachment, verifying>>

\* A gossip arrives, and its signature is checked across an await.
MessageGossip(e) ==
    /\ closed[e.on] = "open"
    /\ Cardinality(verifying) < MaxVerifying
    /\ instance' = Adopt
    /\ verifying' = verifying \union {e}
    /\ NotesDropped
    /\ UNCHANGED <<survivors, closed, attachment>>

Supersedes(previous, e) == IF previous.on = e.on THEN e.at >= previous.at ELSE e.at > previous.at

\* It verifies: registered, unless what is registered is newer.  The socket
\* goes by the first device registered on it.
Registered(h, e) ==
    LET map == Put(h.devices, e)
    IN [h EXCEPT !.devices = map, !.device[e.on] = OfSocket(map, e.on)[1].device]

FinishGossip(e) ==
    LET held == SelectSeq(instance.devices, LAMBDA f : f.device = e.device) IN
    /\ e \in verifying
    /\ verifying' = verifying \ {e}
    /\ UNCHANGED <<survivors, closed, dropped>>
    /\ IF held # <<>> /\ ~ Supersedes(held[1], e) THEN UNCHANGED <<instance, attachment>>
       ELSE /\ instance' = Registered(instance, e)
            /\ Persist(instance', {e.on} \union {f.on : f \in ToSet(held)})

AddPairing(h, a, aDevice, b, bDevice) ==
    [h EXCEPT !.pairings[a] = Put(@, [device |-> bDevice, on |-> b]),
              !.pairings[b] = Put(@, [device |-> aDevice, on |-> a]),
              !.recent[a] = b, !.recent[b] = a]

\* Variant: only the side that asked is written down.
MessageRelayConnectOneSided(s, source, target) ==
    LET h == Adopt
        peer == At(h.devices, target)
    IN
    /\ closed[s] = "open"
    /\ peer \notin {None, s}
    /\ source = h.device[s] \/ At(h.devices, source) = s
    /\ UNCHANGED <<survivors, closed, verifying>>
    /\ instance' = AddPairing(h, s, source, peer, target)
    /\ Persist(instance', {s})
    /\ NotesDropped

\* relay-connect, by the device the socket goes by or another registered on it.
MessageRelayConnect(s, source, target) ==
    LET h == Adopt
        peer == At(h.devices, target)
    IN
    /\ closed[s] = "open"
    /\ peer \notin {None, s}
    /\ source = h.device[s] \/ At(h.devices, source) = s
    /\ UNCHANGED <<survivors, closed, verifying>>
    /\ instance' = AddPairing(h, s, source, peer, target)
    /\ Persist(instance', {s, peer})
    /\ NotesDropped

\* A socket closes, and the hub is told of it later.
Closes(s) ==
    /\ closed[s] = "open"
    /\ closed' = [closed EXCEPT ![s] = "untold"]
    /\ survivors' = SelectSeq(survivors, LAMBDA t : t # s)
    /\ Persist(instance, {})
    /\ UNCHANGED <<instance, verifying, dropped>>

ForgetConnection(h, s) ==
    LET peers == {e.on : e \in ToSet(h.pairings[s])} IN
    [h EXCEPT
        !.known = @ \ {s},
        !.devices = SelectSeq(@, LAMBDA e : e.on # s),
        !.device[s] = None,
        !.pairings = [t \in Socket |->
            IF t = s THEN <<>>
            ELSE IF t \in peers THEN SelectSeq(@[t], LAMBDA e : e.on # s) ELSE @[t]],
        !.recent = [t \in Socket |->
            IF t = s \/ (t \in peers /\ @[t] = s) THEN None ELSE @[t]]]

Forgotten(h, s) ==
    IF s \in h.known
    THEN /\ instance' = ForgetConnection(h, s)
         /\ Persist(instance', {e.on : e \in ToSet(h.pairings[s])})
    ELSE instance' = h /\ Persist(h, {})

Forget(s) ==
    /\ closed[s] = "untold"
    /\ closed' = [closed EXCEPT ![s] = "told"]
    /\ UNCHANGED <<survivors, verifying>>
    /\ Forgotten(Adopt, s)
    /\ NotesDropped

\* Something that is not a frame: the hub closes the socket and forgets it,
\* and is told later that it closed.
MessageProtocolError(s) ==
    /\ closed[s] = "open"
    /\ closed' = [closed EXCEPT ![s] = "untold"]
    /\ survivors' = SelectSeq(survivors, LAMBDA t : t # s)
    /\ Forgotten(Adopt, s)
    /\ NotesDropped
    /\ UNCHANGED verifying

\* The instance goes, with the handlers it was running.
Evict ==
    /\ instance' = Asleep
    /\ verifying' = {}
    /\ UNCHANGED <<survivors, closed, attachment, dropped>>

SleepNext ==
    \/ \E s \in Socket :
        \/ Accept(s)
        \/ Closes(s)
        \/ Forget(s)
        \/ MessageProtocolError(s)
        \/ \E d, f \in Gossiped : MessageRelayConnect(s, d, f)
    \/ \E e \in Advert : MessageGossip(e) \/ FinishGossip(e)
    \/ Evict

(***************************************************************************)
(* Properties.                                                             *)
(***************************************************************************)
\* The sockets that go by d, or have it registered.
Carrying(d) == {s \in Socket : instance.device[s] = d \/ At(instance.devices, d) = s}

\* The unaddressed route of s, as the device it leads to.
RecentDevice(s) == ExportConnection(instance, s).recent

\* An eviction loses nothing, whenever it comes: the next instance has, for
\* the sockets that are still open, the same registrations, each socket goes
\* by the same device, and every pairing of two open sockets leads where it
\* led, as does the unaddressed route, if the peer is at that socket only.  A
\* pairing it has and this instance has not is one an earlier instance
\* dropped for want of its peer (persist, adopt, restoreConnections).
WakesAsItSlept ==
    instance.adopted =>
        LET next == RestoreConnections
            open == ToSet(survivors)
        IN
        /\ ToSet(next.devices) = {e \in ToSet(instance.devices) : e.on \in open}
        /\ \A s \in open :
            /\ next.device[s] = instance.device[s]
            /\ OfSocket(next.devices, s) = OfSocket(instance.devices, s)
            /\ instance.recent[s] \in open /\ Carrying(RecentDevice(s)) = {instance.recent[s]} =>
                next.recent[s] = instance.recent[s]
            /\ \A d \in Gossiped :
                /\ At(instance.pairings[s], d) \in open /\ Carrying(d) = {At(instance.pairings[s], d)} =>
                    At(next.pairings[s], d) = At(instance.pairings[s], d)
                /\ At(next.pairings[s], d) # None =>
                    At(instance.pairings[s], d) # None \/ d \in dropped
====
