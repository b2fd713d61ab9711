--------------------------- MODULE RelayChannels ---------------------------
(***************************************************************************)
(* The secure channel of two devices that reach each other through a relay *)
(* (relay-channels over secure-channel): who starts a handshake, whose     *)
(* hello completes which, and which frames open.  A handshake is the half  *)
(* one side made, named by a number; a channel is keyed by the two halves  *)
(* it was derived from.  Numbers nothing refers to any more are taken      *)
(* again, so that an exchange without end is a cycle.                      *)
(***************************************************************************)
EXTENDS Integers, Sequences, FiniteSetsExt, SequencesExt

CONSTANTS
    Device,           \* the two devices
    Halves,           \* numbers for one device's handshakes
    MaxFrames,        \* frames each device seals
    Disturbances,     \* what may go wrong: forget, reset, fail, lose, repeat, spoil
    MaxDisturbances   \* how often

ASSUME ChannelsAssumption ==
    /\ Cardinality(Device) = 2 /\ Halves \subseteq Nat
    /\ MaxFrames \in Nat /\ MaxDisturbances \in Nat
    /\ Disturbances \subseteq {"forget", "reset", "fail", "lose", "repeat", "spoil"}

VARIABLES
    half,       \* the awaiting entry's own handshake, or None
    channel,    \* the established entry's channel, or NoChannel
    begun,      \* handshakes whose hello is still being made
    waiting,    \* handshakes whose settle promise a caller of ensure waits on
    applying,   \* the hello that applyHello is completing, with the half it picked
    wire,       \* what the relay carries to each device
    sealed,     \* how many frames each device has sealed
    opened,     \* the frames each device has opened, by their number
    disturbed   \* disturbances so far

vars == <<half, channel, begun, waiting, applying, wire, sealed, opened, disturbed>>

None == -1
NoChannel == [mine |-> None, theirs |-> None, nextSend |-> 0, highestReceived |-> -1]
NotApplying == [mine |-> None, theirs |-> None]
Other(d) == CHOOSE p \in Device : p # d
Established(d) == channel[d] # NoChannel

\* What a device signed or encrypted is intact until the relay spoils it.
Hello(h) == [type |-> "hello", intact |-> TRUE, half |-> h]
\* A sealed frame: the key is named by the halves of its sender and its receiver.
Data(c, n) == [type |-> "data", intact |-> TRUE, from |-> c.mine, to |-> c.theirs,
               counter |-> c.nextSend, frame |-> n]

\* The hello is for this device and its signature is that of the key it names.
VerifyHello(m) == m.intact

Init ==
    /\ half = [d \in Device |-> None]
    /\ channel = [d \in Device |-> NoChannel]
    /\ begun = [d \in Device |-> {}] /\ waiting = [d \in Device |-> {}]
    /\ applying = [d \in Device |-> NotApplying]
    /\ wire = [d \in Device |-> <<>>]
    /\ sealed = [d \in Device |-> 0] /\ opened = [d \in Device |-> <<>>]
    /\ disturbed = 0

\* The handshakes of d something still refers to.
InUse(d) ==
    LET p == Other(d) IN
    {half[d], channel[d].mine, applying[d].mine, channel[p].theirs, applying[p].theirs}
    \cup begun[d] \cup waiting[d]
    \cup {m.half : m \in {x \in ToSet(wire[p]) : x.type = "hello"}}
    \cup {m.from : m \in {x \in ToSet(wire[p]) : x.type = "data"}}
    \cup {m.to : m \in {x \in ToSet(wire[d]) : x.type = "data"}}
Fresh(d) == Min(Halves \ InUse(d))

Disturb(what) ==
    what \in Disturbances /\ disturbed < MaxDisturbances /\ disturbed' = disturbed + 1

Put(d, m) == wire' = [wire EXCEPT ![d] = Append(@, m)]

-----------------------------------------------------------------------------
(* One device.                                                               *)

\* start: the peer is awaiting at once, in place of what there was.
Start(d) ==
    /\ half' = [half EXCEPT ![d] = Fresh(d)]
    /\ begun' = [begun EXCEPT ![d] = @ \cup {Fresh(d)}]

\* ensure for a peer without an established channel.
Ensure(d) ==
    /\ ~Established(d)
    /\ IF half[d] # None
       THEN /\ waiting' = [waiting EXCEPT ![d] = @ \cup {half[d]}]
            /\ UNCHANGED <<half, begun>>
       ELSE Start(d) /\ waiting' = [waiting EXCEPT ![d] = @ \cup {Fresh(d)}]
    /\ UNCHANGED <<channel, applying, wire, sealed, opened, disturbed>>

\* The half is made and its hello goes out on the connection of the moment.
SendHello(d, h) ==
    /\ h \in begun[d] /\ begun' = [begun EXCEPT ![d] = @ \ {h}]
    /\ Put(Other(d), Hello(h))
    /\ UNCHANGED <<half, channel, waiting, applying, sealed, opened, disturbed>>

\* It could not be sent: whoever waits is told, and the entry goes if it is still this
\* handshake's.
HelloFails(d, h) ==
    /\ Disturb("fail") /\ h \in begun[d]
    /\ begun' = [begun EXCEPT ![d] = @ \ {h}]
    /\ waiting' = [waiting EXCEPT ![d] = @ \ {h}]
    /\ half' = [half EXCEPT ![d] = IF @ = h THEN None ELSE @]
    /\ UNCHANGED <<channel, applying, wire, sealed, opened>>

\* Variant: a hello is only taken where no handshake is outstanding.
ApplyHelloUnlessAwaiting(d, h) ==
    IF half[d] # None THEN UNCHANGED <<half, begun, channel, applying>>
    ELSE /\ Start(d) /\ channel' = [channel EXCEPT ![d] = NoChannel]
         /\ applying' = [applying EXCEPT ![d] = [mine |-> Fresh(d), theirs |-> h]]

\* applyHello up to its await: the hello completes the handshake that is outstanding,
\* or one started in answer, also where a channel is established.
ApplyHello(d, h) ==
    IF half[d] # None
    THEN /\ applying' = [applying EXCEPT ![d] = [mine |-> half[d], theirs |-> h]]
         /\ UNCHANGED <<half, begun, channel>>
    ELSE /\ Start(d) /\ channel' = [channel EXCEPT ![d] = NoChannel]
         /\ applying' = [applying EXCEPT ![d] = [mine |-> Fresh(d), theirs |-> h]]

\* establishChannel: both halves go into the keys.  The ephemeral key of a hello that
\* verifies is one its sender made, and usable.
EstablishChannel(mine, theirs) == [NoChannel EXCEPT !.mine = mine, !.theirs = theirs]

\* The rest of applyHello, once the half is made: the channel is set, whatever has
\* become of the entry.
Establish(d) ==
    /\ applying[d] # NotApplying /\ applying[d].mine \notin begun[d]
    /\ channel' = [channel EXCEPT ![d] =
                    EstablishChannel(applying[d].mine, applying[d].theirs)]
    /\ half' = [half EXCEPT ![d] = None]
    /\ waiting' = [waiting EXCEPT ![d] = @ \ {applying[d].mine}]
    /\ applying' = [applying EXCEPT ![d] = NotApplying]
    /\ UNCHANGED <<begun, wire, sealed, opened, disturbed>>

\* seal, and the frame goes out.
Seal(d) ==
    /\ Established(d) /\ sealed[d] < MaxFrames
    /\ Put(Other(d), Data(channel[d], sealed[d] + 1))
    /\ channel' = [channel EXCEPT ![d].nextSend = @ + 1]
    /\ sealed' = [sealed EXCEPT ![d] = @ + 1]
    /\ UNCHANGED <<half, begun, waiting, applying, opened, disturbed>>

\* Variant: the last counter accepted is accepted again.
OpensAgain(d, m) ==
    /\ Established(d) /\ m.intact /\ m.from = channel[d].theirs /\ m.to = channel[d].mine
    /\ m.counter >= channel[d].highestReceived

\* openOne: the frame authenticates under the established channel and its counter is
\* greater than every one accepted.
Opens(d, m) ==
    /\ Established(d) /\ m.intact /\ m.from = channel[d].theirs /\ m.to = channel[d].mine
    /\ m.counter > channel[d].highestReceived

Open(d, m) ==
    IF Opens(d, m)
    THEN /\ channel' = [channel EXCEPT ![d].highestReceived = m.counter]
         /\ opened' = [opened EXCEPT ![d] = Append(@, m.frame)]
    ELSE UNCHANGED <<channel, opened>>

\* consume takes the next frame once the one before has been dealt with.
Receive(d) ==
    /\ applying[d] = NotApplying /\ wire[d] # <<>>
    /\ wire' = [wire EXCEPT ![d] = Tail(@)]
    /\ LET m == Head(wire[d]) IN
       \/ m.type = "hello" /\ VerifyHello(m) /\ ApplyHello(d, m.half) /\ UNCHANGED opened
       \/ m.type = "hello" /\ ~VerifyHello(m) /\ UNCHANGED <<half, begun, channel, applying, opened>>
       \/ m.type = "data" /\ Open(d, m) /\ UNCHANGED <<half, begun, applying>>
    /\ UNCHANGED <<waiting, sealed, disturbed>>

-----------------------------------------------------------------------------
(* What goes wrong.                                                          *)

\* The entry goes, and a handshake still waiting is rejected.
Drop(d) ==
    /\ half' = [half EXCEPT ![d] = None] /\ channel' = [channel EXCEPT ![d] = NoChannel]
    /\ waiting' = [waiting EXCEPT ![d] = @ \ {half[d]}]

\* forget: a relayed request timed out, also while a hello is being applied.
Forget(d) ==
    /\ Disturb("forget") /\ Drop(d)
    /\ UNCHANGED <<begun, applying, wire, sealed, opened>>

\* reset: the connection changed, which consume notices only between frames; what the
\* relay had for the old one is lost.
Reset(d) ==
    /\ Disturb("reset") /\ Drop(d)
    /\ applying[d] = NotApplying
    /\ wire' = [wire EXCEPT ![d] = <<>>]
    /\ UNCHANGED <<begun, applying, sealed, opened>>

Lose(d) ==
    /\ Disturb("lose") /\ wire[d] # <<>>
    /\ wire' = [wire EXCEPT ![d] = Tail(@)]
    /\ UNCHANGED <<half, channel, begun, waiting, applying, sealed, opened>>

\* A copy of a frame is carried again, later.
Repeat(d) ==
    /\ Disturb("repeat") /\ wire[d] # <<>>
    /\ Put(d, Head(wire[d]))
    /\ UNCHANGED <<half, channel, begun, waiting, applying, sealed, opened>>

\* Bytes of the next frame are changed on the way.
Spoil(d) ==
    /\ Disturb("spoil") /\ wire[d] # <<>>
    /\ wire' = [wire EXCEPT ![d] = <<[Head(@) EXCEPT !.intact = FALSE]>> \o Tail(@)]
    /\ UNCHANGED <<half, channel, begun, waiting, applying, sealed, opened>>

-----------------------------------------------------------------------------
SendsHello(d) == \E h \in Halves : SendHello(d, h)

Next == \E d \in Device :
    \/ Ensure(d) \/ SendsHello(d) \/ Receive(d) \/ Establish(d) \/ Seal(d)
    \/ Forget(d) \/ Reset(d) \/ Lose(d) \/ Repeat(d) \/ Spoil(d)
    \/ \E h \in Halves : HelloFails(d, h)

\* Each device deals with what arrived and finishes what it began.
Spec ==
    /\ Init /\ [][Next]_vars
    /\ \A d \in Device : WF_vars(Receive(d)) /\ WF_vars(Establish(d)) /\ WF_vars(SendsHello(d))

-----------------------------------------------------------------------------
(* Properties.                                                               *)

\* A device opens the frames of its peer in the order they were sealed and each at most
\* once, across channels that replace one another and frames carried twice (openOne).
OpenedInOrder ==
    \A d \in Device : \A i \in 2..Len(opened[d]) : opened[d][i - 1] < opened[d][i]

Agree == \A d \in Device : Established(d) /\ channel[d].mine = channel[Other(d)].theirs

\* Where nothing goes wrong, whoever waits for a channel gets it and the two sides agree
\* on it, also when both open at once.
UndisturbedAgree ==
    [](disturbed = 0) => \A d \in Device :
        waiting[d] # {} ~> [](Agree /\ waiting[d] = {})

\* What mesh-session says of a request that timed out: forgetting the peer costs one more
\* exchange, and the devices do not go on sending each other hellos.
HellosEnd ==
    <>[](\A d \in Device : \A m \in ToSet(wire[d]) : m.type # "hello")

=============================================================================
