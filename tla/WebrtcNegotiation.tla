---- MODULE WebrtcNegotiation ----
(***************************************************************************)
(* Two consoles negotiate WebRTC connections over one session              *)
(* (web-console/src/webrtc-negotiation.ts, core/domain/webrtc-signaling.ts)*)
(* Each numbers the negotiations it starts from 0, keeps one map of peer   *)
(* connections for both roles it plays, and handles one signal at a time.  *)
(*                                                                         *)
(* A negotiation is who started it and its number.  A peer connection is   *)
(* the negotiation it was made for; the browser's part is external.        *)
(***************************************************************************)
EXTENDS Naturals, Sequences

CONSTANT
    MaxStarted     \* bound: MaxStarted[d] negotiations are started by d

Side == {"left", "right"}
Other(d) == IF d = "left" THEN "right" ELSE "left"
Ids == 0 .. MaxStarted["left"] - 1
Negotiation == [by : Side, id : Ids]

VARIABLES
    nextId,     \* nextId[d]: the next negotiation id
    connections,\* connections[d][i]: the negotiation whose peer connection d
                \* keeps under id i, or NoNegotiation
    signaling,  \* signaling[d][n]: the signaling state of d's connection for n
    initiating, \* initiating[d][n]: where initiate() is with n
    queue,      \* queue[d]: the signals d has yet to handle
    consumer,   \* consumer[d]: what d's consumer is doing
    gathering,  \* gathering[d]: negotiations whose candidate d has yet to send
    misapplied  \* signals applied to a connection of another negotiation, with it

rtcVars == <<nextId, connections, signaling, initiating, queue, consumer,
             gathering, misapplied>>

NoNegotiation == [by |-> "none", id |-> 0]
Ready == [at |-> "ready", for |-> NoNegotiation]
Ended == [at |-> "ended", for |-> NoNegotiation]

\* Variant: every negotiation is given the same id.
WireIdReused(n) == 0

\* The id a negotiation goes by on the wire: the side's allocator counts.
WireId(n) == n.id

RtcInit ==
    /\ nextId = [d \in Side |-> 0]
    /\ connections = [d \in Side |-> [i \in Ids |-> NoNegotiation]]
    /\ signaling = [d \in Side |-> [n \in Negotiation |-> "none"]]
    /\ initiating = [d \in Side |-> [n \in Negotiation |-> "none"]]
    /\ queue = [d \in Side |-> <<>>]
    /\ consumer = [d \in Side |-> Ready]
    /\ gathering = [d \in Side |-> {}]
    /\ misapplied = {}

\* A signal carries the id of its negotiation, not who started it; that is
\* here to say which negotiation it belongs to.
Signal(kind, n) == [kind |-> kind, for |-> n]
SignalTo(d, signal) == [queue EXCEPT ![d] = Append(@, signal)]

(***************************************************************************)
(* initiate(): an id, a peer connection, a local offer; then the offer is  *)
(* sent and answered, and the channel opens.                               *)
(***************************************************************************)
Initiate(d) ==
    LET n == [by |-> d, id |-> nextId[d]] IN
    /\ nextId[d] < MaxStarted[d]
    /\ nextId' = [nextId EXCEPT ![d] = @ + 1]
    /\ connections' = [connections EXCEPT ![d][WireId(n)] = n]
    /\ signaling' = [signaling EXCEPT ![d][n] = "offering"]
    /\ initiating' = [initiating EXCEPT ![d][n] = "minting"]
    /\ gathering' = [gathering EXCEPT ![d] = @ \union {n}]
    /\ UNCHANGED <<queue, consumer, misapplied>>

SendOffer(d, n) ==
    /\ initiating[d][n] = "minting"
    /\ initiating' = [initiating EXCEPT ![d][n] = "offered"]
    /\ queue' = SignalTo(Other(d), Signal("offer", n))
    /\ UNCHANGED <<nextId, connections, signaling, consumer, gathering, misapplied>>

\* The browser has a candidate for a connection with a local description: it
\* is sent at once, which may be before the offer.
SendIceCandidate(d, n) ==
    /\ n \in gathering[d]
    /\ gathering' = [gathering EXCEPT ![d] = @ \ {n}]
    /\ queue' = SignalTo(Other(d), Signal("candidate", n))
    /\ UNCHANGED <<nextId, connections, signaling, initiating, consumer, misapplied>>

\* The outcome of the offer: refused, the negotiation is forgotten.
OfferAnswered(d, n, ok) ==
    /\ initiating' = [initiating EXCEPT ![d][n] = IF ok THEN "waiting" ELSE "refused"]
    /\ IF ok THEN UNCHANGED <<connections, signaling>>
       ELSE /\ connections' = [connections EXCEPT ![d][WireId(n)] = NoNegotiation]
            /\ signaling' = [signaling EXCEPT ![d][n] = "closed"]

(***************************************************************************)
(* consumeIncoming: one signal after another.                              *)
(***************************************************************************)
Taken(d) == /\ consumer[d] = Ready
            /\ queue[d] # <<>>
            /\ queue' = [queue EXCEPT ![d] = Tail(@)]

\* An offer without a token that verifies is refused.
RefuseOffer(d) ==
    /\ Taken(d)
    /\ Head(queue[d]).kind = "offer"
    /\ OfferAnswered(Other(d), Head(queue[d]).for, FALSE)
    /\ UNCHANGED <<nextId, consumer, gathering, misapplied>>

\* The id becomes this negotiation's, whatever it was before.  Once the
\* answer is the local description, candidates may be sent.
HandleOffer(d) ==
    LET n == Head(queue[d]).for IN
    /\ Taken(d)
    /\ Head(queue[d]).kind = "offer"
    /\ connections' = [connections EXCEPT ![d][WireId(n)] = n]
    /\ signaling' = [signaling EXCEPT ![d][n] = "stable"]
    /\ gathering' = [gathering EXCEPT ![d] = @ \union {n}]
    /\ consumer' = [consumer EXCEPT ![d] = [at |-> "responding", for |-> n]]
    /\ UNCHANGED <<nextId, initiating, misapplied>>

\* The offer is acknowledged and the answer sent; the consumer then waits
\* until the answer is acknowledged.
SendAnswer(d) ==
    LET n == consumer[d].for IN
    /\ consumer[d].at = "responding"
    /\ consumer' = [consumer EXCEPT ![d].at = "answering"]
    /\ OfferAnswered(Other(d), n, TRUE)
    /\ queue' = SignalTo(Other(d), Signal("answer", n))
    /\ UNCHANGED <<nextId, gathering, misapplied>>

\* The connection the id finds, and whether it is the signal's own.
Found(d, signal) == connections[d][WireId(signal.for)]
Misapplied(d, signal) ==
    misapplied \union (IF Found(d, signal) \in {NoNegotiation, signal.for} THEN {}
                       ELSE {[signal |-> signal, found |-> Found(d, signal)]})

\* A connection that is not waiting for an answer throws: the consumer ends.
HandleAnswer(d) ==
    LET signal == Head(queue[d])
        found == Found(d, signal)
    IN
    /\ Taken(d)
    /\ signal.kind = "answer"
    /\ IF found # NoNegotiation /\ signaling[d][found] # "offering"
       THEN /\ consumer' = [consumer EXCEPT ![d] = Ended]
            /\ UNCHANGED signaling
       ELSE /\ consumer' = [consumer EXCEPT ![Other(d)] = Ready]
            /\ signaling' = IF found = NoNegotiation THEN signaling
                            ELSE [signaling EXCEPT ![d][found] = "stable"]
    /\ misapplied' = Misapplied(d, signal)
    /\ UNCHANGED <<nextId, connections, initiating, gathering>>

\* A candidate for a connection with no remote description throws as well.
HandleIceCandidate(d) ==
    LET signal == Head(queue[d])
        found == Found(d, signal)
    IN
    /\ Taken(d)
    /\ signal.kind = "candidate"
    /\ consumer' = IF found # NoNegotiation /\ signaling[d][found] = "offering"
                   THEN [consumer EXCEPT ![d] = Ended]
                   ELSE consumer
    /\ misapplied' = Misapplied(d, signal)
    /\ UNCHANGED <<nextId, connections, signaling, initiating, gathering>>

\* The browser opens the channel of a negotiation settled on both sides.
ChannelOpens(d, n) ==
    /\ initiating[d][n] = "waiting"
    /\ \A e \in Side : signaling[e][n] = "stable"
    /\ initiating' = [initiating EXCEPT ![d][n] = "open"]
    /\ UNCHANGED <<nextId, connections, signaling, queue, consumer, gathering, misapplied>>

RtcNext ==
    \/ \E d \in Side :
        \/ Initiate(d)
        \/ \E n \in Negotiation :
            SendOffer(d, n) \/ SendIceCandidate(d, n) \/ ChannelOpens(d, n)
        \/ RefuseOffer(d)
        \/ HandleOffer(d)
        \/ SendAnswer(d)
        \/ HandleAnswer(d)
        \/ HandleIceCandidate(d)

RtcSpec == RtcInit /\ [][RtcNext]_rtcVars

(***************************************************************************)
(* Properties.                                                             *)
(***************************************************************************)
\* However offers, answers and candidates of several negotiations interleave,
\* a signal is never applied to the peer connection of another negotiation of
\* the side that started its own: the only one it can be taken for is one the
\* other side started under the same id (the map peerConnections, kept by id
\* alone; handleIncomingAnswer, handleIncomingIceCandidate).
SignalsStayWithTheirSide ==
    \A m \in misapplied : m.found.by # m.signal.for.by
====
