---------------------------- MODULE MeshSession ----------------------------
(***************************************************************************)
(* One mesh session (createSessionCore): its connection life cycle, the    *)
(* handshake and reconnect timers, and the manage-requests it has sent,    *)
(* directly or through a relay to one peer.  Each step runs from one await *)
(* to the next; a send completes in the turn that issues it when its link  *)
(* is open and rejects otherwise.  Link identities are reused once nothing *)
(* refers to them.  The secure channel is the entry relay-channels keeps   *)
(* for the peer, its exchange of hellos taken as one step.  An accepted    *)
(* session is one whose only dial has just succeeded, without a policy.    *)
(***************************************************************************)
EXTENDS Integers, FiniteSets

CONSTANTS
    Link,         \* connections the transport can produce
    Request,      \* manage-requests, each sent once
    Relayed,      \* those with a targetDevice
    Timed,        \* those with a timeoutMs
    MaxAttempts   \* reconnect.maxAttempts; 0 is no reconnect policy

ASSUME SessionAssumption ==
    /\ Relayed \subseteq Request /\ Timed \subseteq Request
    /\ MaxAttempts \in Nat

VARIABLES
    status,          \* state.status
    connection,      \* the link the session sends on
    link,            \* a connection at the transport: free, dialling, open, ended
    wiring,          \* what wireUpConnection awaits on each link: none, handshake, advert
    consuming,       \* consume on each link: no, unheard, heard (heardFromPeer), or
                     \* left, when it returned or threw before onSessionEnd
    handshake,       \* the handshake's status
    handshakeTimer,  \* the link it was armed for
    reconnectTimer,
    attempt,
    feedCancelled,
    request,         \* where each sendManageRequest stands
    via,             \* the link a relay-connect was sent on
    pending,         \* pendingManageRequests
    pairing,         \* relayPairings has the peer
    channel          \* the peer's channel: none, starting (hello not sent), awaiting, established

lifeVars == <<status, connection, link, wiring, consuming, handshake, handshakeTimer,
              reconnectTimer, attempt, feedCancelled>>
requestVars == <<request, via, pending, pairing, channel>>
vars == <<lifeVars, requestVars>>

None == "none"
Settlements == {"answered", "timeout", "failed"}

Init ==
    /\ status = "idle" /\ connection = None
    /\ link = [l \in Link |-> "free"]
    /\ wiring = [l \in Link |-> None]
    /\ consuming = [l \in Link |-> "no"]
    /\ handshake = "pending"
    /\ handshakeTimer = None /\ reconnectTimer = FALSE
    /\ attempt = 0 /\ feedCancelled = FALSE
    /\ request = [r \in Request |-> "unsent"]
    /\ via = [r \in Request |-> None]
    /\ pending = {} /\ pairing = FALSE /\ channel = "none"

IsOpen(l) == l # None /\ link[l] = "open"
Reading(l) == consuming[l] \in {"unheard", "heard"}
Ensuring == {r \in Request : request[r] = "ensuring"}
Settle(rs, outcome) == [r \in Request |-> IF r \in rs THEN outcome ELSE request[r]]

-----------------------------------------------------------------------------
(* Losing and making connections.                                            *)

\* rejectPendingManageRequests: a request that waits for its channel has nobody
\* listening to its outcome yet, and goes on waiting.
RejectPending ==
    /\ request' = Settle({r \in pending : request[r] = "sent"}, "failed")
    /\ pending' = {}

\* Variant: an exhausted policy goes on reconnecting.
HandleDisconnectUnending ==
    /\ IF feedCancelled THEN UNCHANGED <<status, attempt, reconnectTimer, request, pending>>
       ELSE /\ RejectPending
            /\ attempt' = IF attempt < MaxAttempts THEN attempt + 1 ELSE attempt
            /\ status' = "reconnecting" /\ reconnectTimer' = TRUE
    /\ UNCHANGED <<via, pairing, channel>>

HandleDisconnect ==
    /\ IF feedCancelled THEN UNCHANGED <<status, attempt, reconnectTimer, request, pending>>
       ELSE /\ RejectPending
            /\ IF attempt < MaxAttempts
               THEN /\ attempt' = attempt + 1
                    /\ status' = "reconnecting" /\ reconnectTimer' = TRUE
               ELSE status' = "closed" /\ UNCHANGED <<attempt, reconnectTimer>>
    /\ UNCHANGED <<via, pairing, channel>>

\* A link nothing in the session refers to any more.
Unreferenced(l) ==
    /\ link[l] # "dialling" /\ l # connection
    /\ wiring[l] = None /\ ~Reading(l) /\ \A r \in Request : via[r] # l

\* doConnect up to its dial.
Dial ==
    /\ \E l \in Link :
          /\ Unreferenced(l)
          /\ link' = [link EXCEPT ![l] = "dialling"]
          /\ consuming' = [consuming EXCEPT ![l] = "no"]
    /\ handshakeTimer' = None
    /\ status' = "connecting"

\* connect: the application connects a session it has not closed, once, or again
\* after a dial that failed.
Connect ==
    /\ connection = None
    /\ status \in {"idle", "closed"} /\ ~feedCancelled
    /\ attempt' = 0
    /\ Dial
    /\ UNCHANGED <<connection, wiring, handshake, reconnectTimer, feedCancelled, requestVars>>

ReconnectTimerFires ==
    /\ reconnectTimer /\ reconnectTimer' = FALSE
    /\ Dial
    /\ UNCHANGED <<connection, wiring, handshake, attempt, feedCancelled, requestVars>>

DialFails(l) ==
    /\ link[l] = "dialling" /\ link' = [link EXCEPT ![l] = "ended"]
    /\ HandleDisconnect
    /\ UNCHANGED <<connection, wiring, consuming, handshake, handshakeTimer, feedCancelled>>

\* The dial of a session closed meanwhile: its link is closed again.
DialAfterClose(l) ==
    /\ link[l] = "dialling" /\ feedCancelled
    /\ link' = [link EXCEPT ![l] = "ended"]
    /\ UNCHANGED <<status, connection, wiring, consuming, handshake, handshakeTimer,
                   reconnectTimer, attempt, feedCancelled, requestVars>>

\* Variant: a session closed during its dial is wired up all the same.
DialSucceedsAnyway(l) ==
    /\ link[l] = "dialling"
    /\ link' = [link EXCEPT ![l] = "open"]
    /\ connection' = l /\ wiring' = [wiring EXCEPT ![l] = "handshake"]
    /\ handshake' = "pending" /\ status' = "connected"
    /\ channel' = "none" /\ pairing' = FALSE
    /\ request' = Settle(Ensuring, "failed") /\ pending' = pending \ Ensuring
    /\ UNCHANGED <<consuming, handshakeTimer, reconnectTimer, attempt, feedCancelled, via>>

\* wireUpConnection up to its first send: channels and pairings end with the
\* connection they were made on, and requests waiting for a channel fail.
DialSucceeds(l) ==
    /\ link[l] = "dialling" /\ ~feedCancelled
    /\ link' = [link EXCEPT ![l] = "open"]
    /\ connection' = l /\ wiring' = [wiring EXCEPT ![l] = "handshake"]
    /\ handshake' = "pending" /\ status' = "connected"
    /\ channel' = "none" /\ pairing' = FALSE
    /\ request' = Settle(Ensuring, "failed") /\ pending' = pending \ Ensuring
    /\ UNCHANGED <<consuming, handshakeTimer, reconnectTimer, attempt, feedCancelled, via>>

\* A send that was under way may complete although the link ended meanwhile.
WireHandshakeSent(l) ==
    /\ wiring[l] = "handshake"
    /\ wiring' = [wiring EXCEPT ![l] = "advert"]
    /\ UNCHANGED <<status, connection, link, consuming, handshake, handshakeTimer,
                   reconnectTimer, attempt, feedCancelled, requestVars>>

\* The self-advert is out: the handshake timer runs and frames are consumed.
WireAdvertSent(l) ==
    /\ wiring[l] = "advert"
    /\ wiring' = [wiring EXCEPT ![l] = None]
    /\ handshakeTimer' = l
    /\ consuming' = [consuming EXCEPT ![l] = "unheard"]
    /\ UNCHANGED <<status, connection, link, handshake, reconnectTimer, attempt, feedCancelled, requestVars>>

\* A send of wireUpConnection rejects: the failure of a connection like any other.
WireFails(l) ==
    /\ wiring[l] # None /\ ~IsOpen(l)
    /\ wiring' = [wiring EXCEPT ![l] = None]
    /\ HandleDisconnect
    /\ UNCHANGED <<connection, link, consuming, handshake, handshakeTimer, feedCancelled>>

LinkEnds(l) ==
    /\ link[l] = "open" /\ link' = [link EXCEPT ![l] = "ended"]
    /\ UNCHANGED <<status, connection, wiring, consuming, handshake, handshakeTimer,
                   reconnectTimer, attempt, feedCancelled, requestVars>>

\* consume is over, cleanly or not.
ConsumeEnds(l, how) ==
    /\ Reading(l) /\ consuming' = [consuming EXCEPT ![l] = how]
    /\ IF status = "connected" THEN HandleDisconnect
       ELSE UNCHANGED <<status, attempt, reconnectTimer, requestVars>>
    /\ UNCHANGED <<connection, link, wiring, handshake, handshakeTimer, feedCancelled>>

\* The stream ends cleanly, and the end is reported, or with an error.
StreamEnds(l) == ~IsOpen(l) /\ \E how \in {"no", "left"} : ConsumeEnds(l, how)
\* The handling of a frame throws: the stream is not read again, its link stays open.
FrameThrows(l) == IsOpen(l) /\ ConsumeEnds(l, "left")
\* A frame the link still held when the session was closed.
FrameAfterClose(l) ==
    /\ feedCancelled /\ Reading(l)
    /\ consuming' = [consuming EXCEPT ![l] = "left"]
    /\ UNCHANGED <<status, connection, link, wiring, handshake, handshakeTimer,
                   reconnectTimer, attempt, feedCancelled, requestVars>>

HandshakeTimerFires ==
    /\ handshakeTimer # None /\ handshakeTimer' = None
    /\ handshake' = IF handshake = "pending" THEN "unanswered" ELSE handshake
    /\ UNCHANGED <<status, connection, link, wiring, consuming, reconnectTimer, attempt,
                   feedCancelled, requestVars>>

\* close up to its await of the connection's close.
Close ==
    /\ status # "idle" /\ ~feedCancelled /\ feedCancelled' = TRUE
    /\ handshakeTimer' = None /\ reconnectTimer' = FALSE
    /\ request' = Settle(Ensuring \cup {r \in pending : request[r] = "sent"}, "failed")
    /\ pending' = {} /\ channel' = "none"
    /\ link' = IF connection = None THEN link ELSE [link EXCEPT ![connection] = "ended"]
    /\ UNCHANGED <<status, connection, wiring, consuming, handshake, attempt, via, pairing>>

CloseDone ==
    /\ feedCancelled /\ status \in {"connected", "connecting", "reconnecting"}
    /\ status' = "closed"
    /\ UNCHANGED <<connection, link, wiring, consuming, handshake, handshakeTimer,
                   reconnectTimer, attempt, feedCancelled, requestVars>>

-----------------------------------------------------------------------------
(* Frames and requests.                                                      *)

\* Variant: the attempts are never counted afresh.
HeardUncounted(l) ==
    /\ Reading(l) /\ ~feedCancelled
    /\ consuming' = [consuming EXCEPT ![l] = "heard"]
    /\ UNCHANGED attempt
    /\ UNCHANGED <<status, connection, link, wiring, reconnectTimer, feedCancelled>>

\* consume takes a frame; the first one of a connection ends its attempts.
Heard(l) ==
    /\ Reading(l) /\ ~feedCancelled
    /\ consuming' = [consuming EXCEPT ![l] = "heard"]
    /\ attempt' = IF consuming[l] = "unheard" THEN 0 ELSE attempt
    /\ UNCHANGED <<status, connection, link, wiring, reconnectTimer, feedCancelled>>

HandshakeArrives(l) ==
    /\ Heard(l)
    /\ IF handshake = "pending" THEN handshake' = "answered" /\ handshakeTimer' = None
       ELSE UNCHANGED <<handshake, handshakeTimer>>
    /\ UNCHANGED requestVars

RelayInboundArrives(l) ==
    /\ Heard(l) /\ pairing' = TRUE
    /\ UNCHANGED <<handshake, handshakeTimer, request, via, pending, channel>>

\* The peer's hello completes the handshake: the requests that waited for the
\* channel are sealed and sent.
HelloArrives(l) ==
    /\ Heard(l) /\ channel' = "established"
    /\ IF IsOpen(connection)
       THEN request' = Settle(Ensuring, "sent") /\ UNCHANGED pending
       ELSE request' = Settle(Ensuring, "failed") /\ pending' = pending \ Ensuring
    /\ UNCHANGED <<handshake, handshakeTimer, via, pairing>>

\* A relayed response counts only when it opens under the peer's channel.
ResponseArrives(l, r) ==
    /\ Heard(l) /\ r \in pending /\ request[r] = "sent"
    /\ r \in Relayed => channel = "established"
    /\ pending' = pending \ {r} /\ request' = Settle({r}, "answered")
    /\ UNCHANGED <<handshake, handshakeTimer, via, pairing, channel>>

\* Variant: the request is registered only once it has been sent.
ExchangeUnregistered(r) ==
    \/ /\ r \notin Relayed \/ channel = "established"
       /\ IF IsOpen(connection)
          THEN request' = Settle({r}, "sent") /\ pending' = pending \cup {r}
          ELSE request' = Settle({r}, "failed") /\ UNCHANGED pending
       /\ UNCHANGED channel
    \/ /\ r \in Relayed /\ channel # "established"
       /\ request' = Settle({r}, "ensuring") /\ UNCHANGED pending
       /\ channel' = IF channel = "none" THEN "starting" ELSE channel

\* The rest of sendManageRequest once a relayed request has its pairing: the request
\* is pending, and goes out at once, waits for the channel, or fails.
Exchange(r) ==
    \/ /\ r \notin Relayed \/ channel = "established"
       /\ IF IsOpen(connection)
          THEN request' = Settle({r}, "sent") /\ pending' = pending \cup {r}
          ELSE request' = Settle({r}, "failed") /\ UNCHANGED pending
       /\ UNCHANGED channel
    \/ /\ r \in Relayed /\ channel # "established"
       /\ request' = Settle({r}, "ensuring") /\ pending' = pending \cup {r}
       /\ channel' = IF channel = "none" THEN "starting" ELSE channel

SendManageRequest(r) ==
    /\ request[r] = "unsent"
    /\ connection # None /\ status = "connected"
    /\ \/ (r \in Relayed => pairing) /\ Exchange(r) /\ UNCHANGED via
       \/ /\ r \in Relayed /\ ~pairing
          /\ IF IsOpen(connection)
             THEN request' = Settle({r}, "pairing") /\ via' = [via EXCEPT ![r] = connection]
             ELSE request' = Settle({r}, "failed") /\ UNCHANGED via
          /\ UNCHANGED <<pending, channel>>
    /\ UNCHANGED <<lifeVars, pairing>>

\* The relay-connect is out, on the connection the session still has.
PairingSent(r) ==
    /\ request[r] = "pairing" /\ (IsOpen(via[r]) \/ via[r] = connection)
    /\ pairing' = TRUE /\ via' = [via EXCEPT ![r] = None]
    /\ Exchange(r)
    /\ UNCHANGED lifeVars

PairingFails(r) ==
    /\ request[r] = "pairing" /\ ~IsOpen(via[r])
    /\ request' = Settle({r}, "failed") /\ via' = [via EXCEPT ![r] = None]
    /\ UNCHANGED <<lifeVars, pending, pairing, channel>>

\* start's hello goes out on whatever connection there is, or takes the channel and
\* the requests that wait for it down.
HelloSent ==
    /\ channel = "starting"
    /\ IF IsOpen(connection)
       THEN channel' = "awaiting" /\ UNCHANGED <<request, pending>>
       ELSE /\ channel' = "none"
            /\ request' = Settle(Ensuring, "failed") /\ pending' = pending \ Ensuring
    /\ UNCHANGED <<lifeVars, via, pairing>>

\* A request's timer: what was relayed takes its pairing and its channel with it, and
\* with the channel the requests that wait for it.
RequestTimerFires(r) ==
    /\ r \in Timed \cap pending
    /\ IF r \in Relayed
       THEN /\ pairing' = FALSE /\ channel' = "none"
            /\ pending' = pending \ (Ensuring \cup {r})
            /\ request' = [Settle(Ensuring, "failed") EXCEPT ![r] = "timeout"]
       ELSE /\ pending' = pending \ {r} /\ request' = Settle({r}, "timeout")
            /\ UNCHANGED <<pairing, channel>>
    /\ UNCHANGED <<lifeVars, via>>

-----------------------------------------------------------------------------
Wire(l) == DialFails(l) \/ DialAfterClose(l) \/ DialSucceeds(l)
           \/ WireHandshakeSent(l) \/ WireAdvertSent(l) \/ WireFails(l)
Arrives(l) == \/ HandshakeArrives(l) \/ RelayInboundArrives(l) \/ HelloArrives(l)
              \/ \E r \in Request : ResponseArrives(l, r)
Pair(r) == PairingSent(r) \/ PairingFails(r)

Next ==
    \/ Connect \/ Close \/ CloseDone \/ ReconnectTimerFires \/ HandshakeTimerFires \/ HelloSent
    \/ \E l \in Link : \/ Wire(l) \/ LinkEnds(l) \/ StreamEnds(l) \/ FrameThrows(l)
                       \/ FrameAfterClose(l) \/ Arrives(l)
    \/ \E r \in Request : SendManageRequest(r) \/ Pair(r) \/ RequestTimerFires(r)

\* Timers fire, dials and sends come to an end, and an ended stream is noticed; frames,
\* the ends of links and the application's calls are not promised.
Fairness ==
    /\ WF_vars(ReconnectTimerFires) /\ WF_vars(HandshakeTimerFires)
    /\ WF_vars(HelloSent) /\ WF_vars(CloseDone)
    /\ \A l \in Link : WF_vars(Wire(l)) /\ WF_vars(StreamEnds(l))
    /\ \A r \in Request : WF_vars(Pair(r)) /\ WF_vars(RequestTimerFires(r))

Spec == Init /\ [][Next]_vars /\ Fairness

-----------------------------------------------------------------------------
(* Properties.                                                               *)

\* close is final: a dial, a send or a stream that ends after it neither revives the
\* session nor gives it another connection.
ClosedStaysClosed ==
    [][feedCancelled => status' \in {status, "closed"} /\ connection' = connection]_vars

\* A session whose peer has spoken on the connection just lost redials it, however many
\* reconnects came before (the reset of attempt in consume).
LivelyPeerIsRedialled ==
    [][\A l \in Link :
         (/\ consuming[l] = "heard" /\ ~Reading(l)'
          /\ status = "connected" /\ status' = "closed" /\ ~feedCancelled)
         => MaxAttempts = 0]_vars

\* A peer that never says a word is given up: a session reconnects for ever only if
\* frames keep coming on its connections.
SilentPeerIsGivenUp ==
    []<>(status = "reconnecting") =>
        []<>(status = "closed" \/ \E l \in Link : consuming[l] = "heard")

\* Unless the session gives its peer up, a request with a timeout is settled, whether it
\* waits for a pairing, for its channel or for an answer.
TimedSettleUnlessGivenUp ==
    \A r \in Timed : request[r] \in {"pairing", "ensuring", "sent"}
        ~> (request[r] \in Settlements \/ (status = "closed" /\ ~feedCancelled))

=============================================================================
