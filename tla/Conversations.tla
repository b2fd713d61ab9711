---- MODULE Conversations ----
(***************************************************************************)
(* One conversation of the web console: the reducer that keeps it          *)
(* (conversations.ts), the message store (message-store.ts), and what the  *)
(* hook dispatches to them while routes come and go, the stored history is *)
(* read back, messages arrive and messages are sent                        *)
(* (hooks/use-room-messaging.ts).                                          *)
(*                                                                         *)
(* A message is a number that stands for its time and id, so that the      *)
(* order of messages is the order of the numbers.                          *)
(***************************************************************************)
EXTENDS Naturals, FiniteSets, SequencesExt

CONSTANTS
    Session,   \* direct sessions, numbered from 1
    Incoming,  \* messages the peer sends
    Outgoing   \* messages this console's user sends

Message == Incoming \union Outgoing

VARIABLES
    conv,       \* the reducer's entry for the conversation
    stored,     \* the messages in storage
    attaching,  \* attaching[s]: where attach() is with session s
    listing,    \* histories read back and not yet dispatched
    appending,  \* received messages whose write is under way
    sending,    \* sending[m]: where the attempt to send m is
    unseen      \* messages received since the conversation was last read

convVars == <<conv, stored, attaching, listing, appending, sending, unseen>>

(***************************************************************************)
(* reduceConversations, by action type.                                    *)
(***************************************************************************)
Blank == [present |-> FALSE, direct |-> 0, relay |-> FALSE, messages |-> <<>>,
          unread |-> 0, outgoing |-> [m \in {} |-> "none"]]

MergeMessages(existing, incoming) ==
    LET added == SelectSeq(incoming, LAMBDA m : m \notin ToSet(existing))
    IN IF added = <<>> THEN existing ELSE SortSeq(existing \o added, <)

DirectOpened(e, s) == [e EXCEPT !.present = TRUE, !.direct = s]
RelayOpened(e) == [e EXCEPT !.present = TRUE, !.relay = TRUE]
DirectClosed(e) == [e EXCEPT !.direct = 0]
HubClosed(e) == [e EXCEPT !.relay = FALSE]

\* Variant: what was read back replaces what is shown.
RestoredReplacing(e, history) ==
    [e EXCEPT !.present = TRUE, !.messages = MergeMessages(<<>>, history)]

Restored(e, history) ==
    [e EXCEPT !.present = TRUE, !.messages = MergeMessages(@, history)]

\* Only a message that is new, and received, is unread.
MessageAdded(e, m, direction) ==
    IF ~ e.present THEN e
    ELSE [e EXCEPT
        !.messages = MergeMessages(@, <<m>>),
        !.unread = IF direction = "received" /\ m \notin ToSet(e.messages)
                   THEN @ + 1 ELSE @]

OutgoingSet(e, m, status) ==
    IF ~ e.present THEN e
    ELSE [e EXCEPT !.outgoing = [n \in DOMAIN @ \union {m} |-> IF n = m THEN status ELSE @[n]]]
OutgoingRemoved(e, m) ==
    [e EXCEPT !.outgoing = [n \in DOMAIN @ \ {m} |-> @[n]]]

\* messageStore.list: by time and id, whatever order they were written in.
MessageList == SetToSortSeq(stored, <)

ConvInit ==
    /\ stored \in SUBSET Incoming
    /\ conv = Blank
    /\ attaching = [s \in Session |-> "none"]
    /\ listing = {MessageList}
    /\ appending = {}
    /\ sending = [m \in Outgoing |-> "none"]
    /\ unseen = {}

Connected == conv.direct # 0 \/ conv.relay

(***************************************************************************)
(* Routes.                                                                 *)
(***************************************************************************)
\* attach() is called: the conversations it will look at are those of now.
AttachStart(s) ==
    /\ attaching[s] = "none"
    /\ attaching' = [attaching EXCEPT
            ![s] = IF conv.direct = 0 THEN "sawNone" ELSE "sawDirect"]
    /\ UNCHANGED <<conv, stored, listing, appending, sending, unseen>>

\* The session is accepted: it becomes the direct route, and the history is
\* read, or it yields to the route that was seen and is closed.
AttachAccepted(s) ==
    /\ \/ /\ attaching[s] = "sawDirect"
          /\ attaching' = [attaching EXCEPT ![s] = "closed"]
          /\ UNCHANGED <<conv, listing>>
       \/ /\ attaching[s] = "sawNone"
          /\ attaching' = [attaching EXCEPT ![s] = "open"]
          /\ conv' = DirectOpened(conv, s)
          /\ listing' = listing \union {MessageList}
    /\ UNCHANGED <<stored, appending, sending, unseen>>

SessionClosed(s) ==
    /\ attaching[s] = "open"
    /\ attaching' = [attaching EXCEPT ![s] = "closed"]
    /\ conv' = DirectClosed(conv)
    /\ UNCHANGED <<stored, listing, appending, sending, unseen>>

OpenRelay ==
    /\ ~ conv.relay
    /\ conv' = RelayOpened(conv)
    /\ listing' = listing \union {MessageList}
    /\ UNCHANGED <<stored, attaching, appending, sending, unseen>>

DropHub ==
    /\ conv.relay
    /\ conv' = HubClosed(conv)
    /\ UNCHANGED <<stored, attaching, listing, appending, sending, unseen>>

\* A history that was read is dispatched: at the start, or with a route.
RestoreDispatched(history) ==
    /\ history \in listing
    /\ listing' = listing \ {history}
    /\ conv' = Restored(conv, history)
    /\ UNCHANGED <<stored, attaching, appending, sending, unseen>>

(***************************************************************************)
(* Messages received, read, and sent.                                      *)
(***************************************************************************)
\* onMessage: the write is begun, the message shown.
OnMessage(m) ==
    /\ Connected
    /\ m \in Incoming \ (stored \union appending)
    /\ appending' = appending \union {m}
    /\ conv' = MessageAdded(conv, m, "received")
    /\ unseen' = unseen \union {m}
    /\ UNCHANGED <<stored, attaching, listing, sending>>

Appended(m) ==
    /\ m \in appending
    /\ appending' = appending \ {m}
    /\ stored' = stored \union {m}
    /\ UNCHANGED <<conv, attaching, listing, sending, unseen>>

MarkRead ==
    /\ unseen # {}
    /\ unseen' = {}
    /\ conv' = [conv EXCEPT !.unread = 0]
    /\ UNCHANGED <<stored, attaching, listing, appending, sending>>

\* send, and retry of what failed.
Attempt(m) ==
    /\ conv.present
    /\ \/ sending[m] = "none"
       \/ m \in DOMAIN conv.outgoing /\ conv.outgoing[m] = "failed"
    /\ sending' = [sending EXCEPT ![m] = "delivering"]
    /\ conv' = OutgoingSet(conv, m, "sending")
    /\ UNCHANGED <<stored, attaching, listing, appending, unseen>>

\* deliver, which throws without a route.  A message that was sent is stored
\* before it is shown.
Deliver(m, ok) ==
    /\ sending[m] = "delivering"
    /\ ok => Connected
    /\ sending' = [sending EXCEPT ![m] = IF ok THEN "delivered" ELSE "over"]
    /\ stored' = IF ok THEN stored \union {m} ELSE stored
    /\ conv' = IF ok THEN conv ELSE OutgoingSet(conv, m, "failed")
    /\ UNCHANGED <<attaching, listing, appending, unseen>>

AttemptSucceeds(m) ==
    /\ sending[m] = "delivered"
    /\ sending' = [sending EXCEPT ![m] = "over"]
    /\ conv' = OutgoingRemoved(MessageAdded(conv, m, "sent"), m)
    /\ UNCHANGED <<stored, attaching, listing, appending, unseen>>

Discard(m) ==
    /\ m \in DOMAIN conv.outgoing
    /\ conv.outgoing[m] = "failed"
    /\ conv' = OutgoingRemoved(conv, m)
    /\ sending' = [sending EXCEPT ![m] = "discarded"]
    /\ UNCHANGED <<stored, attaching, listing, appending, unseen>>

ConvNext ==
    \/ \E s \in Session : AttachStart(s) \/ AttachAccepted(s) \/ SessionClosed(s)
    \/ OpenRelay
    \/ DropHub
    \/ \E history \in listing : RestoreDispatched(history)
    \/ \E m \in Incoming : OnMessage(m) \/ Appended(m)
    \/ MarkRead
    \/ \E m \in Outgoing :
        \/ Attempt(m)
        \/ \E ok \in BOOLEAN : Deliver(m, ok)
        \/ AttemptSucceeds(m)
        \/ Discard(m)

ConvSpec == ConvInit /\ [][ConvNext]_convVars

(***************************************************************************)
(* Properties.                                                             *)
(***************************************************************************)
\* Whatever order histories, arrivals and attempts are dispatched in, the
\* conversation shows each message once, in order; all that is stored once
\* the histories are in; a message its user sent stays in sight, as pending,
\* failed or sent, until it is dismissed; and unread counts what came since
\* the last reading (mergeMessages, reduceConversations, attempt).
ConversationShowsItAll ==
    LET shown == ToSet(conv.messages) IN
    /\ \A i, j \in DOMAIN conv.messages : i < j => conv.messages[i] < conv.messages[j]
    /\ listing = {} =>
        stored \subseteq shown \union {m \in Outgoing : sending[m] = "delivered"}
    /\ \A m \in Outgoing : sending[m] \notin {"none", "discarded"} =>
        m \in shown \union DOMAIN conv.outgoing
    /\ appending \subseteq shown
    /\ conv.unread = Cardinality(unseen)
====
