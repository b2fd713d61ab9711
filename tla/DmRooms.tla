---- MODULE DmRooms ----
(***************************************************************************)
(* A direct-message room between two consoles, over one link between them: *)
(* consent to join (room-client.ts over capability-request.ts), the        *)
(* delivery of the room's first content key (notices.ts, room-rekey.ts),   *)
(* messages, and encrypted notices (notice-board.ts), as the console's     *)
(* hook drives them (hooks/use-room-messaging.ts).                         *)
(*                                                                         *)
(* The lower participant mints the key.  A console is reloaded at any      *)
(* time: what it stored stays (persistent-room-state.ts), the rest goes.   *)
(* Keys and messages are numbers.  A token is none, valid or lapsed        *)
(* (expired or revoked); it is issued by the peer.                         *)
(***************************************************************************)
EXTENDS Naturals, Sequences, FiniteSets

CONSTANTS
    MaxMinted,   \* bound: keys minted
    MaxAttempt,  \* bound: messages sent
    MaxNotice,   \* bound: notices one console posts
    MaxMishap    \* bound: reloads, lost links and lapsed tokens, together

Console == {"lower", "upper"}
Peer(c) == IF c = "lower" THEN "upper" ELSE "lower"
Kind == {"join", "rekey", "send"}

VARIABLES
    linked,    \* the route between them is up
    request,   \* request[c][k]: c's request of kind k: none, sent, ok, error
    memory,    \* memory[c]: what a reload of c loses
    storage,   \* storage[c]: what it keeps
    approved,  \* approved[c]: c's user has let the peer join
    minted,    \* how many keys were minted
    attempts,  \* how many messages were sent
    lost,      \* messages whose receiver was reloaded before keeping them
    mishaps    \* how many reloads, lost links and lapsed tokens there were

roomVars == <<linked, request, memory, storage, approved, minted, attempts, lost, mishaps>>

NoTask == [op |-> "none", pc |-> "idle", message |-> 0]
NoDelivery == [pc |-> "none", minting |-> FALSE, key |-> 0]
NoRekey == [pc |-> "none", key |-> 0, live |-> FALSE]

\* tokenRef and the conversation's token, the user's send or post, the
\* delivery of the first epoch under way, a rekey being handled, a message
\* answered and not yet kept, a join just decided.
Fresh == [ref |-> "none", view |-> "none", task |-> NoTask, delivery |-> NoDelivery,
          rekey |-> NoRekey, unkept |-> 0, decided |-> FALSE]
Empty == [token |-> "none", key |-> 0, delivered |-> FALSE,
          sent |-> {}, received |-> {}, notices |-> <<>>]

RoomsInit ==
    /\ linked = TRUE
    /\ request = [c \in Console |-> [k \in Kind |-> "none"]]
    /\ memory = [c \in Console |-> Fresh]
    /\ storage = [c \in Console |-> Empty]
    /\ approved = [c \in Console |-> FALSE]
    /\ minted = 0
    /\ attempts = 0
    /\ lost = {}
    /\ mishaps = 0

\* verifyRoomToken of a token for this room: who issued it and to whom, its
\* scope and the root of its chain are right here, so that only time and
\* revocation can make it fail.
VerifyRoomToken(token) == token = "valid"

\* A request of c's peer's is the next its router takes.
Arrived(c, kind) == linked /\ request[Peer(c)][kind] = "sent"

\* heldToken: the one in memory as it is, or the stored one if it verifies.
HeldToken(c) ==
    IF memory[c].ref # "none" THEN memory[c].ref
    ELSE IF storage[c].token = "valid" THEN "valid" ELSE "none"

\* tokenStore.get deletes a token that no longer verifies.
StorageAfterHeld(c) ==
    IF memory[c].ref = "none" /\ storage[c].token = "lapsed"
    THEN [storage EXCEPT ![c].token = "none"] ELSE storage

\* deliverFirstEpoch: one delivery at a time, and only the lower side's does
\* anything.
DeliverFirstEpoch(c) ==
    IF c = "upper" \/ memory[c].delivery.pc # "none" THEN memory[c].delivery
    ELSE [NoDelivery EXCEPT !.pc = "reading"]

\* Where a task goes that has a token and calls deliverFirstEpoch.
AtEpoch(c, op) ==
    [NoTask EXCEPT !.op = op, !.pc = IF c = "upper" THEN "keyed" ELSE "epoch"]

(***************************************************************************)
(* Sending a message and posting a notice.                                 *)
(***************************************************************************)
SendRoomMessage(c) ==
    /\ attempts < MaxAttempt
    /\ attempts' = attempts + 1
    /\ request' = [request EXCEPT ![c]["send"] = "sent"]
    /\ memory' = [memory EXCEPT
            ![c].task = [op |-> "send", pc |-> "sending", message |-> attempts + 1]]

RequestToJoin(c, op) ==
    /\ request' = [request EXCEPT ![c]["join"] = "sent"]
    /\ memory' = [memory EXCEPT ![c].task = [NoTask EXCEPT !.op = op, !.pc = "joining"]]
    /\ UNCHANGED attempts

\* deliver: the conversation's token, or a join first.
Send(c) ==
    /\ linked
    /\ memory[c].task.pc = "idle"
    /\ IF memory[c].view # "none" THEN SendRoomMessage(c) ELSE RequestToJoin(c, "send")
    /\ UNCHANGED <<linked, storage, approved, minted, lost, mishaps>>

\* postNotice: the conversation's token, the held one, or a join first.
PostNotice(c) ==
    /\ linked
    /\ memory[c].task.pc = "idle"
    /\ IF memory[c].view = "none" /\ HeldToken(c) = "none"
       THEN RequestToJoin(c, "post")
       ELSE /\ memory' = [memory EXCEPT
                    ![c].ref = IF memory[c].view = "none" THEN HeldToken(c) ELSE @,
                    ![c].task = AtEpoch(c, "post"),
                    ![c].delivery = DeliverFirstEpoch(c)]
            /\ UNCHANGED <<request, attempts>>
    /\ storage' = IF memory[c].view = "none" THEN StorageAfterHeld(c) ELSE storage
    /\ UNCHANGED <<linked, approved, minted, lost, mishaps>>

\* The answer to a join: a token minted for the asker, or a refusal.
AnswerJoin(c, accept) ==
    request' = [request EXCEPT ![Peer(c)]["join"] = IF accept THEN "ok" ELSE "error"]

\* c's user lets the peer join, or does not, or not in time.
DecideJoin(c, accept) ==
    /\ Arrived(c, "join")
    /\ AnswerJoin(c, accept)
    /\ approved' = [approved EXCEPT ![c] = @ \/ accept]
    /\ memory' = [memory EXCEPT ![c].decided = TRUE]
    /\ UNCHANGED <<linked, storage, minted, attempts, lost, mishaps>>

\* What decide goes on to do: deliver the key if this side can by now.
AfterDecide(c) ==
    /\ memory[c].decided
    /\ memory' = [memory EXCEPT
            ![c].decided = FALSE,
            ![c].ref = HeldToken(c),
            ![c].delivery = IF HeldToken(c) # "none" /\ linked
                            THEN DeliverFirstEpoch(c) ELSE @]
    /\ storage' = StorageAfterHeld(c)
    /\ UNCHANGED <<linked, request, approved, minted, attempts, lost, mishaps>>

\* The join is answered: the token goes to memory first, then to storage.
FinishJoin(c) ==
    /\ memory[c].task.pc = "joining"
    /\ request[c]["join"] \in {"ok", "error"}
    /\ request' = [request EXCEPT ![c]["join"] = "none"]
    /\ memory' = IF request[c]["join"] = "ok"
                 THEN [memory EXCEPT ![c].ref = "valid", ![c].task.pc = "remember"]
                 ELSE [memory EXCEPT ![c].task = NoTask]
    /\ UNCHANGED <<linked, storage, approved, minted, attempts, lost, mishaps>>

RememberToken(c) ==
    /\ memory[c].task.pc = "remember"
    /\ storage' = [storage EXCEPT ![c].token = "valid"]
    /\ memory' = [memory EXCEPT ![c].view = "valid",
                                ![c].task = AtEpoch(c, memory[c].task.op),
                                ![c].delivery = DeliverFirstEpoch(c)]
    /\ UNCHANGED <<linked, request, approved, minted, attempts, lost, mishaps>>

\* A notice is encrypted under the key c holds, if any, and goes to its log.
PostEncryptedNotice(c) ==
    IF storage[c].key = 0 THEN storage
    ELSE [storage EXCEPT ![c].notices = Append(@, storage[c].key)]

\* Of a notice that verifies, c shows the text if it has the key the notice
\* was encrypted under, and only that it is there if not.
ReadOne(c, key) == IF storage[c].key = key THEN "text" ELSE "sealed"

\* readRoom, with the peer's log caught up with.
ReadRoom(c) ==
    UNION {{ReadOne(c, storage[d].notices[i]) : i \in DOMAIN storage[d].notices} : d \in Console}

\* A send goes on whether the key was delivered or not; a post does not, and
\* needs a key of its own side's.
AfterEpoch(c) ==
    /\ memory[c].task.pc \in {"keyed", "unkeyed"}
    /\ \/ /\ memory[c].task.op = "send"
          /\ SendRoomMessage(c)
          /\ UNCHANGED storage
       \/ /\ memory[c].task.op = "post"
          /\ memory' = [memory EXCEPT ![c].task = NoTask]
          /\ storage' = IF memory[c].task.pc = "keyed"
                        THEN PostEncryptedNotice(c) ELSE storage
          /\ Len(storage'[c].notices) <= MaxNotice
          /\ UNCHANGED <<request, attempts>>
    /\ UNCHANGED <<linked, approved, minted, lost, mishaps>>

FinishSend(c) ==
    /\ memory[c].task.pc = "sending"
    /\ request[c]["send"] \in {"ok", "error"}
    /\ request' = [request EXCEPT ![c]["send"] = "none"]
    /\ storage' = IF request[c]["send"] = "ok"
                  THEN [storage EXCEPT ![c].sent = @ \union {memory[c].task.message}]
                  ELSE storage
    /\ memory' = [memory EXCEPT ![c].task = NoTask]
    /\ UNCHANGED <<linked, approved, minted, attempts, lost, mishaps>>

(***************************************************************************)
(* The first epoch's key: bootstrapDmEpoch1, run by the lower side.        *)
(***************************************************************************)
Delivery == memory["lower"].delivery

\* The delivery settles; the task that waits for it, if any, goes on.
DeliveryEnds(ok) ==
    memory' = [memory EXCEPT
        !["lower"].delivery = NoDelivery,
        !["lower"].task.pc = IF @ # "epoch" THEN @ ELSE IF ok THEN "keyed" ELSE "unkeyed"]

\* Variant: a key is minted for every delivery.
ReadEpochMinting ==
    /\ Delivery.pc = "reading"
    /\ ~ storage["lower"].delivered
    /\ minted < MaxMinted
    /\ minted' = minted + 1
    /\ memory' = [memory EXCEPT !["lower"].delivery =
            [pc |-> "minted", minting |-> storage["lower"].key = 0, key |-> minted + 1]]
    /\ UNCHANGED <<linked, request, storage, approved, attempts, lost, mishaps>>

\* An acknowledged key is not sent again; a key is minted only if there is none.
ReadEpoch ==
    /\ Delivery.pc = "reading"
    /\ IF storage["lower"].delivered \/ ~ VerifyRoomToken(memory["lower"].ref)
       THEN DeliveryEnds(storage["lower"].delivered) /\ UNCHANGED minted
       ELSE IF storage["lower"].key # 0
       THEN /\ memory' = [memory EXCEPT !["lower"].delivery =
                    [pc |-> "minted", minting |-> FALSE, key |-> storage["lower"].key]]
            /\ UNCHANGED minted
       ELSE /\ minted < MaxMinted
            /\ minted' = minted + 1
            /\ memory' = [memory EXCEPT !["lower"].delivery =
                    [pc |-> "minted", minting |-> TRUE, key |-> minted + 1]]
    /\ UNCHANGED <<linked, request, storage, approved, attempts, lost, mishaps>>

\* The key is stored before it is sent; without a link the send is refused.
SendRoomRekey ==
    /\ Delivery.pc = "minted"
    /\ storage' = IF Delivery.minting THEN [storage EXCEPT !["lower"].key = Delivery.key]
                  ELSE storage
    /\ request' = [request EXCEPT !["lower"]["rekey"] = IF linked THEN "sent" ELSE "error"]
    /\ memory' = [memory EXCEPT !["lower"].delivery.pc = "asked"]
    /\ UNCHANGED <<linked, approved, minted, attempts, lost, mishaps>>

FinishRekey ==
    /\ Delivery.pc = "asked"
    /\ request["lower"]["rekey"] \in {"ok", "error"}
    /\ request' = [request EXCEPT !["lower"]["rekey"] = "none"]
    /\ storage' = [storage EXCEPT !["lower"].delivered = @ \/ request["lower"]["rekey"] = "ok"]
    /\ DeliveryEnds(request["lower"]["rekey"] = "ok")
    /\ UNCHANGED <<linked, approved, minted, attempts, lost, mishaps>>

\* The rekey handler, up to where it stores: the key is wrapped for whoever
\* issued the sender's token, and unwraps with the receiver's own.
HandleRoomRekey(token) ==
    IF VerifyRoomToken(token)
    THEN /\ memory' = [memory EXCEPT
                !["upper"].ref = token,
                !["upper"].rekey = [pc |-> "taken", key |-> Delivery.key, live |-> TRUE]]
         /\ UNCHANGED request
    ELSE /\ request' = [request EXCEPT !["lower"]["rekey"] = "error"]
         /\ memory' = [memory EXCEPT !["upper"].ref = token]

\* onRekey of the upper side: with no token, or one that has lapsed, no key.
OnRekey ==
    /\ Arrived("upper", "rekey")
    /\ memory["upper"].rekey.pc = "none"
    /\ HandleRoomRekey(HeldToken("upper"))
    /\ storage' = StorageAfterHeld("upper")
    /\ UNCHANGED <<linked, approved, minted, attempts, lost, mishaps>>

\* The key is stored, then acknowledged on the link the request came by.
StoreKey ==
    /\ memory["upper"].rekey.pc = "taken"
    /\ storage' = [storage EXCEPT !["upper"].key = memory["upper"].rekey.key]
    /\ memory' = [memory EXCEPT !["upper"].rekey.pc = "stored"]
    /\ UNCHANGED <<linked, request, approved, minted, attempts, lost, mishaps>>

AcknowledgeRekey ==
    /\ memory["upper"].rekey.pc = "stored"
    /\ request' = IF memory["upper"].rekey.live
                  THEN [request EXCEPT !["lower"]["rekey"] = "ok"] ELSE request
    /\ memory' = [memory EXCEPT !["upper"].rekey = NoRekey]
    /\ UNCHANGED <<linked, storage, approved, minted, attempts, lost, mishaps>>

(***************************************************************************)
(* Receiving a message: verified, answered, then kept.                     *)
(***************************************************************************)
\* Variant: the answer is given before the token is verified.
HandleRoomSendAnswering(c) ==
    /\ Arrived(c, "send")
    /\ memory[c].unkept = 0
    /\ request' = [request EXCEPT ![Peer(c)]["send"] = "ok"]
    /\ memory' = IF memory[Peer(c)].view = "valid"
                 THEN [memory EXCEPT ![c].unkept = memory[Peer(c)].task.message]
                 ELSE memory
    /\ UNCHANGED <<linked, storage, approved, minted, attempts, lost, mishaps>>

HandleRoomSend(c) ==
    /\ Arrived(c, "send")
    /\ memory[c].unkept = 0
    /\ IF VerifyRoomToken(memory[Peer(c)].view)
       THEN /\ request' = [request EXCEPT ![Peer(c)]["send"] = "ok"]
            /\ memory' = [memory EXCEPT ![c].unkept = memory[Peer(c)].task.message]
       ELSE /\ request' = [request EXCEPT ![Peer(c)]["send"] = "error"]
            /\ UNCHANGED memory
    /\ UNCHANGED <<linked, storage, approved, minted, attempts, lost, mishaps>>

KeepMessage(c) ==
    /\ memory[c].unkept # 0
    /\ storage' = [storage EXCEPT ![c].received = @ \union {memory[c].unkept}]
    /\ memory' = [memory EXCEPT ![c].unkept = 0]
    /\ UNCHANGED <<linked, request, approved, minted, attempts, lost, mishaps>>

(***************************************************************************)
(* The link, reloads and time.                                             *)
(***************************************************************************)
Mishap ==
    /\ mishaps < MaxMishap
    /\ mishaps' = mishaps + 1

\* Requests under way are refused at the asker, whatever became of them.
Failed(requests) == [k \in Kind |-> IF requests[k] = "none" THEN "none" ELSE "error"]

DropLink ==
    /\ Mishap
    /\ linked
    /\ linked' = FALSE
    /\ request' = [c \in Console |-> Failed(request[c])]
    /\ memory' = [memory EXCEPT !["upper"].rekey.live = FALSE]
    /\ UNCHANGED <<storage, approved, minted, attempts, lost>>

Attach ==
    /\ ~ linked
    /\ linked' = TRUE
    /\ UNCHANGED <<request, memory, storage, approved, minted, attempts, lost, mishaps>>

Reload(c) ==
    /\ Mishap
    /\ linked' = FALSE
    /\ request' = [d \in Console |->
            IF d = c THEN [k \in Kind |-> "none"] ELSE Failed(request[d])]
    /\ memory' = [memory EXCEPT ![c] = Fresh, ![Peer(c)].rekey.live = FALSE]
    /\ lost' = lost \union ({memory[c].unkept} \ {0})
    /\ UNCHANGED <<storage, approved, minted, attempts>>

Lapse(c) ==
    LET Lapsed(t) == IF t = "valid" THEN "lapsed" ELSE t
    IN /\ Mishap
       /\ memory' = [memory EXCEPT ![c].ref = Lapsed(@), ![c].view = Lapsed(@)]
       /\ storage' = [storage EXCEPT ![c].token = Lapsed(@)]
       /\ UNCHANGED <<linked, request, approved, minted, attempts, lost>>

RoomsNext ==
    \/ \E c \in Console :
        \/ Send(c)
        \/ PostNotice(c)
        \/ \E accept \in BOOLEAN : DecideJoin(c, accept)
        \/ AfterDecide(c)
        \/ FinishJoin(c)
        \/ RememberToken(c)
        \/ AfterEpoch(c)
        \/ FinishSend(c)
        \/ HandleRoomSend(c)
        \/ KeepMessage(c)
        \/ Reload(c)
        \/ Lapse(c)
    \/ ReadEpoch
    \/ SendRoomRekey
    \/ FinishRekey
    \/ OnRekey
    \/ StoreKey
    \/ AcknowledgeRekey
    \/ DropLink
    \/ Attach

(***************************************************************************)
(* Properties.                                                             *)
(***************************************************************************)
\* The room has one key: whatever is reloaded, lost or repeated on the way,
\* two sides that hold a first-epoch key hold the same, a side that holds
\* one reads the text of every notice in either log, and a key marked
\* delivered is in the peer's storage (bootstrapDmEpoch1, deliverFirstEpoch,
\* createRoomRekeyHandler, readOne).
OneKeyPerRoom ==
    /\ \A c \in Console : storage[c].key # 0 =>
        /\ storage[Peer(c)].key \in {0, storage[c].key}
        /\ ReadRoom(c) \subseteq {"text"}
    /\ storage["lower"].delivered => storage["upper"].key # 0

\* A message a console keeps as sent has reached the peer's, or is about to,
\* or was lost to the one thing that can lose it, a reload of the peer between
\* its answer and its keeping the message; and it is kept only by a console
\* whose user let the sender join (deliver, handleRoomSend, onMessage).
SentMessagesArrive ==
    \A c \in Console :
        /\ storage[c].sent \subseteq
             storage[Peer(c)].received \union {memory[Peer(c)].unkept} \union lost
        /\ storage[c].received # {} => approved[c]
====
