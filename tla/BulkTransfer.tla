---------------------------- MODULE BulkTransfer ----------------------------
(***************************************************************************)
(* One bulk transfer (core/bulk): the sender's open, resume and stream     *)
(* calls, the receiver's durable chunks and acknowledgements, and the      *)
(* connections that carry them.  A connection is used once, by the sender  *)
(* to open the transfer or by the receiver to resume it.  A handler's      *)
(* storage operations are steps of their own; a send completes in the turn *)
(* that issues it, and the only long wait of the sending loop besides an   *)
(* acknowledgement is its source.                                          *)
(***************************************************************************)
EXTENDS Integers, Sequences, FiniteSetsExt

CONSTANTS
    Conn,      \* connections, each used for one open or one resume
    Openers,   \* those the sender may open the transfer on
    Resumers,  \* those the receiver may resume it on
    Chunks,    \* number of chunks of the source
    Length,    \* Length[i]: bytes of chunk i
    Windows    \* the credit windows a receiver may offer

ASSUME BulkAssumption ==
    /\ Chunks \in Nat
    /\ Length \in [0..Chunks - 1 -> Nat]
    /\ Windows \subseteq Nat
    /\ Openers \subseteq Conn /\ Resumers \subseteq Conn

VARIABLES
    link,        \* a connection's life: unused, up, down, then gone once the sender's pump saw its end
    toReceiver,  \* frames on their way to the receiver, per connection
    toSender,    \* frames on their way to the sender, per connection
    stream,      \* the sender's open or resumed call on each connection
    pendingAcks, \* whose call waits for the next acknowledgement, in order
    active,      \* activeConnection, None before the first open
    cancelled,   \* whether the sender was asked to cancel
    opener,      \* durable: a bulk.open was accepted
    ackSeq,      \* durable: chunks acknowledged
    window,      \* durable: the credit window, 0 when absent
    chunk,       \* durable: the chunks
    registered,  \* the connection the receiver takes the transfer's frames from
    handler,     \* the receiver's handler under way on each connection
    resume,      \* the receiver's requestResume under way on each connection
    result       \* verdicts given to onComplete

senderVars == <<stream, pendingAcks, active, cancelled>>
durableVars == <<opener, ackSeq, window, chunk>>
receiverVars == <<registered, handler, resume, result>>
vars == <<link, toReceiver, toSender, senderVars, durableVars, receiverVars>>

None == "none"
NoChunk == -1
Seqs == 0..Chunks - 1
Idle == [stage |-> "idle"]
NoStream == [stage |-> "none", seq |-> 0, acked |-> 0, window |-> 0, inFlight |-> <<>>]

\* What the source yields from a sequence number on; a chunk's bytes are its number.
Source == [i \in 1..Chunks |-> i - 1]

Init ==
    /\ link = [c \in Conn |-> "unused"]
    /\ toReceiver = [c \in Conn |-> <<>>] /\ toSender = [c \in Conn |-> <<>>]
    /\ stream = [c \in Conn |-> NoStream]
    /\ pendingAcks = <<>> /\ active = None /\ cancelled = FALSE
    /\ opener = FALSE /\ ackSeq = 0 /\ window = 0
    /\ chunk = [i \in Seqs |-> NoChunk]
    /\ registered = [conn |-> None, tells |-> FALSE]
    /\ handler = [c \in Conn |-> Idle] /\ resume = [c \in Conn |-> Idle]
    /\ result = {}

Put(queue, c, frames) == [queue EXCEPT ![c] = IF link[c] = "up" THEN @ \o frames ELSE @]
Take(queue, c) == [queue EXCEPT ![c] = Tail(@)]
Next2Sender(c, type) == toSender[c] # <<>> /\ Head(toSender[c]).type = type
Next2Receiver(c, type) ==
    toReceiver[c] # <<>> /\ handler[c] = Idle /\ Head(toReceiver[c]).type = type

-----------------------------------------------------------------------------
(* The sender.                                                               *)

Waiting(c, stage) == [stream[c] EXCEPT !.stage = stage]
Settled(s, status) == [s EXCEPT !.stage = status]

\* open: the transfer is active before its bulk.open is answered.
Open(c) ==
    /\ c \in Openers
    /\ link[c] = "unused" /\ link' = [link EXCEPT ![c] = "up"]
    /\ active' = c
    /\ stream' = [stream EXCEPT ![c] = Waiting(c, "opening")]
    /\ toReceiver' = [toReceiver EXCEPT ![c] = <<[type |-> "open"]>>]
    /\ UNCHANGED <<toSender, pendingAcks, cancelled, durableVars, receiverVars>>

\* The answer to bulk.open: rejected, or resumeStream's wait for the first acknowledgement.
Opened(c) ==
    /\ Next2Sender(c, "opened")
    /\ IF Head(toSender[c]).ok
       THEN /\ stream' = [stream EXCEPT ![c] = Waiting(c, "first")]
            /\ pendingAcks' = Append(pendingAcks, c)
       ELSE /\ stream' = [stream EXCEPT ![c] = Settled(@, "rejected")]
            /\ UNCHANGED pendingAcks
    /\ toSender' = Take(toSender, c)
    /\ UNCHANGED <<link, toReceiver, active, cancelled, durableVars, receiverVars>>

\* handleBulkResume: refused unless the transfer is open here; else it starts a
\* second stream, whatever became of the first.
HandleBulkResume(c) ==
    /\ Next2Sender(c, "resume")
    /\ toSender' = Take(toSender, c)
    /\ toReceiver' = Put(toReceiver, c, <<[type |-> "resumed", ok |-> active # None]>>)
    /\ IF active = None
       THEN UNCHANGED <<active, stream, pendingAcks>>
       ELSE /\ active' = c
            /\ stream' = [stream EXCEPT ![c] = Waiting(c, "first")]
            /\ pendingAcks' = Append(pendingAcks, c)
    /\ UNCHANGED <<link, cancelled, durableVars, receiverVars>>

HandleBulkCancelAtSender ==
    /\ ~cancelled /\ active # None
    /\ cancelled' = TRUE
    /\ UNCHANGED <<link, toReceiver, toSender, stream, pendingAcks, active, durableVars, receiverVars>>

BytesInFlight(s) == MapThenSumSet(LAMBDA i : Length[s.inFlight[i]], DOMAIN s.inFlight)
ExceedsWindow(s) == BytesInFlight(s) + Length[s.seq] > s.window

\* applyAck: the window is replaced, and every chunk covered is retired.
ApplyAck(s, ack) ==
    [s EXCEPT !.acked = ack.seq, !.window = ack.window,
              !.inFlight = SelectSeq(@, LAMBDA i : i >= ack.seq)]

\* The loop's send of the chunk in hand; a send that fails ends the stream.
SendChunk(c, s) ==
    /\ toReceiver' = Put(toReceiver, c, <<[type |-> "data", seq |-> s.seq, bytes |-> s.seq]>>)
    /\ stream' = [stream EXCEPT ![c] =
           IF link[c] = "up"
           THEN [s EXCEPT !.stage = "reading", !.seq = @ + 1, !.inFlight = Append(@, s.seq)]
           ELSE Settled(s, "incomplete")]

\* resolveNextAck: the first waiter takes the acknowledgement, whichever connection
\* it came through; with nobody waiting it is dropped.
OnAck(c) ==
    /\ Next2Sender(c, "ack")
    /\ toSender' = Take(toSender, c)
    /\ LET ack == Head(toSender[c])
           w == Head(pendingAcks)
           s == ApplyAck(stream[w], ack) IN
       CASE pendingAcks = <<>> -> UNCHANGED <<stream, pendingAcks, toReceiver>>
         [] pendingAcks # <<>> /\ stream[w].stage = "first" ->
              /\ stream' = [stream EXCEPT ![w] =
                     [stage |-> "reading", seq |-> ack.seq, acked |-> ack.seq,
                      window |-> ack.window, inFlight |-> <<>>]]
              /\ pendingAcks' = Tail(pendingAcks)
              /\ UNCHANGED toReceiver
         [] pendingAcks # <<>> /\ stream[w].stage = "credit" /\ ExceedsWindow(s) ->
              /\ stream' = [stream EXCEPT ![w] = s]
              /\ pendingAcks' = Append(Tail(pendingAcks), w)
              /\ UNCHANGED toReceiver
         [] pendingAcks # <<>> /\ stream[w].stage = "credit" /\ ~ExceedsWindow(s) ->
              /\ SendChunk(w, s)
              /\ pendingAcks' = Tail(pendingAcks)
    /\ UNCHANGED <<link, active, cancelled, durableVars, receiverVars>>

\* The source yields a chunk, or is exhausted.
SourceYields(c) ==
    LET s == stream[c] IN
    /\ s.stage = "reading"
    /\ CASE s.seq >= Chunks ->
              /\ stream' = [stream EXCEPT ![c] = Waiting(c, "ending")]
              /\ UNCHANGED <<toReceiver, pendingAcks>>
         [] s.seq < Chunks /\ cancelled ->
              /\ stream' = [stream EXCEPT ![c] = Settled(s, "incomplete")]
              /\ UNCHANGED <<toReceiver, pendingAcks>>
         [] s.seq < Chunks /\ ~cancelled /\ ExceedsWindow(s) ->
              /\ stream' = [stream EXCEPT ![c] = Waiting(c, "credit")]
              /\ pendingAcks' = Append(pendingAcks, c)
              /\ UNCHANGED toReceiver
         [] s.seq < Chunks /\ ~cancelled /\ ~ExceedsWindow(s) ->
              SendChunk(c, s) /\ UNCHANGED pendingAcks
    /\ UNCHANGED <<link, toSender, active, cancelled, durableVars, receiverVars>>

\* The whole source was read again and hashed; a bulk-end that cannot be sent is thrown.
SendEnd(c) ==
    /\ stream[c].stage = "ending"
    /\ toReceiver' = Put(toReceiver, c, <<[type |-> "end", digest |-> Source]>>)
    /\ stream' = [stream EXCEPT ![c] =
           IF link[c] = "up" THEN [Settled(@, "complete") EXCEPT !.acked = stream[c].seq]
           ELSE Settled(@, "threw")]
    /\ UNCHANGED <<link, toSender, pendingAcks, active, cancelled, durableVars, receiverVars>>

\* The pump sees the end: the request it answers fails, and onConnectionEnd rejects
\* every waiter if this is the active connection.  Only a wait inside the loop is caught.
OnConnectionEnd(c) ==
    /\ link[c] = "down" /\ link' = [link EXCEPT ![c] = "gone"]
    /\ LET rejected == IF active = c THEN {pendingAcks[i] : i \in DOMAIN pendingAcks} ELSE {} IN
       /\ stream' = [w \in Conn |->
              CASE w \in rejected /\ stream[w].stage = "credit" -> Settled(stream[w], "incomplete")
                [] w \in rejected /\ stream[w].stage = "first" -> Settled(stream[w], "threw")
                [] w = c /\ stream[w].stage = "opening" -> Settled(stream[w], "threw")
                [] OTHER -> stream[w]]
       /\ pendingAcks' = IF active = c THEN <<>> ELSE pendingAcks
    /\ UNCHANGED <<toReceiver, toSender, active, cancelled, durableVars, receiverVars>>

-----------------------------------------------------------------------------
(* The receiver.                                                             *)

At(c, stage) == handler[c].stage = stage
Becomes(c, h) == handler' = [handler EXCEPT ![c] = h]
Ack(n, w) == [type |-> "ack", seq |-> n, window |-> w]

\* handleBulkOpen up to its offer, which waits for the application's decision.
HandleBulkOpen(c) ==
    /\ Next2Receiver(c, "open")
    /\ toReceiver' = Take(toReceiver, c)
    /\ IF opener
       THEN /\ toSender' = Put(toSender, c, <<[type |-> "opened", ok |-> FALSE]>>)
            /\ UNCHANGED handler
       ELSE Becomes(c, [stage |-> "offered"]) /\ UNCHANGED toSender
    /\ UNCHANGED <<link, senderVars, durableVars, registered, resume, result>>

DecideReject(c) ==
    /\ At(c, "offered")
    /\ Becomes(c, Idle)
    /\ toSender' = Put(toSender, c, <<[type |-> "opened", ok |-> FALSE]>>)
    /\ UNCHANGED <<link, toReceiver, senderVars, durableVars, registered, resume, result>>

\* An accepted offer stores the opener, then the count, then the window.
DecideAccept(c) ==
    /\ At(c, "offered")
    /\ \E w \in Windows : Becomes(c, [stage |-> "counting", window |-> w])
    /\ opener' = TRUE
    /\ UNCHANGED <<link, toReceiver, toSender, senderVars, ackSeq, window, chunk, registered, resume, result>>

AcceptCount(c) ==
    /\ At(c, "counting")
    /\ ackSeq' = 0
    /\ Becomes(c, [handler[c] EXCEPT !.stage = "crediting"])
    /\ UNCHANGED <<link, toReceiver, toSender, senderVars, opener, window, chunk, registered, resume, result>>

\* Then the transfer belongs to this connection, and its first credit is sent.
AcceptWindow(c) ==
    /\ At(c, "crediting")
    /\ window' = handler[c].window
    /\ registered' = [conn |-> c, tells |-> TRUE]
    /\ toSender' = Put(toSender, c, <<[type |-> "opened", ok |-> TRUE], Ack(0, handler[c].window)>>)
    /\ Becomes(c, Idle)
    /\ UNCHANGED <<link, toReceiver, senderVars, opener, ackSeq, chunk, resume, result>>

\* Variant: the next sequence number is taken to be one past the count.
OnDataOneAhead(c) ==
    /\ Next2Receiver(c, "data")
    /\ toReceiver' = Take(toReceiver, c)
    /\ LET f == Head(toReceiver[c]) IN
       Becomes(c, IF registered.conn # c \/ f.seq # ackSeq + 1 THEN Idle
                  ELSE [stage |-> "chunk", seq |-> f.seq, bytes |-> f.bytes])
    /\ UNCHANGED <<link, toSender, senderVars, durableVars, registered, resume, result>>

\* onFrame, bulk-data: ignored on another connection, dropped out of sequence.
OnData(c) ==
    /\ Next2Receiver(c, "data")
    /\ toReceiver' = Take(toReceiver, c)
    /\ LET f == Head(toReceiver[c]) IN
       Becomes(c, IF registered.conn # c \/ f.seq # ackSeq THEN Idle
                  ELSE [stage |-> "chunk", seq |-> f.seq, bytes |-> f.bytes])
    /\ UNCHANGED <<link, toSender, senderVars, durableVars, registered, resume, result>>

\* Variant: the chunk is not stored before it is counted.
PersistChunkLater(c) ==
    /\ At(c, "chunk")
    /\ chunk' = chunk
    /\ Becomes(c, [handler[c] EXCEPT !.stage = "count"])
    /\ UNCHANGED <<link, toReceiver, toSender, senderVars, opener, ackSeq, window, registered, resume, result>>

PersistChunk(c) ==
    /\ At(c, "chunk")
    /\ chunk' = [chunk EXCEPT ![handler[c].seq] = handler[c].bytes]
    /\ Becomes(c, [handler[c] EXCEPT !.stage = "count"])
    /\ UNCHANGED <<link, toReceiver, toSender, senderVars, opener, ackSeq, window, registered, resume, result>>

PersistCount(c) ==
    /\ At(c, "count")
    /\ ackSeq' = handler[c].seq + 1
    /\ Becomes(c, [handler[c] EXCEPT !.stage = "ack"])
    /\ UNCHANGED <<link, toReceiver, toSender, senderVars, opener, window, chunk, registered, resume, result>>

SendAck(c) ==
    /\ At(c, "ack")
    /\ toSender' = Put(toSender, c, <<Ack(handler[c].seq + 1, window)>>)
    /\ Becomes(c, Idle)
    /\ UNCHANGED <<link, toReceiver, senderVars, durableVars, registered, resume, result>>

\* Variant: the digest is not compared.
VerdictUnchecked(digest) == TRUE

\* The digest of the chunks counted, against the one bulk-end claims.
Verdict(digest) == [i \in 1..ackSeq |-> chunk[i - 1]] = digest

\* onFrame, bulk-end: the verdict goes to onComplete where the registration has one.
OnEnd(c) ==
    /\ Next2Receiver(c, "end")
    /\ toReceiver' = Take(toReceiver, c)
    /\ result' = IF registered.conn = c /\ registered.tells
                  THEN result \cup {[ok |-> Verdict(Head(toReceiver[c]).digest), chunkCount |-> ackSeq]}
                  ELSE result
    /\ UNCHANGED <<link, toSender, senderVars, durableVars, registered, handler, resume>>

\* requestResume up to its request, over a fresh connection.
RequestResume(c) ==
    /\ c \in Resumers
    /\ link[c] = "unused" /\ link' = [link EXCEPT ![c] = "up"]
    /\ opener
    /\ resume' = [resume EXCEPT ![c] = [stage |-> "asked", acked |-> ackSeq,
                      tells |-> registered.conn # None /\ registered.tells]]
    /\ toSender' = [toSender EXCEPT ![c] = <<[type |-> "resume"]>>]
    /\ UNCHANGED <<toReceiver, senderVars, durableVars, registered, handler, result>>

\* requestResume once answered: it advertises the count it read before it asked.
Resumed(c) ==
    /\ Next2Receiver(c, "resumed")
    /\ toReceiver' = Take(toReceiver, c)
    /\ resume' = [resume EXCEPT ![c] = Idle]
    /\ IF Head(toReceiver[c]).ok
       THEN /\ registered' = [conn |-> c, tells |-> resume[c].tells]
            /\ toSender' = Put(toSender, c, <<Ack(resume[c].acked, window)>>)
       ELSE UNCHANGED <<registered, toSender>>
    /\ UNCHANGED <<link, senderVars, durableVars, handler, result>>

HandleBulkCancelAtReceiver ==
    /\ registered.conn # None
    /\ registered' = [conn |-> None, tells |-> FALSE]
    /\ UNCHANGED <<link, toReceiver, toSender, senderVars, durableVars, handler, resume, result>>

-----------------------------------------------------------------------------
(* The world.                                                                *)

LinkDown(c) ==
    /\ link[c] = "up" /\ link' = [link EXCEPT ![c] = "down"]
    /\ toReceiver' = [toReceiver EXCEPT ![c] = <<>>]
    /\ toSender' = [toSender EXCEPT ![c] = <<>>]
    /\ resume' = [resume EXCEPT ![c] = Idle]
    /\ UNCHANGED <<senderVars, durableVars, registered, handler, result>>

\* The receiver's process restarts with what it stored.
ReceiverRestarts ==
    /\ \E c \in Conn : link[c] = "up"
    /\ link' = [c \in Conn |-> IF link[c] = "up" THEN "down" ELSE link[c]]
    /\ toReceiver' = [c \in Conn |-> <<>>] /\ toSender' = [c \in Conn |-> <<>>]
    /\ handler' = [c \in Conn |-> Idle] /\ resume' = [c \in Conn |-> Idle]
    /\ registered' = [conn |-> None, tells |-> FALSE]
    /\ UNCHANGED <<senderVars, durableVars, result>>

SenderStep(c) ==
    Opened(c) \/ HandleBulkResume(c) \/ OnAck(c) \/ SourceYields(c) \/ SendEnd(c) \/ OnConnectionEnd(c)

ReceiverStep(c) ==
    \/ HandleBulkOpen(c) \/ AcceptCount(c) \/ AcceptWindow(c)
    \/ OnData(c) \/ PersistChunk(c) \/ PersistCount(c) \/ SendAck(c) \/ OnEnd(c) \/ Resumed(c)

Next ==
    \/ \E c \in Conn : \/ SenderStep(c) \/ ReceiverStep(c)
                       \/ Open(c) \/ RequestResume(c)
                       \/ DecideReject(c) \/ DecideAccept(c) \/ LinkDown(c)
    \/ HandleBulkCancelAtSender \/ HandleBulkCancelAtReceiver
    \/ ReceiverRestarts

Spec == Init /\ [][Next]_vars

\* Some handler that was entered runs on, or some frame that arrived is taken.
ProgressSpec == Spec /\ WF_vars(\E c \in Conn : SenderStep(c) \/ ReceiverStep(c))

-----------------------------------------------------------------------------
Durable(n) == \A i \in 0..n - 1 : chunk[i] = i

(* An acknowledgement, on the wire or taken by the sender, counts only chunks *)
(* the receiver's storage holds, through restarts and superseded connections *)
(* (bulk-ack in onFrame and requestResume, applyAck).  The sender never sends *)
(* a chunk below its count again.                                            *)
AckIsDurable ==
    /\ \A c \in Conn : /\ stream[c].stage # "complete" => Durable(stream[c].acked)
                        /\ \A i \in DOMAIN toSender[c] :
                              toSender[c][i].type = "ack" => Durable(toSender[c][i].seq)
    /\ Durable(ackSeq)

(* onComplete says ok only of the whole source, counted and stored under its  *)
(* own numbers (bulk-end's digest check).                                    *)
CompleteIsWhole == \A r \in result : r.ok => r.chunkCount = Chunks /\ Durable(Chunks)

TotalSize == MapThenSumSet(LAMBDA i : Length[i], Seqs)
Undisturbed(c) ==
    /\ link[c] = "up" /\ ~cancelled /\ registered.conn = c
    /\ \A d \in Conn \ {c} : link[d] = "unused"

(* A transfer accepted with a window for all of it, over one connection that  *)
(* stays up, is delivered whole and the receiver is told so (createOpenHandler, *)
(* stream, onFrame).                                                         *)
OneConnectionDelivers ==
    \A c \in Openers :
        (Undisturbed(c) /\ window >= TotalSize) ~> ((\E r \in result : r.ok) \/ ~Undisturbed(c))

=============================================================================
