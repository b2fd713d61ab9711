---- MODULE FrameStreams ----
(***************************************************************************)
(* The receiving half of a connection, for every transport: bytes or       *)
(* messages come in as the network cuts them, frames go out one next() at  *)
(* a time (the transports of core, node, web-console and cloudflare-hub).  *)
(*                                                                         *)
(* A frame on the wire is "ok", "alien" (it decodes, and is no frame the   *)
(* schema knows), "bad" (it does not decode), "huge" (its prefix says more *)
(* than the limit) or the "mark" an opened byte stream starts with.  On a  *)
(* byte stream it is two units long, prefix and body, a mark one; on a     *)
(* message transport it is one unit.  The sockets are external.            *)
(***************************************************************************)
EXTENDS Naturals, SequencesExt

CONSTANTS
    MaxFrame,   \* bound: frames the peer sends
    Transport   \* the transports looked at

\* What tells the transports apart: how frames are cut; whether bytes are
\* read as they come or when they are asked for; whether the handlers are
\* attached the moment the connection is there; whether a connection that
\* failed may still hand in messages; and which frames are refused.
Tcp == [name |-> "tcp", units |-> 2, pull |-> FALSE, wrapsLate |-> FALSE,
        lingers |-> FALSE, refuses |-> {"bad"}]
Tls == [name |-> "tls", units |-> 2, pull |-> FALSE, wrapsLate |-> TRUE,
        lingers |-> FALSE, refuses |-> {"bad"}]
ByteStream == [name |-> "byte-stream", units |-> 2, pull |-> TRUE, wrapsLate |-> FALSE,
               lingers |-> FALSE, refuses |-> {"bad", "huge"}]
NodeWebSocket == [name |-> "node-websocket", units |-> 1, pull |-> FALSE, wrapsLate |-> FALSE,
                  lingers |-> TRUE, refuses |-> {"bad"}]
BrowserWebSocket == [NodeWebSocket EXCEPT !.name = "browser-websocket"]
HubWebSocket == [NodeWebSocket EXCEPT !.name = "hub-websocket"]
DataChannel == [NodeWebSocket EXCEPT !.name = "data-channel"]

VARIABLES
    transport,  \* the transport of this connection
    sent,       \* what the peer has sent
    inFlight,   \* units under way, as frame numbers
    buffer,     \* units received and not yet made into frames
    arrived,    \* the units that came in
    pending,    \* frames that wait for a next()
    nextWaits,  \* a next() waits for a frame
    ended, failure,
    wrapped,    \* the handlers are attached
    gone,       \* the connection is over
    missed,     \* it was over before the handlers were attached
    consumed,   \* the frames given out
    reader      \* "running", or how the loop over receive() ended

streamVars == <<transport, sent, inFlight, buffer, arrived, pending, nextWaits, ended,
                failure, wrapped, gone, missed, consumed, reader>>

Frame(i) == sent[i]
UnitsOf(kind) == IF kind = "mark" THEN 1 ELSE transport.units
Received(i) == Frame(i) \in {"ok", "huge"}
Refused(i) == Frame(i) \in transport.refuses

StreamInit ==
    /\ transport \in Transport
    /\ sent = IF transport.pull THEN <<"mark">> ELSE <<>>
    /\ inFlight = IF transport.pull THEN <<1>> ELSE <<>>
    /\ buffer = <<>>
    /\ arrived = <<>>
    /\ pending = <<>>
    /\ nextWaits = FALSE
    /\ ended = FALSE
    /\ failure = FALSE
    /\ wrapped = ~ transport.wrapsLate
    /\ gone = FALSE
    /\ missed = FALSE
    /\ consumed = <<>>
    /\ reader = "running"

(***************************************************************************)
(* The peer and the network.                                               *)
(***************************************************************************)
WriteFrame(kind) ==
    /\ ~ gone
    /\ Len(sent) < MaxFrame
    /\ sent' = Append(sent, kind)
    /\ inFlight' = inFlight \o [u \in 1 .. UnitsOf(kind) |-> Len(sent) + 1]
    /\ UNCHANGED <<transport, buffer, arrived, pending, nextWaits, ended, failure,
                   wrapped, gone, missed, consumed, reader>>

\* tls: the peer's certificate is hashed across an await first.
WrapSocket ==
    /\ ~ wrapped
    /\ wrapped' = TRUE
    /\ UNCHANGED <<transport, sent, inFlight, buffer, arrived, pending, nextWaits, ended,
                   failure, gone, missed, consumed, reader>>

(***************************************************************************)
(* Making frames of units.                                                 *)
(***************************************************************************)
\* The frames that are complete in a buffer, in order, each once.
Whole(units) ==
    {i \in ToSet(units) :
        Len(SelectSeq(units, LAMBDA u : u = i)) = UnitsOf(Frame(i))}

\* Variant: one frame is drained per chunk.
DrainedFirst(units) ==
    LET whole == Whole(units) \intersect {units[1]}
        refused == {i \in whole : Refused(i)}
    IN  [frames |-> SetToSortSeq({i \in whole : Received(i) /\ i \notin refused}, <),
         failed |-> refused # {},
         rest |-> SelectSeq(units, LAMBDA u : u \notin whole)]

\* tryDrain, and the message handlers: the complete frames up to the first
\* that is refused.
Drained(units) ==
    LET whole == Whole(units)
        refused == {i \in whole : Refused(i)}
    IN  [frames |-> SetToSortSeq({i \in whole :
                        Received(i) /\ \A r \in refused : i < r}, <),
         failed |-> refused # {},
         rest |-> SelectSeq(units, LAMBDA u : u \notin whole)]

\* A chunk or a message comes in.  The first frame goes to the next() that
\* waits, the rest are kept; a failure rejects it if there was none.
DataArrives(n) ==
    LET drained == Drained(buffer \o SubSeq(inFlight, 1, n))
        frames == pending \o drained.frames
        served == nextWaits /\ frames # <<>>
    IN
    /\ ~ transport.pull
    /\ wrapped
    /\ ~ gone
    /\ failure => transport.lingers
    /\ n \in 1 .. Len(inFlight)
    /\ transport.units = 1 => n = 1
    /\ inFlight' = SubSeq(inFlight, n + 1, Len(inFlight))
    /\ arrived' = arrived \o SubSeq(inFlight, 1, n)
    /\ buffer' = drained.rest
    /\ pending' = IF served THEN Tail(frames) ELSE frames
    /\ consumed' = IF served THEN Append(consumed, Head(frames)) ELSE consumed
    /\ nextWaits' = (nextWaits /\ ~ served /\ ~ drained.failed)
    /\ failure' = (failure \/ drained.failed)
    /\ ended' = (ended \/ drained.failed)
    /\ reader' = IF nextWaits /\ ~ served /\ drained.failed THEN "threw" ELSE reader
    /\ UNCHANGED <<transport, sent, wrapped, gone, missed>>

\* The connection is over, in order or not: endAll, if the handlers are there
\* to hear it.
End(lost) ==
    /\ ~ gone
    /\ lost \/ inFlight = <<>>
    /\ gone' = TRUE
    /\ missed' = ~ wrapped
    /\ ended' = (ended \/ (wrapped /\ ~ transport.pull))
    /\ nextWaits' = (nextWaits /\ (transport.pull \/ ~ wrapped))
    /\ reader' = IF nextWaits /\ ~ nextWaits' THEN "done" ELSE reader
    /\ inFlight' = IF lost THEN <<>> ELSE inFlight
    /\ failure' = (failure \/ (transport.pull /\ lost))
    /\ UNCHANGED <<transport, sent, buffer, arrived, pending, wrapped, consumed>>

(***************************************************************************)
(* next().                                                                 *)
(***************************************************************************)
\* The queue of the event-driven transports: frames first, then a failure,
\* then the end.
Next1 ==
    /\ ~ transport.pull
    /\ wrapped
    /\ reader = "running"
    /\ ~ nextWaits
    /\ consumed' = IF pending # <<>> THEN Append(consumed, Head(pending)) ELSE consumed
    /\ pending' = IF pending # <<>> THEN Tail(pending) ELSE pending
    /\ reader' = IF pending # <<>> THEN reader
                 ELSE IF failure THEN "threw" ELSE IF ended THEN "done" ELSE reader
    /\ nextWaits' = (pending = <<>> /\ ~ failure /\ ~ ended)
    /\ UNCHANGED <<transport, sent, inFlight, buffer, arrived, ended, failure, wrapped,
                   gone, missed>>

\* readFrames: the buffer is gone through before more is read.  A prefix
\* over the limit throws before its body is there.
Oversized == buffer # <<>> /\ Frame(buffer[1]) = "huge" /\ Refused(buffer[1])
ReadFrames ==
    /\ transport.pull
    /\ reader = "running"
    /\ IF Oversized THEN reader' = "threw" /\ UNCHANGED <<buffer, consumed>>
       ELSE /\ buffer # <<>>
            /\ LET i == buffer[1] IN
                /\ i \in Whole(buffer)
                /\ buffer' = SubSeq(buffer, UnitsOf(Frame(i)) + 1, Len(buffer))
                /\ consumed' = IF Received(i) THEN Append(consumed, i) ELSE consumed
                /\ reader' = IF Refused(i) THEN "threw" ELSE reader
    /\ UNCHANGED <<transport, sent, inFlight, arrived, pending, nextWaits, ended, failure,
                   wrapped, gone, missed>>

\* chunksOf: the next chunk, the end, or the stream's error.
ReadChunk(n) ==
    /\ transport.pull
    /\ reader = "running"
    /\ ~ Oversized
    /\ ~ (buffer # <<>> /\ buffer[1] \in Whole(buffer))
    /\ \/ /\ n \in 1 .. Len(inFlight)
          /\ inFlight' = SubSeq(inFlight, n + 1, Len(inFlight))
          /\ arrived' = arrived \o SubSeq(inFlight, 1, n)
          /\ buffer' = buffer \o SubSeq(inFlight, 1, n)
          /\ UNCHANGED reader
       \/ /\ n = 0 /\ gone /\ inFlight = <<>>
          /\ reader' = IF failure THEN "threw" ELSE "done"
          /\ UNCHANGED <<inFlight, arrived, buffer>>
    /\ UNCHANGED <<transport, sent, pending, nextWaits, ended, failure, wrapped, gone,
                   missed, consumed>>

StreamNext ==
    \/ \E kind \in {"ok", "alien", "bad", "huge"} : WriteFrame(kind)
    \/ WrapSocket
    \/ \E n \in 1 .. Len(inFlight) : DataArrives(n)
    \/ \E lost \in BOOLEAN : End(lost)
    \/ Next1
    \/ ReadFrames
    \/ \E n \in 0 .. Len(inFlight) : ReadChunk(n)

(***************************************************************************)
(* Properties.                                                             *)
(***************************************************************************)
\* However the network cuts the bytes and whenever next() is called, a reader
\* is given the frames the peer sent, each once and in order, all that came
\* in whole before it is told of the end; and once the connection is over it
\* is not left waiting, unless the end came while a tls connection's
\* certificate was still being hashed (frameReader, wrapWebSocket and its
\* siblings, readFrames).
ReaderSeesItAll ==
    /\ IsPrefix(consumed, SetToSortSeq({i \in DOMAIN sent : Received(i)}, <))
    /\ reader = "done" =>
        ToSet(consumed) = {i \in Whole(arrived) : Received(i)}
    /\ gone /\ ~ missed => ~ nextWaits
====
