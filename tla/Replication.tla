---------------------------- MODULE Replication ----------------------------
(***************************************************************************)
(* Devices that keep a log each, and a hub that holds their logs while     *)
(* they are away: the catch-up policy of the noticeboard                   *)
(* (web-console/src/notices.ts) over the data-sync primitive, with the     *)
(* mailbox of the hub at the other end.  A device handles every frame in a *)
(* call of its own (handleFrame starts one and returns), while the hub     *)
(* serves a connection's frames one after another.                         *)
(***************************************************************************)
EXTENDS Mailbox

CONSTANTS
    CatchUpBatchLimit,   \* CATCH_UP_BATCH_LIMIT
    MaxAbandons          \* bound: calls and frames abandoned

ASSUME ReplicationAssumption ==
    /\ CatchUpBatchLimit \in Nat \ {0}
    /\ MaxAbandons \in Nat

VARIABLE abandons    \* calls and frames abandoned so far

vars == <<head, entry, call, append, appends, logBytes, logCount, noted, uncounted, abandons>>

Device == Store \ {Hub}

InFlight(k) == call[k].stage \in {"have", "request", "entries"}

Init ==
    /\ SyncInit
    /\ MailboxInit
    /\ call = [k \in Slot |-> Free]
    /\ abandons = 0

\* serve() takes a connection's next frame when it has handled the last.
HubServing(k) == call[k].stage # "free" /\ call[k].at = Hub /\ ~InFlight(k)

HubReads(k) ==
    InFlight(k) => \A j \in Slot : HubServing(j) => call[j].from # call[k].from

HubTakes(k) ==
    /\ HubReads(k)
    /\ HubStep(k)
    /\ UNCHANGED abandons

\* handleFrame(data-have): asks for what follows its own head, whatever the
\* announced one.
DeviceHave(k) ==
    /\ call[k].stage = "have"
    /\ Becomes(k, RequestFrom(k, HeadOf(k)))

DeviceEntries(k) ==
    /\ call[k].stage = "entries"
    /\ HandleDataEntries(k)

\* A full batch may have more behind it: one more round.
DeviceStored(k) ==
    WriteHead(k, IF Len(call[k].run) >= CatchUpBatchLimit THEN "again" ELSE "free")

\* requestCatchUp after a full batch, from the head as it is by then.
DeviceAsksAgain(k) ==
    /\ call[k].stage = "again"
    /\ Becomes(k, RequestFrom(k, HeadOf(k)))

DeviceTakes(k) ==
    /\ call[k].stage # "free"
    /\ call[k].at \in Device
    /\ \/ DeviceHave(k) \/ DeviceEntries(k) \/ WriteEntry(k) \/ DeviceStored(k) \/ DeviceAsksAgain(k)
       \/ HandleDataRequest(k, CatchUpBatchLimit) \/ ReadRun(k)
    /\ UNCHANGED <<mailboxVars, abandons>>

\* announceOwnLog on connecting, and the announcement that post() makes.
AnnounceOwnLog(k, d, to) ==
    /\ call[k] = Free
    /\ to # d
    /\ head[d][d] # 0
    /\ Becomes(k, Frame("have", to, d, d, head[d][d], <<>>))
    /\ UNCHANGED <<mailboxVars, abandons>>

\* requestCatchUp from sync() and pull(), for the log of another member.
RequestCatchUp(k, d, to, p) ==
    /\ call[k] = Free
    /\ to # d /\ p # d
    /\ Becomes(k, Frame("request", to, d, p, head[d][p], <<>>))
    /\ UNCHANGED <<mailboxVars, abandons>>

\* post(): appends to the own log.
Post(c) ==
    /\ AppendOwnEntry(c) \/ AppendWriteEntry(c) \/ AppendWriteHead(c)
    /\ UNCHANGED <<mailboxVars, abandons>>

\* A stream, a process or a storage operation fails.
Fails ==
    /\ abandons < MaxAbandons
    /\ abandons' = abandons + 1
    /\ \/ \E k \in Slot : HubAbandon(k)
       \/ \E c \in Caller : AbandonAppend(c) /\ UNCHANGED mailboxVars

Next ==
    \/ \E c \in Caller : Post(c)
    \/ \E k \in Slot : HubTakes(k) \/ DeviceTakes(k)
    \/ \E k \in Slot, d \in Peer, to \in Store : AnnounceOwnLog(k, d, to)
    \/ \E k \in Slot, d \in Device, to \in Store, p \in Peer : RequestCatchUp(k, d, to, p)
    \/ Fails

Spec == Init /\ [][Next]_vars

-----------------------------------------------------------------------------
Stages == {"have", "request", "entries", "reading", "writing", "again", "haveRoom", "haveOpen",
           "new", "room", "store", "bytes", "count", "counted"}

Calls == [stage : Stages, at : Store, from : Store, peer : Peer, seq : 0..MaxEntries,
          run : Seq(Contents), upto : 0..MaxEntries, done : 0..MaxEntries]

(* Whatever the interleaving of handlers, and wherever one of them is cut    *)
(* short, the part of a log below a store's head is the owner's own log:     *)
(* no hole, no entry at the wrong place, nothing the owner did not append    *)
(* (appendOwnEntry, handleDataRequest, handleDataEntries).                   *)
ReplicaIsPrefix ==
    \A s \in Store, p \in Peer :
        /\ head[s][p] <= head[p][p]
        /\ \A i \in 1..head[s][p] : entry[s][p][i] # Missing /\ entry[s][p][i] = entry[p][p][i]

LogAt(s, p) == [i \in 1..head[s][p] |-> entry[s][p][i]]

Promise == INSTANCE ReplicatedLog WITH log <- [p \in Peer |-> LogAt(p, p)],
                                       held <- [p \in Peer |-> LogAt(Hub, p)]

(* The hub's copy of a log implements the promise of a mailbox: a prefix     *)
(* of the owner's log that never shrinks (handleEntries, one connection per  *)
(* owner).                                                                   *)
MailboxKeepsPromise == Promise!Spec

(* Until a call is cut short after it stored a frame, the bytes counter of   *)
(* a log is what the log holds once the frame is counted, and no log         *)
(* outgrows maxLogBytes (handleEntries reads the counter before it stores    *)
(* and writes it after).                                                     *)
LogBytesBounded ==
    \A p \in Peer \ uncounted :
        /\ BytesOf(LogAt(Hub, p)) <= MaxLogBytes
        /\ \/ logBytes[p] = BytesOf(LogAt(Hub, p))
           \/ \E k \in Slot : AtHub(k, "bytes") /\ call[k].peer = p

=============================================================================
