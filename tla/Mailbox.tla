------------------------------- MODULE Mailbox -------------------------------
(***************************************************************************)
(* The mailbox of a relay hub (core/src/domain/hub-mailbox.ts): a store    *)
(* that takes a log's haves and entries from its owner alone and bounds    *)
(* how many logs it holds and how large each may grow.  The counters are   *)
(* storage keys of their own, so every read and write of them is one more  *)
(* await between the steps of handleDataEntries.                           *)
(***************************************************************************)
EXTENDS DataSync

CONSTANTS
    Hub,             \* the store behind the mailbox
    MaxLogs,         \* limits.maxLogs
    MaxLogBytes,     \* limits.maxLogBytes
    MaxEntryBytes,   \* limits.maxEntryBytes
    ReadBatch,       \* limits.readBatch
    Size             \* the bytes of each entry

ASSUME MailboxAssumption ==
    /\ Hub \in Store \ Peer
    /\ MaxLogs \in Nat /\ MaxLogBytes \in Nat /\ MaxEntryBytes \in Nat
    /\ ReadBatch \in Nat \ {0}
    /\ Size \in [Contents -> Nat]

VARIABLES
    logBytes,    \* mailbox/<peer>/bytes
    logCount,    \* mailbox/log-count
    noted,       \* what the handler in each slot read before it stored or counted
    uncounted    \* history: logs whose bytes an abandoned call stored and never counted

mailboxVars == <<logBytes, logCount, noted, uncounted>>

Unread == [held |-> 0, isNew |-> FALSE]

MailboxInit ==
    /\ logBytes = [p \in Peer |-> 0]
    /\ logCount = 0
    /\ noted = [k \in Slot |-> Unread]
    /\ uncounted = {}

\* The bytes of a run of entries.
BytesOf(run) == MapThenSumSet(LAMBDA i : Size[run[i]], DOMAIN run)

AtHub(k, stage) == call[k].stage = stage /\ call[k].at = Hub

FromOwner(k) == call[k].from = call[k].peer

\* handleHave: only the owner announces; a log not held yet needs room for one more.
HubHave(k) ==
    /\ AtHub(k, "have")
    /\ Becomes(k, IF ~FromOwner(k) THEN Free
                  ELSE [call[k] EXCEPT !.stage = IF HeadOf(k) = 0 THEN "haveRoom" ELSE "haveOpen"])
    /\ UNCHANGED mailboxVars

HubHaveRoom(k) ==
    /\ AtHub(k, "haveRoom")
    /\ Becomes(k, IF logCount >= MaxLogs THEN Free ELSE [call[k] EXCEPT !.stage = "haveOpen"])
    /\ UNCHANGED mailboxVars

HubHaveOpen(k) ==
    /\ AtHub(k, "haveOpen")
    /\ HandleDataHave(k)
    /\ UNCHANGED mailboxVars

\* The handler goes on, with what it has read so far; the locals end with it.
Notes(k, note) == noted' = [noted EXCEPT ![k] = IF call'[k] = Free THEN Unread ELSE note]

\* handleEntries refuses a frame that is not the owner's, that has an entry too
\* large, or that would take the log past its bytes; the bytes held are read here.
HubEntries(k) ==
    LET x == call[k] IN
    /\ AtHub(k, "entries")
    /\ Becomes(k, IF \/ ~FromOwner(k)
                     \/ \E i \in 1..Len(x.run) : Size[x.run[i]] > MaxEntryBytes
                     \/ logBytes[x.peer] + BytesOf(x.run) > MaxLogBytes
                  THEN Free ELSE [x EXCEPT !.stage = "new"])
    /\ Notes(k, [held |-> logBytes[x.peer], isNew |-> FALSE])
    /\ UNCHANGED <<logBytes, logCount, uncounted>>

HubIsNewLog(k) ==
    /\ AtHub(k, "new")
    /\ Becomes(k, [call[k] EXCEPT !.stage = IF HeadOf(k) = 0 THEN "room" ELSE "store"])
    /\ Notes(k, [noted[k] EXCEPT !.isNew = HeadOf(k) = 0])
    /\ UNCHANGED <<logBytes, logCount, uncounted>>

HubRoom(k) ==
    /\ AtHub(k, "room")
    /\ Becomes(k, IF logCount >= MaxLogs THEN Free ELSE [call[k] EXCEPT !.stage = "store"])
    /\ Notes(k, noted[k])
    /\ UNCHANGED <<logBytes, logCount, uncounted>>

HubStore(k) ==
    /\ AtHub(k, "store")
    /\ HandleDataEntries(k)
    /\ Notes(k, noted[k])
    /\ UNCHANGED <<logBytes, logCount, uncounted>>

\* handleDataEntries returned; the bytes are still to be counted.
HubStored(k) ==
    /\ AtHub(k, "writing")
    /\ WriteHead(k, "bytes")
    /\ UNCHANGED mailboxVars

\* Variant: the frame's bytes written over what was held.
HubBytesOverwritten(k) ==
    LET x == call[k] IN
    /\ AtHub(k, "bytes")
    /\ logBytes' = [logBytes EXCEPT ![x.peer] = BytesOf(x.run)]
    /\ Becomes(k, IF noted[k].isNew /\ x.run # <<>> THEN [x EXCEPT !.stage = "count"] ELSE Free)
    /\ Notes(k, noted[k])
    /\ UNCHANGED <<logCount, uncounted>>

HubBytes(k) ==
    LET x == call[k] IN
    /\ AtHub(k, "bytes")
    /\ logBytes' = [logBytes EXCEPT ![x.peer] = noted[k].held + BytesOf(x.run)]
    /\ Becomes(k, IF noted[k].isNew /\ x.run # <<>> THEN [x EXCEPT !.stage = "count"] ELSE Free)
    /\ Notes(k, noted[k])
    /\ UNCHANGED <<logCount, uncounted>>

\* The number of logs is read afresh, then written back one higher.
HubReadCount(k) ==
    /\ AtHub(k, "count")
    /\ Becomes(k, [call[k] EXCEPT !.stage = "counted"])
    /\ Notes(k, [noted[k] EXCEPT !.held = logCount])
    /\ UNCHANGED <<logBytes, logCount, uncounted>>

HubWriteCount(k) ==
    /\ AtHub(k, "counted")
    /\ logCount' = noted[k].held + 1
    /\ Becomes(k, Free)
    /\ Notes(k, noted[k])
    /\ UNCHANGED <<logBytes, uncounted>>

\* A call abandoned after its head was written leaves its bytes, or its log, uncounted.
HubAbandon(k) ==
    /\ Abandon(k)
    /\ uncounted' = IF call[k].stage \in {"bytes", "count", "counted"}
                    THEN uncounted \cup {call[k].peer} ELSE uncounted
    /\ Notes(k, noted[k])
    /\ UNCHANGED <<logBytes, logCount>>

HubStep(k) ==
    \/ HubHave(k) \/ HubHaveRoom(k) \/ HubHaveOpen(k)
    \/ HubEntries(k) \/ HubIsNewLog(k) \/ HubRoom(k) \/ HubStore(k) \/ HubStored(k)
    \/ HubBytes(k) \/ HubReadCount(k) \/ HubWriteCount(k)
    \/ /\ call[k].stage # "free" /\ call[k].at = Hub
       /\ HandleDataRequest(k, ReadBatch) \/ ReadRun(k) \/ WriteEntry(k)
       /\ UNCHANGED mailboxVars

=============================================================================
