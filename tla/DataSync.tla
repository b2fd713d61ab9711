------------------------------ MODULE DataSync ------------------------------
(***************************************************************************)
(* The have/request/entries primitive of core/data                         *)
(* (core/src/domain/data-sync.ts): stores that each hold a head and the    *)
(* entries of every log, and the functions that append to and replicate    *)
(* them.  Every storage.get and storage.set is an await, so a function is  *)
(* a call that takes one step per storage operation, and the steps of      *)
(* different calls interleave.                                             *)
(*                                                                         *)
(* A call also stands for the frame that will start it while that frame    *)
(* travels, so the number of calls bounds frames in flight and handlers    *)
(* under way together.  Frames on one stream keep their order, frames on   *)
(* different streams do not: the calls are unordered.  An entry is opaque  *)
(* bytes, modelled by the number of the append that made it.               *)
(***************************************************************************)
EXTENDS Integers, Sequences, FiniteSetsExt

CONSTANTS
    Store,        \* devices that hold logs
    Peer,         \* the devices that write a log of their own
    Caller,       \* callers of appendOwnEntry
    DeviceOf,     \* the device a caller runs on
    Slot,         \* bound: exchanges under way at once
    MaxEntries,   \* bound: entries of one log
    MaxAppends    \* bound: calls of appendOwnEntry

ASSUME SyncAssumption ==
    /\ Peer \subseteq Store
    /\ DeviceOf \in [Caller -> Peer]
    /\ MaxEntries \in Nat /\ MaxAppends \in Nat

VARIABLES
    head,      \* data/<peer>/head of each store, 0 when absent
    entry,     \* data/<peer>/entry/<seq> of each store
    call,      \* the exchange in each slot
    append,    \* the appendOwnEntry call of each caller
    appends    \* entries appended so far, which numbers their contents

syncVars == <<head, entry, call, append, appends>>

Seqs == 1..MaxEntries
Contents == 1..MaxAppends

\* A key that storage.get finds nothing under.
Missing == 0

NoAppend == [stage |-> "idle", seq |-> 0, content |-> Missing]

SyncInit ==
    /\ head = [s \in Store |-> [p \in Peer |-> 0]]
    /\ entry = [s \in Store |-> [p \in Peer |-> [i \in Seqs |-> Missing]]]
    /\ append = [c \in Caller |-> NoAppend]
    /\ appends = 0

-----------------------------------------------------------------------------
(* appendOwnEntry                                                            *)

\* Reads the head; the new entry goes right after it.
AppendOwnEntry(c) ==
    LET d == DeviceOf[c] IN
    /\ append[c].stage = "idle"
    /\ appends < MaxAppends
    /\ head[d][d] < MaxEntries
    /\ appends' = appends + 1
    /\ append' = [append EXCEPT ![c] =
                    [stage |-> "entry", seq |-> head[d][d] + 1, content |-> appends + 1]]
    /\ UNCHANGED <<head, entry, call>>

AppendWriteEntry(c) ==
    LET d == DeviceOf[c] IN
    /\ append[c].stage = "entry"
    /\ entry' = [entry EXCEPT ![d][d][append[c].seq] = append[c].content]
    /\ append' = [append EXCEPT ![c].stage = "head"]
    /\ UNCHANGED <<head, call, appends>>

AppendWriteHead(c) ==
    LET d == DeviceOf[c] IN
    /\ append[c].stage = "head"
    /\ head' = [head EXCEPT ![d][d] = append[c].seq]
    /\ append' = [append EXCEPT ![c] = NoAppend]
    /\ UNCHANGED <<entry, call, appends>>

\* The process dies or storage.set rejects part way.
AbandonAppend(c) ==
    /\ append[c].stage # "idle"
    /\ append' = [append EXCEPT ![c] = NoAppend]
    /\ UNCHANGED <<head, entry, call, appends>>

-----------------------------------------------------------------------------
(* Exchanges.  `at` is the store that has, or will receive, the exchange;    *)
(* `from` the store at the other end of the stream; `seq` the frame's        *)
(* head-seq or from-seq; `run` the entries read or carried, `upto` the last  *)
(* to read, `done` how many are written.                                     *)

Free == [stage |-> "free"]

Frame(stage, at, from, peer, seq, run) ==
    [stage |-> stage, at |-> at, from |-> from, peer |-> peer, seq |-> seq, run |-> run,
     upto |-> 0, done |-> 0]

HeadOf(k) == head[call[k].at][call[k].peer]

\* The exchange in slot k goes on as x, changing nothing in any store.
Becomes(k, x) ==
    /\ call' = [call EXCEPT ![k] = x]
    /\ UNCHANGED <<head, entry, append, appends>>

\* A data-request from the holder of this end to the other, from its own head.
RequestFrom(k, seq) == Frame("request", call[k].from, call[k].at, call[k].peer, seq, <<>>)

\* handleDataHave: null when the announced head is held already.
HandleDataHave(k) ==
    Becomes(k, IF HeadOf(k) >= call[k].seq THEN Free ELSE RequestFrom(k, HeadOf(k)))

\* handleDataRequest reads its head and settles how far to read.
HandleDataRequest(k, limit) ==
    /\ call[k].stage = "request"
    /\ Becomes(k, IF HeadOf(k) <= call[k].seq THEN Free
                  ELSE [call[k] EXCEPT !.stage = "reading",
                                       !.upto = Min({HeadOf(k), call[k].seq + limit})])

\* readRun, one entry at a time up to the first hole; then the reply is sent.
ReadRun(k) ==
    LET x == call[k]
        next == x.seq + Len(x.run) + 1 IN
    /\ x.stage = "reading"
    /\ Becomes(k, IF next <= x.upto /\ entry[x.at][x.peer][next] # Missing
                  THEN [x EXCEPT !.run = Append(@, entry[x.at][x.peer][next])]
                  ELSE IF x.run = <<>> THEN Free
                  ELSE Frame("entries", x.from, x.at, x.peer, x.seq, x.run))

\* Variant: a frame that starts at or before the head is let through.
HandleDataEntriesNoGapBelow(k) ==
    Becomes(k, IF call[k].seq > HeadOf(k) THEN Free ELSE [call[k] EXCEPT !.stage = "writing"])

\* handleDataEntries: refuses unless the frame starts right after the head it reads.
HandleDataEntries(k) ==
    Becomes(k, IF call[k].seq # HeadOf(k) THEN Free ELSE [call[k] EXCEPT !.stage = "writing"])

WriteEntry(k) ==
    LET x == call[k] IN
    /\ x.stage = "writing"
    /\ x.done < Len(x.run)
    /\ entry' = [entry EXCEPT ![x.at][x.peer][x.seq + x.done + 1] = x.run[x.done + 1]]
    /\ call' = [call EXCEPT ![k].done = @ + 1]
    /\ UNCHANGED <<head, append, appends>>

\* Variant: the head is written before the last entry.
WriteHeadFirst(k, then) ==
    LET x == call[k] IN
    /\ x.stage = "writing"
    /\ x.done + 1 >= Len(x.run)
    /\ head' = [head EXCEPT ![x.at][x.peer] = x.seq + Len(x.run)]
    /\ call' = [call EXCEPT ![k] = IF then = "free" THEN Free ELSE [x EXCEPT !.stage = then]]
    /\ UNCHANGED <<entry, append, appends>>

\* The head, last; the caller of handleDataEntries goes on at stage `then`.
WriteHead(k, then) ==
    LET x == call[k] IN
    /\ x.stage = "writing"
    /\ x.done = Len(x.run)
    /\ head' = [head EXCEPT ![x.at][x.peer] = x.seq + Len(x.run)]
    /\ call' = [call EXCEPT ![k] = IF then = "free" THEN Free ELSE [x EXCEPT !.stage = then]]
    /\ UNCHANGED <<entry, append, appends>>

\* The frame is lost with its stream, or the handler dies with its process or
\* with a storage operation that rejects.
Abandon(k) ==
    /\ call[k] # Free
    /\ Becomes(k, Free)

=============================================================================
