---- MODULE NativeSession ----
(***************************************************************************)
(* The Rust runtime's session over one connection                          *)
(* (rust/crates/wire-mesh-core/src/domain/session.rs): a dispatch loop, a  *)
(* task for each request the peer makes, and any number of callers, on as  *)
(* many threads.  They share the flag `closed`, the map of pending calls   *)
(* (a std Mutex, held for one map operation at a time) and the connection  *)
(* (an async Mutex, held while a frame is sent).  The lifecycle events,    *)
(* which only report, are left out.                                        *)
(***************************************************************************)
EXTENDS Naturals, FiniteSets

CONSTANTS
    Call,       \* calls of send_manage_request and send_data_frame
    Timed,      \* those of them that are given a timeout
    DataCall,   \* those of them that send a data frame
    Task        \* requests the peer makes

VARIABLES
    stream,     \* the connection: "up", "over" once the peer's end is gone,
                \* "closed" once it was closed here
    holder,     \* who holds the connection's lock, or Nobody
    closedFlag, \* the flag `closed`
    table,      \* the pending map: calls that have an entry
    dispatch,   \* where the dispatch loop is
    aborting,   \* its task was told to abort
    caller,     \* caller[c]: where the call is
    reply,      \* reply[c]: what its oneshot channel carries
    answered,   \* the calls the peer has answered
    task,       \* task[t]: where the handling of a request is
    closer,     \* where the call of close() is
    handshakeSettled,   \* the first handshake came
    late        \* calls that began after `closed` was set

nativeVars == <<stream, holder, closedFlag, table, dispatch, aborting, caller, reply,
                 answered, task, closer, handshakeSettled, late>>

Nobody == <<"nobody">>
Holds(kind, x) == <<kind, x>>

NativeInit ==
    /\ stream = "up"
    /\ holder = Nobody
    /\ closedFlag = FALSE
    /\ table = {}
    /\ dispatch = "reading"
    /\ aborting = FALSE
    /\ caller = [c \in Call |-> "idle"]
    /\ reply = [c \in Call |-> "none"]
    /\ answered = {}
    /\ task = [t \in Task |-> "none"]
    /\ closer = "idle"
    /\ handshakeSettled = FALSE
    /\ late = {}

\* reject_all_pending: the map is drained, and every entry told.
RejectAllPending ==
    /\ reply' = [c \in Call |-> IF c \in table THEN "rejected" ELSE reply[c]]
    /\ table' = {}

(***************************************************************************)
(* run_dispatch_loop.                                                      *)
(***************************************************************************)
Reading == dispatch = "reading" /\ stream = "up"

\* The first handshake is negotiated, or fails to be; another is ignored.
\* Nothing here depends on which, and the session goes on either way.
OnHandshake ==
    /\ Reading
    /\ ~ handshakeSettled
    /\ handshakeSettled' = TRUE
    /\ UNCHANGED <<stream, holder, closedFlag, table, dispatch, aborting, caller, reply,
                   answered, task, closer, late>>

\* A response to a request that has left, though its sender may not have
\* been told so yet; its entry may be gone by now.
OnManageResponse(c) ==
    /\ Reading
    /\ caller[c] \in {"sending", "waiting", "settled"}
    /\ c \notin answered \union DataCall
    /\ answered' = answered \union {c}
    /\ table' = table \ {c}
    /\ reply' = IF c \in table THEN [reply EXCEPT ![c] = "outcome"] ELSE reply
    /\ UNCHANGED <<stream, holder, closedFlag, dispatch, aborting, caller, task, closer,
                   handshakeSettled, late>>

\* A request is handled by a task of its own, or refused there when its verb
\* has no handler.
OnManageRequest(t) ==
    /\ Reading
    /\ task[t] = "none"
    /\ task' = [task EXCEPT ![t] = "handling"]
    /\ UNCHANGED <<stream, holder, closedFlag, table, dispatch, aborting, caller, reply,
                   answered, closer, handshakeSettled, late>>

\* The stream ends: `closed` is set, and the pending calls are rejected,
\* without an await in between.
StreamEnds ==
    /\ dispatch = "reading"
    /\ stream' = IF stream = "up" THEN "over" ELSE stream
    /\ dispatch' = "storing"
    /\ UNCHANGED <<holder, closedFlag, table, aborting, caller, reply, answered, task,
                   closer, handshakeSettled, late>>

StoreClosed ==
    /\ dispatch = "storing"
    /\ closedFlag' = TRUE
    /\ dispatch' = "rejecting"
    /\ UNCHANGED <<stream, holder, table, aborting, caller, reply, answered, task, closer,
                   handshakeSettled, late>>

LoopRejects ==
    /\ dispatch = "rejecting"
    /\ RejectAllPending
    /\ dispatch' = "ended"
    /\ UNCHANGED <<stream, holder, closedFlag, aborting, caller, answered, task, closer,
                   handshakeSettled, late>>

\* An abort takes effect where the loop waits for a frame.
AbortTakesEffect ==
    /\ dispatch = "reading"
    /\ aborting
    /\ dispatch' = "aborted"
    /\ UNCHANGED <<stream, holder, closedFlag, table, aborting, caller, reply, answered,
                   task, closer, handshakeSettled, late>>

(***************************************************************************)
(* send_manage_request and send_data_frame.                                *)
(***************************************************************************)
\* Variant: a call does not look at `closed`.
BeginUnchecked(c) ==
    /\ caller[c] = "idle"
    /\ caller' = [caller EXCEPT ![c] = "checked"]
    /\ late' = IF closedFlag THEN late \union {c} ELSE late
    /\ UNCHANGED <<stream, holder, closedFlag, table, dispatch, aborting, reply, answered,
                   task, closer, handshakeSettled>>

\* A closed session refuses the call.
Begin(c) ==
    /\ caller[c] = "idle"
    /\ caller' = [caller EXCEPT ![c] = IF closedFlag THEN "failed" ELSE "checked"]
    /\ late' = IF closedFlag THEN late \union {c} ELSE late
    /\ UNCHANGED <<stream, holder, closedFlag, table, dispatch, aborting, reply, answered,
                   task, closer, handshakeSettled>>

\* A request is given its id and an entry before it is sent.
InsertEntry(c) ==
    /\ caller[c] = "checked"
    /\ caller' = [caller EXCEPT ![c] = "locking"]
    /\ table' = IF c \in DataCall THEN table ELSE table \union {c}
    /\ UNCHANGED <<stream, holder, closedFlag, dispatch, aborting, reply, answered, task,
                   closer, handshakeSettled, late>>

\* send_frame: the lock, then the connection's send.
LockToSend(c) ==
    /\ caller[c] = "locking"
    /\ holder = Nobody
    /\ holder' = Holds("call", c)
    /\ caller' = [caller EXCEPT ![c] = "sending"]
    /\ UNCHANGED <<stream, closedFlag, table, dispatch, aborting, reply, answered, task,
                   closer, handshakeSettled, late>>

\* A send may succeed on a connection whose other end is gone, never on one
\* that was closed here.
FrameSent(c, ok) ==
    /\ caller[c] = "sending"
    /\ ok => stream # "closed"
    /\ holder' = Nobody
    /\ caller' = [caller EXCEPT ![c] =
            IF ~ ok THEN "failed" ELSE IF c \in DataCall THEN "settled" ELSE "waiting"]
    /\ table' = IF ok THEN table ELSE table \ {c}
    /\ UNCHANGED <<stream, closedFlag, dispatch, aborting, reply, answered, task, closer,
                   handshakeSettled, late>>

\* The oneshot channel has something: an outcome, or the rejection.
Resolve(c) ==
    /\ caller[c] = "waiting"
    /\ reply[c] # "none"
    /\ caller' = [caller EXCEPT ![c] = IF reply[c] = "outcome" THEN "settled" ELSE "failed"]
    /\ UNCHANGED <<stream, holder, closedFlag, table, dispatch, aborting, reply, answered,
                   task, closer, handshakeSettled, late>>

Timeout(c) ==
    /\ caller[c] = "waiting"
    /\ c \in Timed
    /\ reply[c] = "none"
    /\ caller' = [caller EXCEPT ![c] = "settled"]
    /\ table' = table \ {c}
    /\ UNCHANGED <<stream, holder, closedFlag, dispatch, aborting, reply, answered, task,
                   closer, handshakeSettled, late>>

(***************************************************************************)
(* The answers to the peer's requests, and close().                        *)
(***************************************************************************)
LockToRespond(t) ==
    /\ task[t] = "handling"
    /\ holder = Nobody
    /\ holder' = Holds("task", t)
    /\ task' = [task EXCEPT ![t] = "responding"]
    /\ UNCHANGED <<stream, closedFlag, table, dispatch, aborting, caller, reply, answered,
                   closer, handshakeSettled, late>>

\* Whether the response went out is not looked at.
ResponseSent(t) ==
    /\ task[t] = "responding"
    /\ holder' = Nobody
    /\ task' = [task EXCEPT ![t] = "done"]
    /\ UNCHANGED <<stream, closedFlag, table, dispatch, aborting, caller, reply, answered,
                   closer, handshakeSettled, late>>

\* The first to set `closed` goes on, anyone else returns.
CloseSwap ==
    /\ closer = "idle"
    /\ closer' = IF closedFlag THEN "done" ELSE "swapped"
    /\ closedFlag' = TRUE
    /\ UNCHANGED <<stream, holder, table, dispatch, aborting, caller, reply, answered, task,
                   handshakeSettled, late>>

CloseRejects ==
    /\ closer = "swapped"
    /\ closer' = "locking"
    /\ aborting' = TRUE
    /\ RejectAllPending
    /\ UNCHANGED <<stream, holder, closedFlag, dispatch, caller, answered, task,
                   handshakeSettled, late>>

CloseConnection ==
    /\ closer = "locking"
    /\ holder = Nobody
    /\ closer' = "done"
    /\ stream' = "closed"
    /\ UNCHANGED <<holder, closedFlag, table, dispatch, aborting, caller, reply, answered,
                   task, handshakeSettled, late>>

LoopSteps == StoreClosed \/ LoopRejects \/ AbortTakesEffect
CallerSteps(c) ==
    InsertEntry(c) \/ LockToSend(c) \/ FrameSent(c, TRUE) \/ FrameSent(c, FALSE)
        \/ Resolve(c) \/ Timeout(c)
TaskSteps(t) == LockToRespond(t) \/ ResponseSent(t)
CloserSteps == CloseRejects \/ CloseConnection

NativeNext ==
    \/ OnHandshake
    \/ StreamEnds
    \/ CloseSwap
    \/ LoopSteps
    \/ CloserSteps
    \/ \E c \in Call : OnManageResponse(c) \/ Begin(c) \/ CallerSteps(c)
    \/ \E t \in Task : OnManageRequest(t) \/ TaskSteps(t)

(***************************************************************************)
(* Properties.                                                             *)
(***************************************************************************)
Over == dispatch \in {"ended", "aborted"} /\ closer \in {"idle", "done"}
Abandoned(c) == caller[c] = "waiting" /\ c \notin Timed /\ c \in table /\ Over

\* Once a session is over, a caller that is still waiting for an answer, and
\* has no timeout, is one that had got past the test of `closed` before the
\* session ended, and nobody who calls later is left behind; and a caller
\* that waits can still be told (send_manage_request, reject_all_pending).
OnlyOverlappingCallsAreLeft ==
    /\ \A c \in Call : Abandoned(c) => c \notin late
    /\ \A c \in Call : caller[c] = "waiting" /\ reply[c] = "none" /\ c \notin answered
            => c \in table
====
