---- MODULE ThresholdParticipant ----
(***************************************************************************)
(* One device's part in threshold signing: the loop that answers           *)
(* threshold.commit, threshold.sign and threshold.abort                    *)
(* (adapters/threshold-participant.ts) over the nonce store it persists    *)
(* its round-1 nonces in (ports/nonce-store.ts).                           *)
(*                                                                         *)
(* A device starts one loop for each mesh session it answers on; the loops *)
(* share the nonce store and each keeps its own map of signing sessions.   *)
(* A loop handles one request at a time, and the loops of one device       *)
(* interleave at their awaits.  The store is durable: it survives a        *)
(* restart of the device, the maps and the loops do not.                   *)
(***************************************************************************)
EXTENDS Naturals, FiniteSets

CONSTANTS
    Participant,    \* the devices that hold a share of the group's key
    Loop,           \* the mesh sessions a device answers on
    SessionId,      \* session ids of signing sessions
    Subject,        \* what can be signed
    Authorises,     \* Authorises[p]: the subjects p's decide() accepts
    Threshold,      \* the shares a signature needs
    MaxNonce,       \* bound: the nonce pairs one device generates
    None            \* no subject, no session id

ASSUME ParticipantAssumption ==
    /\ Authorises \in [Participant -> SUBSET Subject]
    /\ Threshold \in Nat \ {0}
    /\ MaxNonce \in Nat
    /\ None \notin Subject

VARIABLES
    nonceStore,  \* nonceStore[p][s]: the pair persisted under s, or 0
    issued,      \* issued[p]: how many pairs p has generated; pairs are numbered
    current,     \* current[p]: the pairs generated since p last started
    sessions,    \* sessions[p][l][s]: the subject authorised under s, or None
    loop,        \* loop[p][l]: where the loop is in its current request
    shares       \* every signature share ever released

participantVars == <<nonceStore, issued, current, sessions, loop, shares>>

Nonce == 1 .. MaxNonce

\* The commitments a signing package carries: a pair for each signer, 0 for
\* a device that is not one.
Commitments == [Participant -> 0 .. MaxNonce]
NoCommitments == [p \in Participant |-> 0]
Signers(cs) == {p \in Participant : cs[p] # 0}

Share == [participant : Participant, nonce : Nonce,
          subject : Subject, commitments : Commitments]

\* Where a loop is, and what it holds there.
State(pc, sid, subject, nonce, cs) ==
    [pc |-> pc, sid |-> sid, subject |-> subject, nonce |-> nonce, commitments |-> cs]

Idle == State("idle", None, None, 0, NoCommitments)
Persisted(sid, subject, nonce) == State("persisted", sid, subject, nonce, NoCommitments)
Taken(sid, subject, nonce, cs) == State("taken", sid, subject, nonce, cs)

\* A handler threw: consume() ended, and nothing reads the stream any more.
Dead == State("dead", None, None, 0, NoCommitments)

ParticipantInit ==
    /\ nonceStore = [p \in Participant |-> [s \in SessionId |-> 0]]
    /\ issued = [p \in Participant |-> 0]
    /\ current = [p \in Participant |-> {}]
    /\ sessions = [p \in Participant |-> [l \in Loop |-> [s \in SessionId |-> None]]]
    /\ loop = [p \in Participant |-> [l \in Loop |-> Idle]]
    /\ shares = {}

\* What persist (n a pair), take and discard (n = 0) leave in the store.
Stored(p, sid, n) == [nonceStore EXCEPT ![p][sid] = n]

\* sessions.set and sessions.delete (v = None), and where a loop goes next.
SessionsWith(p, l, sid, v) == [sessions EXCEPT ![p][l][sid] = v]
LoopAt(p, l, state) == [loop EXCEPT ![p][l] = state]

\* A request is refused with an error and nothing else: its token is missing
\* or has lapsed, and, of a commit, the deadline has passed, the group is
\* unknown or decide() says no.
Refuse(p, l) ==
    /\ loop[p][l].pc = "idle"
    /\ UNCHANGED participantVars

(***************************************************************************)
(* threshold.commit.                                                       *)
(***************************************************************************)
\* Variant: the subject is not put to decide().
CommitPersistUndecided(p, l, sid, subject) ==
    /\ loop[p][l].pc = "idle"
    /\ issued[p] < MaxNonce
    /\ nonceStore[p][sid] = 0
    /\ issued' = [issued EXCEPT ![p] = @ + 1]
    /\ current' = [current EXCEPT ![p] = @ \union {issued[p] + 1}]
    /\ nonceStore' = Stored(p, sid, issued[p] + 1)
    /\ loop' = LoopAt(p, l, Persisted(sid, subject, issued[p] + 1))
    /\ UNCHANGED <<sessions, shares>>

\* A fresh pair is persisted before anything is said.  The store rejects a
\* session id it still holds a pair for; nothing catches that, and the loop
\* ends.
CommitPersist(p, l, sid, subject) ==
    /\ loop[p][l].pc = "idle"
    /\ subject \in Authorises[p]
    /\ issued[p] < MaxNonce
    /\ LET n == issued[p] + 1 IN
        /\ issued' = [issued EXCEPT ![p] = n]
        /\ current' = [current EXCEPT ![p] = @ \union {n}]
        /\ \/ /\ nonceStore[p][sid] # 0
              /\ loop' = LoopAt(p, l, Dead)
              /\ UNCHANGED nonceStore
           \/ /\ nonceStore[p][sid] = 0
              /\ nonceStore' = Stored(p, sid, n)
              /\ loop' = LoopAt(p, l, Persisted(sid, subject, n))
    /\ UNCHANGED <<sessions, shares>>

\* The rest of handleCommit: remember the subject, answer the commitment.
CommitRespond(p, l) ==
    /\ loop[p][l].pc = "persisted"
    /\ sessions' = SessionsWith(p, l, loop[p][l].sid, loop[p][l].subject)
    /\ loop' = LoopAt(p, l, Idle)
    /\ UNCHANGED <<nonceStore, issued, current, shares>>

(***************************************************************************)
(* threshold.sign.                                                         *)
(***************************************************************************)
\* No commit was answered here under sid: whatever the store holds is dropped.
SignUnknown(p, l, sid) ==
    /\ loop[p][l].pc = "idle"
    /\ sessions[p][l][sid] = None
    /\ nonceStore' = Stored(p, sid, 0)
    /\ UNCHANGED <<issued, current, sessions, loop, shares>>

\* The pair is gone (taken or discarded elsewhere): the session is forgotten.
SignUnavailable(p, l, sid) ==
    /\ loop[p][l].pc = "idle"
    /\ sessions[p][l][sid] # None
    /\ nonceStore[p][sid] = 0
    /\ sessions' = SessionsWith(p, l, sid, None)
    /\ UNCHANGED <<nonceStore, issued, current, loop, shares>>

\* FROST's round 2 refuses a package that has too few commitments or does
\* not carry the commitment of the very pair it is given.
Round2Accepts(p, nonce, cs) ==
    /\ cs[p] = nonce
    /\ Cardinality(Signers(cs)) >= Threshold

\* Variant: the pair is read and stays in the store.
SignTakeKeeping(p, l, sid, cs) ==
    /\ loop[p][l].pc = "idle"
    /\ sessions[p][l][sid] # None
    /\ nonceStore[p][sid] # 0
    /\ Round2Accepts(p, nonceStore[p][sid], cs)
    /\ loop' = LoopAt(p, l,
                Taken(sid, sessions[p][l][sid], nonceStore[p][sid], cs))
    /\ UNCHANGED <<nonceStore, issued, current, sessions, shares>>

\* The pair is taken, for good, and the share computed.  A refusal of
\* round 2 is an exception nothing catches: the loop ends.
SignTake(p, l, sid, cs) ==
    /\ loop[p][l].pc = "idle"
    /\ sessions[p][l][sid] # None
    /\ nonceStore[p][sid] # 0
    /\ nonceStore' = Stored(p, sid, 0)
    /\ \/ /\ ~ Round2Accepts(p, nonceStore[p][sid], cs)
          /\ loop' = LoopAt(p, l, Dead)
       \/ /\ Round2Accepts(p, nonceStore[p][sid], cs)
          /\ loop' = LoopAt(p, l,
                Taken(sid, sessions[p][l][sid], nonceStore[p][sid], cs))
    /\ UNCHANGED <<issued, current, sessions, shares>>

ShareOf(p, l) ==
    [participant |-> p, nonce |-> loop[p][l].nonce,
     subject |-> loop[p][l].subject, commitments |-> loop[p][l].commitments]

\* The envelope is minted; the session is forgotten and the share released.
SignRespond(p, l) ==
    /\ loop[p][l].pc = "taken"
    /\ shares' = shares \union {ShareOf(p, l)}
    /\ sessions' = SessionsWith(p, l, loop[p][l].sid, None)
    /\ loop' = LoopAt(p, l, Idle)
    /\ UNCHANGED <<nonceStore, issued, current>>

(***************************************************************************)
(* threshold.abort, and the device stopping and starting again.            *)
(***************************************************************************)
Abort(p, l, sid) ==
    /\ loop[p][l].pc = "idle"
    /\ sessions' = SessionsWith(p, l, sid, None)
    /\ nonceStore' = Stored(p, sid, 0)
    /\ UNCHANGED <<issued, current, loop, shares>>

\* Variant: the signing sessions are persisted beside the nonces.
RestartWithSessions(p) ==
    /\ loop' = [loop EXCEPT ![p] = [l \in Loop |-> Idle]]
    /\ current' = [current EXCEPT ![p] = {}]
    /\ UNCHANGED <<nonceStore, issued, sessions, shares>>

Restart(p) ==
    /\ sessions' = [sessions EXCEPT ![p] = [l \in Loop |-> [s \in SessionId |-> None]]]
    /\ loop' = [loop EXCEPT ![p] = [l \in Loop |-> Idle]]
    /\ current' = [current EXCEPT ![p] = {}]
    /\ UNCHANGED <<nonceStore, issued, shares>>

(***************************************************************************)
(* The participants under requests of any kind, at any time.               *)
(***************************************************************************)
Handle(p, l) ==
    \/ \E sid \in SessionId :
        \/ \E subject \in Subject : CommitPersist(p, l, sid, subject)
        \/ SignUnknown(p, l, sid)
        \/ SignUnavailable(p, l, sid)
        \/ \E cs \in Commitments : SignTake(p, l, sid, cs)
        \/ Abort(p, l, sid)
    \/ CommitRespond(p, l)
    \/ SignRespond(p, l)

ParticipantNext ==
    \/ \E p \in Participant, l \in Loop : Handle(p, l)
    \/ \E p \in Participant : Restart(p)

ParticipantSpec == ParticipantInit /\ [][ParticipantNext]_participantVars
====
