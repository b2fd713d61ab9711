---- MODULE ThresholdSigning ----
(***************************************************************************)
(* A group signs: identities that call signSubject                         *)
(* (adapters/threshold-identity.ts) through the network coordinator        *)
(* (adapters/threshold-network-coordinator.ts), and the participants of    *)
(* ThresholdParticipant that answer them.                                  *)
(*                                                                         *)
(* Several devices of a group may act as coordinator.  Each counts its     *)
(* session ids from 1, and again from 1 after it restarts.  Exposed        *)
(* participants also get requests nobody in this model waits for: a late   *)
(* request of a call that was given up, another implementation's, an       *)
(* application's abort.                                                    *)
(***************************************************************************)
EXTENDS ThresholdParticipant

CONSTANTS
    Coordinator,      \* the threshold identities, one per coordinating device
    Exposed           \* the participants that get requests no call waits for

ASSUME CoordinatorAssumption ==
    /\ SessionId \subseteq Nat
    /\ Exposed \subseteq Participant

VARIABLES
    nextSessionId,  \* nextSessionId[c]
    call,           \* call[c]: the signSubject call in progress
    inFlight,       \* inFlight[c]: participants whose request has not arrived
    handling,       \* handling[c]: the loops at work on c's requests
    awaiting,       \* awaiting[c]: participants whose outcome c waits for
    signatures      \* every signature signSubject returned

coordinatorVars == <<nextSessionId, call, inFlight, handling, awaiting, signatures>>
vars == <<participantVars, coordinatorVars>>

NoCall == [stage |-> "idle", sid |-> None, subject |-> None,
           commitments |-> NoCommitments, shares |-> {}]

Init ==
    /\ ParticipantInit
    /\ nextSessionId = [c \in Coordinator |-> 1]
    /\ call = [c \in Coordinator |-> NoCall]
    /\ inFlight = [c \in Coordinator |-> {}]
    /\ handling = [c \in Coordinator |-> {}]
    /\ awaiting = [c \in Coordinator |-> {}]
    /\ signatures = {}

(***************************************************************************)
(* signSubject.                                                            *)
(***************************************************************************)
\* The next session id is taken and every participant asked to commit.
BeginCall(c, subject) ==
    /\ call[c].stage = "idle"
    /\ nextSessionId[c] \in SessionId
    /\ call' = [call EXCEPT ![c] = [NoCall EXCEPT
            !.stage = "commit", !.sid = nextSessionId[c], !.subject = subject]]
    /\ nextSessionId' = [nextSessionId EXCEPT ![c] = @ + 1]
    /\ inFlight' = [inFlight EXCEPT ![c] = Participant]
    /\ awaiting' = [awaiting EXCEPT ![c] = Participant]
    /\ UNCHANGED <<participantVars, handling, signatures>>

\* commitRound has every outcome.  Enough commitments: each device that
\* committed is asked for its share; otherwise signSubject throws.
EndCommitRound(c) ==
    /\ call[c].stage = "commit"
    /\ awaiting[c] = {}
    /\ LET committed == Signers(call[c].commitments) IN
        \/ /\ Cardinality(committed) >= Threshold
           /\ call' = [call EXCEPT ![c].stage = "sign"]
           /\ inFlight' = [inFlight EXCEPT ![c] = committed]
           /\ awaiting' = [awaiting EXCEPT ![c] = committed]
        \/ /\ Cardinality(committed) < Threshold
           /\ call' = [call EXCEPT ![c] = NoCall]
           /\ UNCHANGED <<inFlight, awaiting>>
    /\ UNCHANGED <<participantVars, nextSessionId, handling, signatures>>

\* Aggregation needs a share of every signer of the package, each made for
\* this package and this subject; the result is verified before it is
\* returned, and anything else throws.
Aggregates(k) ==
    /\ {s.participant : s \in k.shares} = Signers(k.commitments)
    /\ \A s \in k.shares :
         s.subject = k.subject /\ s.commitments = k.commitments

EndSignRound(c) ==
    /\ call[c].stage = "sign"
    /\ awaiting[c] = {}
    /\ call' = [call EXCEPT ![c] = NoCall]
    /\ signatures' =
         IF Aggregates(call[c])
         THEN signatures \union {[subject |-> call[c].subject,
                                  commitments |-> call[c].commitments]}
         ELSE signatures
    /\ UNCHANGED <<participantVars, nextSessionId, inFlight, handling, awaiting>>

\* c stops waiting for p: the outcome of the request is a timeout error.
Timeout(c, p) ==
    /\ p \in awaiting[c]
    /\ awaiting' = [awaiting EXCEPT ![c] = @ \ {p}]
    /\ inFlight' = [inFlight EXCEPT ![c] = @ \ {p}]
    /\ handling' = [handling EXCEPT ![c] = {h \in @ : h[1] # p}]
    /\ UNCHANGED <<participantVars, nextSessionId, call, signatures>>

\* A request rejects (the connection closed): Promise.all rejects and so
\* does signSubject.
CallFails(c) ==
    /\ awaiting[c] # {}
    /\ call' = [call EXCEPT ![c] = NoCall]
    /\ awaiting' = [awaiting EXCEPT ![c] = {}]
    /\ inFlight' = [inFlight EXCEPT ![c] = {}]
    /\ handling' = [handling EXCEPT ![c] = {}]
    /\ UNCHANGED <<participantVars, nextSessionId, signatures>>

\* The coordinating device restarts: a new identity counts from 1.
CoordinatorRestart(c) ==
    /\ nextSessionId[c] # 1
    /\ nextSessionId' = [nextSessionId EXCEPT ![c] = 1]
    /\ call' = [call EXCEPT ![c] = NoCall]
    /\ awaiting' = [awaiting EXCEPT ![c] = {}]
    /\ inFlight' = [inFlight EXCEPT ![c] = {}]
    /\ handling' = [handling EXCEPT ![c] = {}]
    /\ UNCHANGED <<participantVars, signatures>>

(***************************************************************************)
(* Requests and responses.  From(c, p, stage): p receives c's request of   *)
(* that round.                                                             *)
(***************************************************************************)
From(c, p, stage) == call[c].stage = stage /\ p \in inFlight[c]

\* c's request is answered in the step that takes it, with an error.
Refused(c, p) ==
    /\ inFlight' = [inFlight EXCEPT ![c] = @ \ {p}]
    /\ awaiting' = [awaiting EXCEPT ![c] = @ \ {p}]
    /\ UNCHANGED <<nextSessionId, call, handling, signatures>>

\* c's request is taken up and not yet answered.
TakenUp(c, p, l) ==
    /\ inFlight' = [inFlight EXCEPT ![c] = @ \ {p}]
    /\ handling' = [handling EXCEPT ![c] = @ \union {<<p, l>>}]
    /\ UNCHANGED <<nextSessionId, call, awaiting, signatures>>

\* Loop l of p answers; the call that waits for this answer, if any, has
\* its record updated by Upd.
Answered(p, l, Upd(_)) ==
    LET waits(c) == <<p, l>> \in handling[c] IN
    /\ handling' = [c \in Coordinator |-> handling[c] \ {<<p, l>>}]
    /\ awaiting' = [c \in Coordinator |->
                      IF waits(c) THEN awaiting[c] \ {p} ELSE awaiting[c]]
    /\ call' = [c \in Coordinator |-> IF waits(c) THEN Upd(call[c]) ELSE call[c]]
    /\ UNCHANGED <<nextSessionId, inFlight, signatures>>

\* p handles a request of coordinator c.
CommitFor(c, p, l) ==
    /\ From(c, p, "commit")
    /\ \/ Refuse(p, l) /\ Refused(c, p)
       \/ CommitPersist(p, l, call[c].sid, call[c].subject) /\ TakenUp(c, p, l)

SignFor(c, p, l) ==
    /\ From(c, p, "sign")
    /\ \/ Refuse(p, l) /\ Refused(c, p)
       \/ SignUnknown(p, l, call[c].sid) /\ Refused(c, p)
       \/ SignUnavailable(p, l, call[c].sid) /\ Refused(c, p)
       \/ SignTake(p, l, call[c].sid, call[c].commitments) /\ TakenUp(c, p, l)

\* p handles a request that no call waits for.
Unawaited(p, l) ==
    /\ p \in Exposed
    /\ \E sid \in SessionId :
        \/ \E subject \in Subject : CommitPersist(p, l, sid, subject)
        \/ SignUnknown(p, l, sid)
        \/ SignUnavailable(p, l, sid)
        \/ \E cs \in Commitments : SignTake(p, l, sid, cs)
        \/ Abort(p, l, sid)
    /\ UNCHANGED coordinatorVars

AnswerCommit(p, l) ==
    /\ CommitRespond(p, l)
    /\ LET Upd(k) == [k EXCEPT !.commitments[p] = loop[p][l].nonce]
       IN Answered(p, l, Upd)

\* The envelope names the session it was made for, and the coordinator
\* drops one that names another.
AnswerSign(p, l) ==
    /\ SignRespond(p, l)
    /\ LET Upd(k) == IF loop[p][l].sid = k.sid
                     THEN [k EXCEPT !.shares = @ \union {ShareOf(p, l)}]
                     ELSE k
       IN Answered(p, l, Upd)

ParticipantRestart(p) ==
    /\ Restart(p)
    /\ handling' = [c \in Coordinator |-> {h \in handling[c] : h[1] # p}]
    /\ UNCHANGED <<nextSessionId, call, inFlight, awaiting, signatures>>

LoopStep(p, l) ==
    \/ AnswerCommit(p, l)
    \/ AnswerSign(p, l)
    \/ \E c \in Coordinator : CommitFor(c, p, l) \/ SignFor(c, p, l)

CoordinatorStep(c) ==
    \/ \E subject \in Subject : BeginCall(c, subject)
    \/ EndCommitRound(c)
    \/ EndSignRound(c)
    \/ \E p \in Participant : Timeout(c, p)
    \/ CallFails(c)
    \/ CoordinatorRestart(c)

Next ==
    \/ \E c \in Coordinator : CoordinatorStep(c)
    \/ \E p \in Participant, l \in Loop : LoopStep(p, l) \/ Unawaited(p, l)
    \/ \E p \in Participant : ParticipantRestart(p)

Spec == Init /\ [][Next]_vars

(***************************************************************************)
(* Properties.                                                             *)
(***************************************************************************)
LoopState ==
    [pc : {"idle", "persisted", "taken", "dead"}, sid : SessionId \union {None},
     subject : Subject \union {None}, nonce : 0 .. MaxNonce,
     commitments : Commitments]

Call ==
    [stage : {"idle", "commit", "sign"}, sid : SessionId \union {None},
     subject : Subject \union {None}, commitments : Commitments,
     shares : SUBSET Share]

\* The state of participants and coordinators is well formed.
TypeOK ==
    /\ nonceStore \in [Participant -> [SessionId -> 0 .. MaxNonce]]
    /\ issued \in [Participant -> 0 .. MaxNonce]
    /\ current \in [Participant -> SUBSET Nonce]
    /\ sessions \in [Participant -> [Loop -> [SessionId -> Subject \union {None}]]]
    /\ loop \in [Participant -> [Loop -> LoopState]]
    /\ shares \subseteq Share
    /\ nextSessionId \in [Coordinator -> Nat]
    /\ call \in [Coordinator -> Call]
    /\ inFlight \in [Coordinator -> SUBSET Participant]
    /\ handling \in [Coordinator -> SUBSET (Participant \X Loop)]
    /\ awaiting \in [Coordinator -> SUBSET Participant]
    /\ signatures \subseteq [subject : Subject, commitments : Commitments]

\* A nonce pair goes into at most one share, whatever requests arrive on
\* whichever of a device's loops, and across its restarts: two shares under
\* one pair would give the device's key share away.
NonceUsedOnce ==
    \A s, t \in shares :
        s.participant = t.participant /\ s.nonce = t.nonce => s = t

\* A restart between the two rounds fails closed: no share is ever released
\* under a pair that was generated before the device last started, although
\* the store still holds it.
FailsClosed ==
    [][\A s \in shares' \ shares : s.nonce \in current[s.participant]]_vars

\* A signature that signSubject returns is the group's decision: at least
\* Threshold devices, each of which accepts the subject, released a share
\* for exactly this subject and these commitments.
SignatureIsAuthorised ==
    \A g \in signatures :
        /\ Cardinality(Signers(g.commitments)) >= Threshold
        /\ \A p \in Signers(g.commitments) :
            /\ g.subject \in Authorises[p]
            /\ [participant |-> p, nonce |-> g.commitments[p],
                subject |-> g.subject, commitments |-> g.commitments] \in shares

\* A loop answers "for as long as the underlying stream produces requests"
\* (startThresholdParticipant): it never ends by itself.
LoopKeepsAnswering == \A p \in Participant, l \in Loop : loop[p][l].pc # "dead"
====
