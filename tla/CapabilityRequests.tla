---- MODULE CapabilityRequests ----
(***************************************************************************)
(* One request for a capability (core/src/domain/capability-request.ts),   *)
(* or one push of a capability nobody asked for (capability-grant.ts),     *)
(* sent over a connection of its own (direct-manage-request.ts): it passes *)
(* the receiver's checks, waits for a decision under the receiver's timer, *)
(* and is answered; the asker may have given up by then.  The handler      *)
(* keeps nothing between requests, so one request is all there is to it.   *)
(*                                                                         *)
(* A token is what the receiver's checks find out about it.                *)
(***************************************************************************)
EXTENDS Naturals, Sequences

CONSTANT
    LastInstant   \* bound: the receiver's clock stops there

VARIABLES
    gated,    \* requireRequestToken
    ask,      \* what the request carries
    asker,    \* idle, waiting, or what the request came to for the asker
    stage,    \* where the receiver is with it
    settled,  \* what settled it at the receiver: no, accept, reject, timeout
    timer,    \* the receiver's timer is set
    answers,  \* the answers the receiver has sent, oldest first
    kept,     \* onGrant was called: the receiver has the pushed token
    instant   \* the receiver's clock

requestVars == <<gated, ask, asker, stage, settled, timer, answers, kept, instant>>

\* A request without valid-until has it after the end of time.
Open == LastInstant + 1

\* What verifyCapabilityToken says, and the claims the gate looks at.
Presented == [present : BOOLEAN, verified : BOOLEAN, covers : BOOLEAN,
              capability : {"manage:request", "this", "other"},
              requests : {"any", "this", "other"}]
\* A push has no valid-until.
Ask == [kind : {"request"}, capability : {"this", "other"}, token : Presented,
        validUntil : 0 .. Open]
    \union
       [kind : {"grant"}, capability : {"this", "other"}, token : Presented,
        validUntil : {Open}]

RequestsInit ==
    /\ gated \in BOOLEAN
    /\ ask \in Ask
    /\ asker = "idle"
    /\ stage = "none"
    /\ settled = "no"
    /\ timer = FALSE
    /\ answers = <<>>
    /\ kept = FALSE
    /\ instant = 0

(***************************************************************************)
(* The asker.                                                              *)
(***************************************************************************)
\* The connection is made; one to the wrong device is closed and given up.
SendDirectManageRequest(rightPeer) ==
    /\ asker = "idle"
    /\ IF rightPeer
       THEN asker' = "waiting" /\ stage' = "arrived"
       ELSE asker' = "refused" /\ UNCHANGED stage
    /\ UNCHANGED <<gated, ask, settled, timer, answers, kept, instant>>

\* waitForDirectManageResponse stops reading at the first.
FirstAnswer == Head(answers)

\* An answer that arrives in time; requestCapability keeps the token of
\* a grant and throws whatever else it is given.
ReceiveAnswer ==
    /\ asker = "waiting"
    /\ answers # <<>>
    /\ asker' = IF FirstAnswer = "ok" THEN "granted" ELSE "refused"
    /\ UNCHANGED <<gated, ask, stage, settled, timer, answers, kept, instant>>

\* The asker's own time is up, or the connection is lost: closed either way.
GiveUp ==
    /\ asker = "waiting"
    /\ asker' = "gone"
    /\ UNCHANGED <<gated, ask, stage, settled, timer, answers, kept, instant>>

(***************************************************************************)
(* The receiver.                                                           *)
(***************************************************************************)
\* respond: the answer is sent, and the connection closed.
Respond(code) == answers' = Append(answers, code)

Refuse(code) ==
    /\ Respond(code)
    /\ stage' = "refused"
    /\ UNCHANGED timer

\* checkRequestPermission, after its await: the code, or ok.
CheckRequestPermission ==
    IF ~ ask.token.present THEN "token_required"
    ELSE IF ~ ask.token.verified THEN "unverified"
    ELSE IF ask.token.capability # "manage:request" \/ ask.token.requests = "other"
    THEN "capability_mismatch"
    ELSE IF ask.token.covers THEN "ok" ELSE "scope_mismatch"

\* The rest of the handler: a request past its time is refused, any other is
\* put to the domain with the timer running.
PutToDomain ==
    IF ask.validUntil <= instant
    THEN Refuse("expired")
    ELSE stage' = "open" /\ timer' = TRUE /\ UNCHANGED answers

HandleRequest ==
    /\ stage = "arrived"
    /\ ask.kind = "request"
    /\ IF ask.capability = "other" THEN Refuse("malformed")
       ELSE IF gated THEN stage' = "gate" /\ UNCHANGED <<timer, answers>>
       ELSE PutToDomain
    /\ UNCHANGED <<gated, ask, asker, settled, kept, instant>>

PassGate ==
    /\ stage = "gate"
    /\ IF CheckRequestPermission = "ok" THEN PutToDomain
       ELSE Refuse(CheckRequestPermission)
    /\ UNCHANGED <<gated, ask, asker, settled, kept, instant>>

\* Variant: the timer answers and leaves the request unsettled.
TimerFiresUnsettled ==
    /\ timer
    /\ timer' = FALSE
    /\ settled = "no"
    /\ answers' = Append(answers, "timeout")
    /\ UNCHANGED <<gated, ask, asker, stage, settled, kept, instant>>

TimerFires ==
    /\ timer
    /\ timer' = FALSE
    /\ settled = "no"
    /\ settled' = "timeout"
    /\ Respond("timeout")
    /\ UNCHANGED <<gated, ask, asker, stage, kept, instant>>

\* decide, as often as the domain likes: only the first finds it unsettled.
Decide(kind) ==
    /\ stage = "open"
    /\ settled = "no"
    /\ settled' = kind
    /\ timer' = FALSE
    /\ IF kind = "reject"
       THEN Respond("denied") /\ UNCHANGED stage
       ELSE stage' = "minting" /\ UNCHANGED answers
    /\ UNCHANGED <<gated, ask, asker, kept, instant>>

\* Variant: a token that could not be minted is not reported.
FinishMintSilently(minted) ==
    /\ stage = "minting"
    /\ stage' = "minted"
    /\ answers' = IF minted THEN Append(answers, "ok") ELSE answers
    /\ UNCHANGED <<gated, ask, asker, settled, timer, kept, instant>>

FinishMint(minted) ==
    /\ stage = "minting"
    /\ stage' = "minted"
    /\ Respond(IF minted THEN "ok" ELSE "mint_failed")
    /\ UNCHANGED <<gated, ask, asker, settled, timer, kept, instant>>

\* handleCapabilityGrant: the pushed token is verified across an await.
HandleGrant ==
    /\ stage = "arrived"
    /\ ask.kind = "grant"
    /\ IF ask.capability = "other" \/ ~ ask.token.present THEN Refuse("malformed")
       ELSE stage' = "verifying" /\ UNCHANGED <<timer, answers>>
    /\ UNCHANGED <<gated, ask, asker, settled, kept, instant>>

\* The domain is told only of a token whose acceptance could be sent: not if
\* the connection is known to be gone.
FinishGrant ==
    /\ stage = "verifying"
    /\ IF ~ ask.token.verified THEN Refuse("unverified") /\ UNCHANGED kept
       ELSE IF ask.token.capability # "this"
       THEN Refuse("capability_mismatch") /\ UNCHANGED kept
       ELSE IF ~ ask.token.covers THEN Refuse("scope_mismatch") /\ UNCHANGED kept
       ELSE /\ stage' = "accepted"
            /\ \/ Respond("ok") /\ kept' = TRUE
               \/ asker = "gone" /\ UNCHANGED <<answers, kept>>
            /\ UNCHANGED timer
    /\ UNCHANGED <<gated, ask, asker, settled, instant>>

InstantPasses ==
    /\ instant < LastInstant
    /\ instant' = instant + 1
    /\ UNCHANGED <<gated, ask, asker, stage, settled, timer, answers, kept>>

RequestsNext ==
    \/ \E rightPeer \in BOOLEAN : SendDirectManageRequest(rightPeer)
    \/ ReceiveAnswer
    \/ GiveUp
    \/ HandleRequest
    \/ PassGate
    \/ TimerFires
    \/ \E kind \in {"accept", "reject"} : Decide(kind)
    \/ \E minted \in BOOLEAN : FinishMint(minted)
    \/ HandleGrant
    \/ FinishGrant
    \/ InstantPasses

\* The receiver's steps happen, its timer fires; nobody need ever decide.
RequestsFairness ==
    /\ WF_requestVars(HandleRequest)
    /\ WF_requestVars(PassGate)
    /\ WF_requestVars(TimerFires)
    /\ WF_requestVars(HandleGrant)
    /\ WF_requestVars(\E minted \in BOOLEAN : FinishMint(minted))

(***************************************************************************)
(* Properties.                                                             *)
(***************************************************************************)
\* A request gets one answer, that of whichever settled it first, the timer
\* or a decision, however they race and wherever the asker is by then
\* (settled in handleCapabilityRequest): a token only for an accepted request
\* that passed every check.  A push the domain was told of was answered ok.
OneAnswerPerRequest ==
    /\ Len(answers) <= 1
    /\ (answers = <<"ok">> /\ ask.kind = "request") =>
        /\ settled = "accept"
        /\ ask.capability = "this"
        /\ gated => CheckRequestPermission = "ok"
    /\ asker = "granted" => answers = <<"ok">>
    /\ kept => answers = <<"ok">>

\* A request that arrived is answered in the end, whether or not the domain
\* ever decides and whether or not a token can be minted.
EveryRequestIsAnswered ==
    (stage = "arrived" /\ ask.kind = "request") ~> answers # <<>>
====
