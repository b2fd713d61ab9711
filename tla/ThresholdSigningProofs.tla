---- MODULE ThresholdSigningProofs ----
(***************************************************************************)
(* ThresholdSigning's safety for any number of participants, loops,        *)
(* coordinators, session ids and nonces.                                   *)
(*                                                                         *)
(* Every step of the composition is, for the participants, a step of       *)
(* ParticipantNext or none, so what concerns participants alone is proved  *)
(* of ParticipantNext, action by action.                                   *)
(***************************************************************************)
EXTENDS ThresholdSigning, FiniteSetTheorems, TLAPS

USE ParticipantAssumption

\* The participants' part of TypeOK, and what a loop holds while it works.
ParticipantType ==
    /\ nonceStore \in [Participant -> [SessionId -> 0 .. MaxNonce]]
    /\ issued \in [Participant -> 0 .. MaxNonce]
    /\ current \in [Participant -> SUBSET Nonce]
    /\ sessions \in [Participant -> [Loop -> [SessionId -> Subject \union {None}]]]
    /\ loop \in [Participant -> [Loop -> LoopState]]
    /\ shares \subseteq Share

Working ==
    \A p \in Participant, l \in Loop :
        loop[p][l].pc \in {"persisted", "taken"} =>
            /\ loop[p][l].sid \in SessionId
            /\ loop[p][l].subject \in Authorises[p]
            /\ loop[p][l].nonce \in Nonce

Remembered ==
    \A p \in Participant, l \in Loop, s \in SessionId :
        sessions[p][l][s] # None => sessions[p][l][s] \in Authorises[p]

ParticipantInv == ParticipantType /\ Working /\ Remembered

LEMMA IdleType ==
  /\ Idle \in LoopState /\ Dead \in LoopState
  /\ Idle.pc = "idle" /\ Dead.pc = "dead"
  /\ NoCommitments \in Commitments
  BY DEF Idle, Dead, State, LoopState, Commitments, NoCommitments

LEMMA IdlePc == Idle.pc = "idle" /\ Dead.pc = "dead"
  BY IdleType

LEMMA ParticipantInvInit ==
  ASSUME ParticipantInit
  PROVE  ParticipantInv
<1>1. ParticipantType
    BY IdleType DEF ParticipantInit, ParticipantType, Nonce
<1>2. Working /\ Remembered
    BY IdleType DEF ParticipantInit, Working, Remembered
<1> QED
    BY <1>1, <1>2 DEF ParticipantInv

(***************************************************************************)
(* What writing one entry of a nested map does, entry by entry.            *)
(***************************************************************************)
SessionsType == sessions \in [Participant -> [Loop -> [SessionId -> Subject \union {None}]]]
StoreType == nonceStore \in [Participant -> [SessionId -> 0 .. MaxNonce]]
LoopType == loop \in [Participant -> [Loop -> LoopState]]

SessionsChange(p, l, sid, v) ==
    \A q \in Participant, k \in Loop, s \in SessionId :
        sessions'[q][k][s] = IF q = p /\ k = l /\ s = sid THEN v ELSE sessions[q][k][s]

StoreChange(p, sid, n) ==
    \A q \in Participant, s \in SessionId :
         nonceStore'[q][s] = IF q = p /\ s = sid THEN n ELSE nonceStore[q][s]

LoopChange(p, l, r) ==
    \A q \in Participant, k \in Loop :
         loop'[q][k] = IF q = p /\ k = l THEN r ELSE loop[q][k]

LEMMA SessionsSet ==
  ASSUME ParticipantType, NEW p \in Participant, NEW l \in Loop, NEW sid \in SessionId,
         NEW v \in Subject \union {None}, sessions' = SessionsWith(p, l, sid, v)
  PROVE  SessionsChange(p, l, sid, v) /\ SessionsType'
  BY DEF ParticipantType, SessionsWith, SessionsChange, SessionsType

LEMMA StoreSet ==
  ASSUME ParticipantType, NEW p \in Participant, NEW sid \in SessionId,
         NEW n \in 0 .. MaxNonce, nonceStore' = Stored(p, sid, n)
  PROVE  StoreChange(p, sid, n) /\ StoreType'
  BY DEF ParticipantType, Stored, StoreChange, StoreType

LEMMA LoopSet ==
  ASSUME ParticipantType, NEW p \in Participant, NEW l \in Loop, NEW r \in LoopState,
         loop' = LoopAt(p, l, r)
  PROVE  LoopChange(p, l, r) /\ LoopType'
  BY DEF ParticipantType, LoopAt, LoopChange, LoopType

\* No change at all is the change of an entry to itself.
LEMMA Unset ==
  ASSUME ParticipantType, NEW p \in Participant, NEW l \in Loop, NEW sid \in SessionId
  PROVE  /\ sessions' = sessions =>
              SessionsChange(p, l, sid, sessions[p][l][sid]) /\ SessionsType'
         /\ nonceStore' = nonceStore =>
              StoreChange(p, sid, nonceStore[p][sid]) /\ StoreType'
         /\ loop' = loop => LoopType'
  BY DEF ParticipantType, SessionsChange, StoreChange, SessionsType, StoreType, LoopType

\* A loop that is at work after the change and was not put there by it is as
\* it was.
NoNewTaken == \A q \in Participant, k \in Loop :
    loop'[q][k].pc = "taken" => loop'[q][k] = loop[q][k]
NoNewPersisted == \A q \in Participant, k \in Loop :
    loop'[q][k].pc = "persisted" => loop'[q][k] = loop[q][k]

LEMMA LoopsKept ==
  ASSUME NEW p \in Participant, NEW l \in Loop, NEW r, LoopChange(p, l, r)
  PROVE  /\ r.pc # "taken" => NoNewTaken
         /\ r.pc # "persisted" => NoNewPersisted
  BY DEF LoopChange, NoNewTaken, NoNewPersisted

LEMMA RecordTypes ==
  ASSUME NEW sid \in SessionId, NEW subject \in Subject, NEW n \in Nonce, NEW cs \in Commitments
  PROVE  /\ Persisted(sid, subject, n) \in LoopState
         /\ Taken(sid, subject, n, cs) \in LoopState
  BY IdleType DEF Persisted, Taken, State, LoopState, Nonce

LEMMA RecordFields ==
  /\ \A sid, subject, n :
       /\ Persisted(sid, subject, n).pc = "persisted"
       /\ Persisted(sid, subject, n).sid = sid
       /\ Persisted(sid, subject, n).subject = subject
       /\ Persisted(sid, subject, n).nonce = n
  /\ \A sid, subject, n, cs :
       /\ Taken(sid, subject, n, cs).pc = "taken"
       /\ Taken(sid, subject, n, cs).sid = sid
       /\ Taken(sid, subject, n, cs).subject = subject
       /\ Taken(sid, subject, n, cs).nonce = n
       /\ Taken(sid, subject, n, cs).commitments = cs
  BY DEF Persisted, Taken, State

(***************************************************************************)
(* Each action, entry by entry.                                            *)
(***************************************************************************)
NewPair(p) ==
    /\ issued[p] + 1 \in Nonce
    /\ \A q \in Participant : issued'[q] = IF q = p THEN issued[p] + 1 ELSE issued[q]
    /\ \A q \in Participant :
         current'[q] = IF q = p THEN current[p] \union {issued[p] + 1} ELSE current[q]

CommitEffect(p, l, sid, subject) ==
    /\ subject \in Authorises[p]
    /\ NewPair(p)
    /\ \/ nonceStore' = nonceStore /\ LoopChange(p, l, Dead)
       \/ /\ nonceStore[p][sid] = 0
          /\ StoreChange(p, sid, issued[p] + 1)
          /\ LoopChange(p, l, Persisted(sid, subject, issued[p] + 1))
    /\ sessions' = sessions /\ shares' = shares

TakeEffect(p, l, sid, cs) ==
    /\ sessions[p][l][sid] # None /\ nonceStore[p][sid] # 0
    /\ StoreChange(p, sid, 0)
    /\ \/ LoopChange(p, l, Dead)
       \/ /\ Round2Accepts(p, nonceStore[p][sid], cs)
          /\ LoopChange(p, l, Taken(sid, sessions[p][l][sid], nonceStore[p][sid], cs))
    /\ issued' = issued /\ current' = current /\ sessions' = sessions /\ shares' = shares

ForgetEffect(p, l, sid) ==
    /\ StoreChange(p, sid, 0)
    /\ SessionsChange(p, l, sid, None)
    /\ issued' = issued /\ current' = current /\ loop' = loop /\ shares' = shares

RememberEffect(p, l) ==
    /\ loop[p][l].pc = "persisted"
    /\ LoopChange(p, l, Idle)
    /\ SessionsChange(p, l, loop[p][l].sid, loop[p][l].subject)
    /\ nonceStore' = nonceStore /\ issued' = issued /\ current' = current
    /\ shares' = shares

ReleaseEffect(p, l) ==
    /\ loop[p][l].pc = "taken"
    /\ shares' = shares \union {ShareOf(p, l)}
    /\ ShareOf(p, l) \in Share
    /\ LoopChange(p, l, Idle)
    /\ SessionsChange(p, l, loop[p][l].sid, None)
    /\ nonceStore' = nonceStore /\ issued' = issued /\ current' = current

RestartEffect(p) ==
    /\ \A q \in Participant, k \in Loop : loop'[q][k] = IF q = p THEN Idle ELSE loop[q][k]
    /\ \A q \in Participant, k \in Loop, s \in SessionId :
         sessions'[q][k][s] = IF q = p THEN None ELSE sessions[q][k][s]
    /\ \A q \in Participant : current'[q] = IF q = p THEN {} ELSE current[q]
    /\ nonceStore' = nonceStore /\ issued' = issued /\ shares' = shares

LEMMA CommitPersistHasEffect ==
  ASSUME ParticipantType, NEW p \in Participant, NEW l \in Loop,
         NEW sid \in SessionId, NEW subject \in Subject, CommitPersist(p, l, sid, subject)
  PROVE  CommitEffect(p, l, sid, subject) /\ ParticipantType'
<1> DEFINE n == issued[p] + 1
<1>1. /\ subject \in Authorises[p]
      /\ n \in Nonce /\ n \in 0 .. MaxNonce
    BY DEF CommitPersist, ParticipantType, Nonce
<1>2. /\ NewPair(p)
      /\ issued' \in [Participant -> 0 .. MaxNonce] /\ current' \in [Participant -> SUBSET Nonce]
    BY <1>1 DEF CommitPersist, ParticipantType, NewPair
<1>3. sessions' = sessions /\ shares' = shares
    BY DEF CommitPersist
<1>4. CASE nonceStore[p][sid] # 0
    <2>1. nonceStore' = nonceStore /\ loop' = LoopAt(p, l, Dead)
        BY <1>4 DEF CommitPersist
    <2>2. LoopChange(p, l, Dead) /\ LoopType'
        BY <2>1, LoopSet, IdleType
    <2> QED
        BY <1>1, <1>2, <1>3, <2>1, <2>2 DEF CommitEffect, ParticipantType, LoopType
<1>5. CASE nonceStore[p][sid] = 0
    <2>1. /\ nonceStore' = Stored(p, sid, n)
          /\ loop' = LoopAt(p, l, Persisted(sid, subject, n))
        BY <1>5 DEF CommitPersist
    <2> HIDE DEF n
    <2>2. StoreChange(p, sid, n) /\ StoreType'
        BY <1>1, <2>1, StoreSet
    <2>3. Persisted(sid, subject, n) \in LoopState
        BY <1>1, IdleType, RecordTypes
    <2>4. LoopChange(p, l, Persisted(sid, subject, n)) /\ LoopType'
        BY <2>1, <2>3, LoopSet
    <2> QED
        BY <1>1, <1>2, <1>3, <1>5, <2>2, <2>4
           DEF n, CommitEffect, ParticipantType, LoopType, StoreType
<1> QED
    BY <1>4, <1>5

LEMMA SignTakeHasEffect ==
  ASSUME ParticipantType, NEW p \in Participant, NEW l \in Loop,
         NEW sid \in SessionId, NEW cs \in Commitments, SignTake(p, l, sid, cs)
  PROVE  TakeEffect(p, l, sid, cs) /\ ParticipantType'
<1> DEFINE r == Taken(sid, sessions[p][l][sid], nonceStore[p][sid], cs)
<1>1. /\ sessions[p][l][sid] # None /\ nonceStore[p][sid] # 0
      /\ issued' = issued /\ current' = current /\ sessions' = sessions /\ shares' = shares
      /\ nonceStore' = Stored(p, sid, 0)
      /\ \/ loop' = LoopAt(p, l, Dead)
         \/ Round2Accepts(p, nonceStore[p][sid], cs) /\ loop' = LoopAt(p, l, r)
    BY DEF SignTake
<1>2. 0 \in 0 .. MaxNonce /\ sessions[p][l][sid] \in Subject /\ nonceStore[p][sid] \in Nonce
    BY <1>1 DEF ParticipantType, Nonce
<1>3. StoreChange(p, sid, 0) /\ StoreType'
    BY <1>1, <1>2, StoreSet
<1>4. r \in LoopState
    BY <1>2, RecordTypes
<1> HIDE DEF r
<1>5. /\ LoopType'
      /\ \/ LoopChange(p, l, Dead)
         \/ Round2Accepts(p, nonceStore[p][sid], cs) /\ LoopChange(p, l, r)
    BY <1>1, <1>4, LoopSet, IdleType
<1> QED
    BY <1>1, <1>3, <1>5 DEF r, TakeEffect, ParticipantType, StoreType, LoopType

LEMMA ForgetHasEffect ==
  ASSUME ParticipantType, NEW p \in Participant, NEW l \in Loop, NEW sid \in SessionId,
         SignUnknown(p, l, sid) \/ SignUnavailable(p, l, sid) \/ Abort(p, l, sid)
  PROVE  ForgetEffect(p, l, sid) /\ ParticipantType'
<1>1. 0 \in 0 .. MaxNonce /\ None \in Subject \union {None}
    OBVIOUS
<1>2. issued' = issued /\ current' = current /\ loop' = loop /\ shares' = shares
    BY DEF SignUnknown, SignUnavailable, Abort
<1>3. StoreChange(p, sid, 0) /\ StoreType'
    <2>1. nonceStore' = Stored(p, sid, 0) \/ (nonceStore' = nonceStore /\ nonceStore[p][sid] = 0)
        BY DEF SignUnknown, SignUnavailable, Abort
    <2> QED
        BY <1>1, <2>1, StoreSet, Unset
<1>4. SessionsChange(p, l, sid, None) /\ SessionsType'
    <2>1. \/ sessions' = SessionsWith(p, l, sid, None)
          \/ sessions' = sessions /\ sessions[p][l][sid] = None
        BY DEF SignUnknown, SignUnavailable, Abort
    <2> QED
        BY <1>1, <2>1, SessionsSet, Unset
<1> QED
    BY <1>2, <1>3, <1>4 DEF ForgetEffect, ParticipantType, StoreType, SessionsType

LEMMA CommitRespondHasEffect ==
  ASSUME ParticipantType, Working, NEW p \in Participant, NEW l \in Loop, CommitRespond(p, l)
  PROVE  RememberEffect(p, l) /\ ParticipantType'
<1>1. /\ loop[p][l].pc = "persisted"
      /\ sessions' = SessionsWith(p, l, loop[p][l].sid, loop[p][l].subject)
      /\ loop' = LoopAt(p, l, Idle)
      /\ nonceStore' = nonceStore /\ issued' = issued /\ current' = current
      /\ shares' = shares
    BY DEF CommitRespond
<1>2. loop[p][l].sid \in SessionId /\ loop[p][l].subject \in Subject \union {None}
    BY <1>1 DEF Working
<1>3. LoopChange(p, l, Idle) /\ LoopType'
    BY <1>1, LoopSet, IdleType
<1>4. SessionsChange(p, l, loop[p][l].sid, loop[p][l].subject) /\ SessionsType'
    BY <1>1, <1>2, SessionsSet
<1> QED
    BY <1>1, <1>3, <1>4 DEF RememberEffect, ParticipantType, LoopType, SessionsType

LEMMA SignRespondHasEffect ==
  ASSUME ParticipantType, Working, NEW p \in Participant, NEW l \in Loop, SignRespond(p, l)
  PROVE  ReleaseEffect(p, l) /\ ParticipantType'
<1>1. /\ loop[p][l].pc = "taken"
      /\ shares' = shares \union {ShareOf(p, l)}
      /\ sessions' = SessionsWith(p, l, loop[p][l].sid, None)
      /\ loop' = LoopAt(p, l, Idle)
      /\ nonceStore' = nonceStore /\ issued' = issued /\ current' = current
    BY DEF SignRespond
<1>2. loop[p][l].sid \in SessionId /\ None \in Subject \union {None}
    BY <1>1 DEF Working
<1>3. LoopChange(p, l, Idle) /\ LoopType'
    BY <1>1, LoopSet, IdleType
<1>4. ShareOf(p, l) \in Share
    <2>1. loop[p][l] \in LoopState /\ loop[p][l].nonce \in Nonce /\ loop[p][l].subject \in Subject
        BY <1>1 DEF ParticipantType, Working
    <2> QED
        BY <2>1 DEF ShareOf, Share, LoopState
<1>5. SessionsChange(p, l, loop[p][l].sid, None) /\ SessionsType'
    BY <1>1, <1>2, SessionsSet
<1> QED
    BY <1>1, <1>3, <1>4, <1>5 DEF ReleaseEffect, ParticipantType, LoopType, SessionsType

LEMMA RestartHasEffect ==
  ASSUME ParticipantType, NEW p \in Participant, Restart(p)
  PROVE  RestartEffect(p) /\ ParticipantType'
  BY IdleType DEF Restart, ParticipantType, RestartEffect

LEMMA HandleCases ==
  ASSUME ParticipantType, Working, NEW p \in Participant, NEW l \in Loop, Handle(p, l)
  PROVE  /\ \/ \E sid \in SessionId, subject \in Subject : CommitEffect(p, l, sid, subject)
            \/ \E sid \in SessionId, cs \in Commitments : TakeEffect(p, l, sid, cs)
            \/ \E sid \in SessionId : ForgetEffect(p, l, sid)
            \/ RememberEffect(p, l)
            \/ ReleaseEffect(p, l)
         /\ ParticipantType'
  BY CommitPersistHasEffect, SignTakeHasEffect, ForgetHasEffect, CommitRespondHasEffect,
     SignRespondHasEffect DEF Handle

(***************************************************************************)
(* ParticipantInv is inductive.                                            *)
(***************************************************************************)
LEMMA ParticipantTypeStep ==
  ASSUME ParticipantType, Working, [ParticipantNext]_participantVars
  PROVE  ParticipantType'
<1>1. CASE UNCHANGED participantVars
    BY <1>1 DEF participantVars, ParticipantType
<1> QED
    BY <1>1, HandleCases, RestartHasEffect DEF ParticipantNext

LEMMA WorkingLoop ==
  ASSUME Working, NEW p \in Participant, NEW l \in Loop, NEW r, LoopChange(p, l, r),
         r.pc \in {"persisted", "taken"} =>
            r.sid \in SessionId /\ r.subject \in Authorises[p] /\ r.nonce \in Nonce
  PROVE  Working'
<1> SUFFICES ASSUME NEW q \in Participant, NEW k \in Loop, loop'[q][k].pc \in {"persisted", "taken"}
             PROVE  /\ loop'[q][k].sid \in SessionId
                    /\ loop'[q][k].subject \in Authorises[q]
                    /\ loop'[q][k].nonce \in Nonce
    BY DEF Working
<1>1. CASE q = p /\ k = l
    BY <1>1 DEF LoopChange
<1>2. CASE loop'[q][k] = loop[q][k]
    BY <1>2 DEF Working
<1> QED
    BY <1>1, <1>2 DEF LoopChange

LEMMA RememberedSession ==
  ASSUME Remembered, NEW p \in Participant, NEW l \in Loop, NEW sid, NEW v,
         SessionsChange(p, l, sid, v), v # None => v \in Authorises[p]
  PROVE  Remembered'
  BY DEF SessionsChange, Remembered

LEMMA WorkingStep ==
  ASSUME ParticipantInv, [ParticipantNext]_participantVars
  PROVE  Working' /\ Remembered'
<1>0. ParticipantType /\ Working /\ Remembered
    BY DEF ParticipantInv
<1> HIDE ParticipantAssumption
<1>1. ASSUME NEW p \in Participant, NEW l \in Loop, NEW sid \in SessionId,
             NEW subject \in Subject, CommitEffect(p, l, sid, subject)
      PROVE  Working' /\ Remembered'
    <2> DEFINE r == Persisted(sid, subject, issued[p] + 1)
    <2>1. r.sid = sid /\ r.subject = subject /\ r.nonce = issued[p] + 1
        BY RecordFields
    <2>2. /\ subject \in Authorises[p] /\ issued[p] + 1 \in Nonce /\ sessions' = sessions
          /\ LoopChange(p, l, Dead) \/ LoopChange(p, l, r)
        BY <1>1 DEF CommitEffect, NewPair
    <2> HIDE DEF r
    <2>3. Working'
        BY <1>0, <2>1, <2>2, IdlePc, WorkingLoop
    <2>4. Remembered'
        BY <1>0, <2>2 DEF Remembered
    <2> QED
        BY <2>3, <2>4
<1>2. ASSUME NEW p \in Participant, NEW l \in Loop, NEW sid \in SessionId,
             NEW cs \in Commitments, TakeEffect(p, l, sid, cs)
      PROVE  Working' /\ Remembered'
    <2> DEFINE r == Taken(sid, sessions[p][l][sid], nonceStore[p][sid], cs)
    <2>1. sessions[p][l][sid] \in Authorises[p] /\ nonceStore[p][sid] \in Nonce
        BY <1>0, <1>2, ParticipantAssumption DEF TakeEffect, ParticipantType, Remembered, Nonce
    <2>2. r.sid \in SessionId /\ r.subject \in Authorises[p] /\ r.nonce \in Nonce
        BY <2>1, RecordFields
    <2>3. /\ LoopChange(p, l, Dead) \/ LoopChange(p, l, r)
          /\ sessions' = sessions
        BY <1>2 DEF TakeEffect
    <2> HIDE DEF r
    <2>4. Working'
        BY <1>0, <2>2, <2>3, IdlePc, WorkingLoop
    <2>5. Remembered'
        BY <1>0, <2>3 DEF Remembered
    <2> QED
        BY <2>4, <2>5
<1>3. ASSUME NEW p \in Participant, NEW l \in Loop, NEW sid \in SessionId, ForgetEffect(p, l, sid)
      PROVE  Working' /\ Remembered'
    <2>1. Working'
        BY ONLY <1>0, <1>3 DEF ForgetEffect, Working
    <2>2. Remembered'
        BY <1>0, <1>3, RememberedSession DEF ForgetEffect
    <2> QED
        BY <2>1, <2>2
<1>4. ASSUME NEW p \in Participant, NEW l \in Loop, RememberEffect(p, l)
      PROVE  Working' /\ Remembered'
    <2>1. /\ LoopChange(p, l, Idle) /\ loop[p][l].subject \in Authorises[p]
          /\ SessionsChange(p, l, loop[p][l].sid, loop[p][l].subject)
        BY <1>0, <1>4 DEF RememberEffect, Working
    <2> QED
        BY <1>0, <2>1, IdlePc, WorkingLoop, RememberedSession
<1>5. ASSUME NEW p \in Participant, NEW l \in Loop, ReleaseEffect(p, l)
      PROVE  Working' /\ Remembered'
    <2>1. LoopChange(p, l, Idle) /\ SessionsChange(p, l, loop[p][l].sid, None)
        BY <1>5 DEF ReleaseEffect
    <2> QED
        BY <1>0, <2>1, IdlePc, WorkingLoop, RememberedSession
<1>6. ASSUME NEW p \in Participant, RestartEffect(p)
      PROVE  Working' /\ Remembered'
    BY ONLY <1>0, <1>6, IdlePc DEF RestartEffect, Working, Remembered
<1>7. CASE UNCHANGED participantVars
    BY <1>0, <1>7 DEF participantVars, Working, Remembered
<1> QED
    BY <1>0, <1>1, <1>2, <1>3, <1>4, <1>5, <1>6, <1>7, HandleCases, RestartHasEffect
       DEF ParticipantNext

LEMMA ParticipantInvStep ==
  ASSUME ParticipantInv, [ParticipantNext]_participantVars
  PROVE  ParticipantInv'
  BY ParticipantTypeStep, WorkingStep DEF ParticipantInv

(***************************************************************************)
(* The nonce pairs.  A pair is in one place: under one session id of the   *)
(* store, with one loop that has taken it, or in the shares released.      *)
(***************************************************************************)
StoreApart ==
    /\ \A p \in Participant, s \in SessionId : nonceStore[p][s] <= issued[p]
    /\ \A p \in Participant, s, t \in SessionId :
         nonceStore[p][s] = nonceStore[p][t] => s = t \/ nonceStore[p][s] = 0

TakenAt(p, n) ==
    /\ n <= issued[p]
    /\ \A s \in SessionId : nonceStore[p][s] # n
    /\ \A x \in shares : x.participant = p => x.nonce # n

TakenOnce ==
    \A p \in Participant, l, k \in Loop :
        loop[p][l].pc = "taken" /\ loop[p][k].pc = "taken" /\ loop[p][k].nonce = loop[p][l].nonce
            => k = l

TakenApart ==
    /\ \A p \in Participant, l \in Loop :
         loop[p][l].pc = "taken" => TakenAt(p, loop[p][l].nonce)
    /\ TakenOnce

SharesApart ==
    \A x \in shares :
        /\ x.nonce <= issued[x.participant]
        /\ \A s \in SessionId : nonceStore[x.participant][s] # x.nonce

NonceInv == StoreApart /\ TakenApart /\ SharesApart /\ NonceUsedOnce

LEMMA NonceInvInit ==
  ASSUME ParticipantInit
  PROVE  NonceInv
  BY IdlePc DEF ParticipantInit, NonceInv, StoreApart, TakenApart, TakenOnce, SharesApart,
                NonceUsedOnce

NonceType ==
    /\ \A q \in Participant : issued[q] \in Nat
    /\ \A q \in Participant, s \in SessionId : nonceStore[q][s] \in Nat
    /\ \A q \in Participant, k \in Loop :
         loop[q][k].pc = "taken" => loop[q][k].nonce \in Nat /\ loop[q][k].nonce # 0
    /\ \A x \in shares : x.participant \in Participant /\ x.nonce \in Nat /\ x.nonce # 0

\* A step leaves an entry of the store, clears it or puts a new pair there.
StoreMoves ==
    /\ \A q \in Participant, s \in SessionId :
         nonceStore'[q][s] \in {nonceStore[q][s], 0, issued[q] + 1}
    /\ \A q \in Participant : issued'[q] \in Nat /\ issued[q] <= issued'[q]

TakenAfter(p, n) ==
    /\ n <= issued'[p]
    /\ \A s \in SessionId : nonceStore'[p][s] # n
    /\ \A x \in shares' : x.participant = p => x.nonce # n

LEMMA TakenStays ==
  ASSUME NonceType, StoreMoves, shares' = shares,
         NEW p \in Participant, NEW n \in Nat, n # 0, TakenAt(p, n)
  PROVE  TakenAfter(p, n)
  BY DEF NonceType, StoreMoves, TakenAt, TakenAfter

LEMMA TakenKept ==
  ASSUME NonceType, StoreMoves, shares' = shares, NoNewTaken, TakenApart
  PROVE  TakenApart'
<1>1. \A p \in Participant, l \in Loop :
        loop'[p][l].pc = "taken" => TakenAfter(p, loop'[p][l].nonce)
    <2> SUFFICES ASSUME NEW p \in Participant, NEW l \in Loop, loop'[p][l].pc = "taken"
                 PROVE  TakenAfter(p, loop'[p][l].nonce)
        OBVIOUS
    <2>1. loop'[p][l] = loop[p][l]
        BY DEF NoNewTaken
    <2>2. TakenAt(p, loop[p][l].nonce) /\ loop[p][l].nonce \in Nat /\ loop[p][l].nonce # 0
        BY <2>1 DEF TakenApart, NonceType
    <2> QED
        BY <2>1, <2>2, TakenStays
<1>2. TakenOnce'
    BY DEF NoNewTaken, TakenApart, TakenOnce
<1> QED
    BY <1>1, <1>2 DEF TakenApart, TakenAt, TakenAfter

LEMMA NonceInvStep ==
  ASSUME ParticipantInv, NonceInv, [ParticipantNext]_participantVars
  PROVE  NonceInv'
<1>0. NonceType /\ StoreApart /\ TakenApart /\ SharesApart /\ NonceUsedOnce
    BY DEF ParticipantInv, ParticipantType, LoopState, Share, Nonce, Working, NonceInv, NonceType
<1>1. ASSUME NEW p \in Participant, NEW l \in Loop, NEW sid \in SessionId,
             NEW subject \in Subject, CommitEffect(p, l, sid, subject)
      PROVE  NonceInv'
    <2> DEFINE r == Persisted(sid, subject, issued[p] + 1)
    <2>1. r.pc = "persisted"
        BY RecordFields
    <2>2. /\ NewPair(p) /\ shares' = shares
          /\ \/ nonceStore' = nonceStore /\ LoopChange(p, l, Dead)
             \/ StoreChange(p, sid, issued[p] + 1) /\ LoopChange(p, l, r)
        BY <1>1 DEF CommitEffect
    <2> HIDE DEF r
    <2>3. NoNewTaken
        BY <2>1, <2>2, LoopsKept, IdlePc
    <2>4. StoreMoves
        <3>1. \A q \in Participant : issued'[q] \in Nat /\ issued[q] <= issued'[q]
            BY ONLY <1>0, <2>2 DEF NonceType, NewPair
        <3>2. \A q \in Participant, s \in SessionId :
                nonceStore'[q][s] \in {nonceStore[q][s], 0, issued[q] + 1}
            BY ONLY <2>2 DEF StoreChange
        <3> QED
            BY ONLY <3>1, <3>2 DEF StoreMoves
    <2>5. TakenApart'
        BY <1>0, <2>2, <2>3, <2>4, TakenKept
    <2>6. SharesApart' /\ NonceUsedOnce'
        BY ONLY <1>0, <2>2, <2>4 DEF NonceType, StoreMoves, SharesApart, NonceUsedOnce
    <2>7. StoreApart'
        <3>1. CASE nonceStore' = nonceStore
            BY ONLY <1>0, <2>2, <3>1 DEF NonceType, NewPair, StoreApart
        <3>2. CASE StoreChange(p, sid, issued[p] + 1)
            <4>1. \A q \in Participant, s \in SessionId : nonceStore'[q][s] <= issued'[q]
                BY ONLY <1>0, <2>2, <3>2 DEF NonceType, NewPair, StoreChange, StoreApart
            <4>2. ASSUME NEW q \in Participant, NEW s \in SessionId, NEW t \in SessionId,
                         nonceStore'[q][s] = nonceStore'[q][t]
                  PROVE  s = t \/ nonceStore'[q][s] = 0
                BY ONLY <1>0, <3>2, <4>2 DEF NonceType, StoreChange, StoreApart
            <4> QED
                BY ONLY <4>1, <4>2 DEF StoreApart
        <3> QED
            BY <2>2, <3>1, <3>2
    <2> QED
        BY <2>5, <2>6, <2>7 DEF NonceInv
<1>2. ASSUME NEW p \in Participant, NEW l \in Loop, NEW sid \in SessionId,
             NEW cs \in Commitments, TakeEffect(p, l, sid, cs)
      PROVE  NonceInv'
    <2> DEFINE n == nonceStore[p][sid]
               r == Taken(sid, sessions[p][l][sid], n, cs)
    <2>1. r.pc = "taken" /\ r.nonce = n
        BY RecordFields
    <2> HIDE DEF r
    <2>2. /\ n # 0 /\ StoreChange(p, sid, 0)
          /\ LoopChange(p, l, Dead) \/ LoopChange(p, l, r)
          /\ issued' = issued /\ shares' = shares
        BY <1>2 DEF TakeEffect, r
    <2>3. n \in Nat /\ StoreMoves
        BY ONLY <1>0, <2>2 DEF NonceType, StoreChange, StoreMoves, n
    <2>4. StoreApart'
        BY ONLY <1>0, <2>2 DEF NonceType, StoreChange, StoreApart
    <2>5. SharesApart' /\ NonceUsedOnce'
        BY ONLY <1>0, <2>2 DEF NonceType, StoreChange, SharesApart, NonceUsedOnce
    <2>6. TakenAfter(p, n)
        BY ONLY <1>0, <2>2 DEF StoreChange, StoreApart, SharesApart, TakenAfter, n
    <2>7. TakenApart'
        <3>1. CASE LoopChange(p, l, Dead)
            BY <1>0, <2>2, <2>3, <3>1, LoopsKept, IdlePc, TakenKept
        <3>2. CASE LoopChange(p, l, r)
            <4>1. ASSUME NEW q \in Participant, NEW k \in Loop, ~ (q = p /\ k = l)
                  PROVE  loop'[q][k] = loop[q][k]
                BY ONLY <3>2, <4>1 DEF LoopChange
            <4>2. loop'[p][l] = r
                BY ONLY <3>2 DEF LoopChange
            <4>3. ASSUME NEW q \in Participant, NEW k \in Loop, loop'[q][k].pc = "taken"
                  PROVE  TakenAfter(q, loop'[q][k].nonce)
                <5>1. CASE q = p /\ k = l
                    BY <2>1, <2>6, <4>2, <5>1
                <5>2. CASE ~ (q = p /\ k = l)
                    <6>1. loop'[q][k] = loop[q][k]
                        BY <4>1, <5>2
                    <6>2. /\ TakenAt(q, loop[q][k].nonce)
                          /\ loop[q][k].nonce \in Nat /\ loop[q][k].nonce # 0
                        BY <1>0, <4>3, <6>1 DEF TakenApart, NonceType
                    <6> QED
                        BY <1>0, <2>2, <2>3, <6>1, <6>2, TakenStays
                <5> QED
                    BY <5>1, <5>2
            <4>4. ASSUME NEW k \in Loop, k # l, loop[p][k].pc = "taken"
                  PROVE  loop[p][k].nonce # n
                BY <1>0, <4>4 DEF TakenApart, TakenAt
            <4>5. TakenOnce'
                BY ONLY <1>0, <2>1, <4>1, <4>2, <4>4 DEF TakenApart, TakenOnce
            <4> QED
                BY ONLY <4>3, <4>5 DEF TakenApart, TakenAt, TakenAfter
        <3> QED
            BY <2>2, <3>1, <3>2
    <2> QED
        BY <2>4, <2>5, <2>7 DEF NonceInv
<1>3. ASSUME NEW p \in Participant, NEW l \in Loop, NEW sid \in SessionId, ForgetEffect(p, l, sid)
      PROVE  NonceInv'
    <2>1. /\ StoreChange(p, sid, 0)
          /\ issued' = issued /\ loop' = loop /\ shares' = shares
        BY <1>3 DEF ForgetEffect
    <2>2. StoreMoves
        BY ONLY <1>0, <2>1 DEF NonceType, StoreChange, StoreMoves
    <2>3. StoreApart' /\ SharesApart' /\ NonceUsedOnce'
        BY ONLY <1>0, <2>1 DEF NonceType, StoreChange, StoreApart, SharesApart, NonceUsedOnce
    <2>4. TakenApart'
        BY <1>0, <2>1, <2>2, TakenKept DEF NoNewTaken
    <2> QED
        BY <2>3, <2>4 DEF NonceInv
<1>4. ASSUME NEW p \in Participant, NEW l \in Loop, RememberEffect(p, l)
      PROVE  NonceInv'
    <2>1. /\ LoopChange(p, l, Idle)
          /\ nonceStore' = nonceStore /\ issued' = issued /\ shares' = shares
        BY <1>4 DEF RememberEffect
    <2>2. StoreMoves
        BY ONLY <1>0, <2>1 DEF NonceType, StoreMoves
    <2>3. StoreApart' /\ SharesApart' /\ NonceUsedOnce'
        BY ONLY <1>0, <2>1 DEF StoreApart, SharesApart, NonceUsedOnce
    <2>4. TakenApart'
        BY <1>0, <2>1, <2>2, LoopsKept, IdlePc, TakenKept
    <2> QED
        BY <2>3, <2>4 DEF NonceInv
<1>5. ASSUME NEW p \in Participant, NEW l \in Loop, ReleaseEffect(p, l)
      PROVE  NonceInv'
    <2> DEFINE x == ShareOf(p, l)
    <2>1. x.participant = p /\ x.nonce = loop[p][l].nonce
        BY DEF ShareOf
    <2> HIDE DEF x
    <2>2. /\ loop[p][l].pc = "taken" /\ LoopChange(p, l, Idle)
          /\ shares' = shares \union {x}
          /\ nonceStore' = nonceStore /\ issued' = issued
        BY <1>5 DEF ReleaseEffect, x
    <2>3. TakenAt(p, x.nonce)
        BY <1>0, <2>1, <2>2 DEF TakenApart
    <2>4. StoreApart'
        BY ONLY <1>0, <2>2 DEF StoreApart
    <2>5. SharesApart' /\ NonceUsedOnce'
        BY ONLY <1>0, <2>1, <2>2, <2>3 DEF TakenAt, SharesApart, NonceUsedOnce
    <2>6. ASSUME NEW q \in Participant, NEW k \in Loop, loop'[q][k].pc = "taken"
          PROVE  loop'[q][k] = loop[q][k] /\ ~ (q = p /\ k = l)
        BY ONLY <2>2, <2>6, IdlePc DEF LoopChange
    <2>7. ASSUME NEW q \in Participant, NEW k \in Loop, loop'[q][k].pc = "taken"
          PROVE  TakenAfter(q, loop'[q][k].nonce)
        <3>1. loop'[q][k] = loop[q][k] /\ ~ (q = p /\ k = l)
            BY <2>6, <2>7
        <3>2. TakenAt(q, loop[q][k].nonce) /\ (q = p => loop[q][k].nonce # x.nonce)
            BY <1>0, <2>1, <2>2, <2>7, <3>1 DEF TakenApart, TakenOnce
        <3> QED
            BY ONLY <2>1, <2>2, <3>1, <3>2 DEF TakenAt, TakenAfter
    <2>8. TakenOnce'
        BY ONLY <1>0, <2>6 DEF TakenApart, TakenOnce
    <2>9. TakenApart'
        BY ONLY <2>7, <2>8 DEF TakenApart, TakenAt, TakenAfter
    <2> QED
        BY <2>4, <2>5, <2>9 DEF NonceInv
<1>6. ASSUME NEW p \in Participant, Restart(p)
      PROVE  NonceInv'
    <2>1. RestartEffect(p)
        BY <1>6, RestartHasEffect DEF ParticipantInv
    <2>2. /\ NoNewTaken
          /\ nonceStore' = nonceStore /\ issued' = issued /\ shares' = shares
        BY ONLY <2>1, IdlePc DEF RestartEffect, NoNewTaken
    <2>3. StoreMoves
        BY ONLY <1>0, <2>2 DEF NonceType, StoreMoves
    <2>4. StoreApart' /\ SharesApart' /\ NonceUsedOnce'
        BY ONLY <1>0, <2>2 DEF StoreApart, SharesApart, NonceUsedOnce
    <2>5. TakenApart'
        BY <1>0, <2>2, <2>3, TakenKept
    <2> QED
        BY <2>4, <2>5 DEF NonceInv
<1>7. CASE UNCHANGED participantVars
    BY ONLY <1>0, <1>7
       DEF participantVars, NonceInv, NonceUsedOnce, StoreApart, TakenApart, TakenAt, TakenOnce,
           SharesApart
<1> QED
    BY <1>1, <1>2, <1>3, <1>4, <1>5, <1>6, <1>7, HandleCases DEF ParticipantNext, ParticipantInv

(***************************************************************************)
(* What a loop can sign with was generated since the device last started,  *)
(* although the store may hold older pairs.                                *)
(***************************************************************************)
FreshAt(p, s) == nonceStore[p][s] = 0 \/ nonceStore[p][s] \in current[p]

FreshInv ==
    /\ \A p \in Participant, l \in Loop, s \in SessionId :
         sessions[p][l][s] # None => FreshAt(p, s)
    /\ \A p \in Participant, l \in Loop :
         /\ loop[p][l].pc = "persisted" => FreshAt(p, loop[p][l].sid)
         /\ loop[p][l].pc = "taken" => loop[p][l].nonce \in current[p]

LEMMA FreshInvInit ==
  ASSUME ParticipantInit
  PROVE  FreshInv
  BY IdlePc DEF ParticipantInit, FreshInv

\* How a step may get there.
FreshAfter(p, s) == nonceStore'[p][s] = 0 \/ nonceStore'[p][s] \in current'[p]

FreshNext ==
    /\ \A q \in Participant, s \in SessionId : FreshAt(q, s) => FreshAfter(q, s)
    /\ \A q \in Participant, k \in Loop, s \in SessionId :
         sessions'[q][k][s] # None => sessions[q][k][s] # None \/ FreshAfter(q, s)
    /\ \A q \in Participant, k \in Loop :
         loop'[q][k].pc = "persisted" =>
            loop'[q][k] = loop[q][k] \/ FreshAfter(q, loop'[q][k].sid)
    /\ \A q \in Participant, k \in Loop :
         loop'[q][k].pc = "taken" =>
            \/ loop'[q][k] = loop[q][k] /\ current[q] \subseteq current'[q]
            \/ loop'[q][k].nonce \in current'[q]

LEMMA FreshStep ==
  ASSUME Working, FreshInv, FreshNext
  PROVE  FreshInv'
<1>1. ASSUME NEW p \in Participant, NEW l \in Loop, NEW s \in SessionId, sessions'[p][l][s] # None
      PROVE  FreshAfter(p, s)
    BY ONLY <1>1, FreshInv, FreshNext DEF FreshInv, FreshNext
<1>2. ASSUME NEW p \in Participant, NEW l \in Loop, loop'[p][l].pc = "persisted"
      PROVE  FreshAfter(p, loop'[p][l].sid)
    BY ONLY <1>2, Working, FreshInv, FreshNext DEF FreshInv, FreshNext, Working
<1>3. ASSUME NEW p \in Participant, NEW l \in Loop, loop'[p][l].pc = "taken"
      PROVE  loop'[p][l].nonce \in current'[p]
    BY ONLY <1>3, FreshInv, FreshNext DEF FreshInv, FreshNext
<1> QED
    BY ONLY <1>1, <1>2, <1>3 DEF FreshInv, FreshAt, FreshAfter

LEMMA FreshInvStep ==
  ASSUME ParticipantInv, FreshInv, [ParticipantNext]_participantVars
  PROVE  FreshInv'
<1>0. ParticipantType /\ Working /\ FreshInv
    BY DEF ParticipantInv
<1> HIDE ParticipantAssumption
<1>1. ASSUME NEW p \in Participant, NEW l \in Loop, NEW sid \in SessionId,
             NEW subject \in Subject, CommitEffect(p, l, sid, subject)
      PROVE  FreshNext
    <2> DEFINE n == issued[p] + 1
               r == Persisted(sid, subject, n)
    <2>1. r.pc = "persisted" /\ r.sid = sid
        BY RecordFields
    <2>2. /\ \A q \in Participant :
               current'[q] = IF q = p THEN current[p] \union {n} ELSE current[q]
          /\ sessions' = sessions
          /\ \/ nonceStore' = nonceStore /\ LoopChange(p, l, Dead)
             \/ StoreChange(p, sid, n) /\ LoopChange(p, l, r)
        BY <1>1 DEF CommitEffect, NewPair
    <2> HIDE DEF n, r
    <2>3. NoNewTaken
        BY <2>1, <2>2, LoopsKept, IdlePc
    <2>4. \A q \in Participant, s \in SessionId : FreshAt(q, s) => FreshAfter(q, s)
        BY ONLY <2>2 DEF StoreChange, FreshAt, FreshAfter
    <2>5. NoNewPersisted \/ (LoopChange(p, l, r) /\ FreshAfter(p, sid))
        <3>1. StoreChange(p, sid, n) => FreshAfter(p, sid)
            BY ONLY <2>2 DEF StoreChange, FreshAt, FreshAfter
        <3> QED
            BY <2>2, <3>1, LoopsKept, IdlePc
    <2>6. \A q \in Participant, k \in Loop :
            loop'[q][k].pc = "persisted" =>
                loop'[q][k] = loop[q][k] \/ FreshAfter(q, loop'[q][k].sid)
        BY ONLY <2>1, <2>5 DEF NoNewPersisted, LoopChange
    <2>7. \A q \in Participant : current[q] \subseteq current'[q]
        BY ONLY <2>2
    <2> QED
        BY ONLY <2>2, <2>3, <2>4, <2>6, <2>7 DEF FreshNext, NoNewTaken
<1>2. ASSUME NEW p \in Participant, NEW l \in Loop, NEW sid \in SessionId,
             NEW cs \in Commitments, TakeEffect(p, l, sid, cs)
      PROVE  FreshNext
    <2> DEFINE r == Taken(sid, sessions[p][l][sid], nonceStore[p][sid], cs)
    <2>1. r.pc = "taken" /\ r.nonce = nonceStore[p][sid]
        BY RecordFields
    <2> HIDE DEF r
    <2>2. /\ StoreChange(p, sid, 0) /\ (LoopChange(p, l, Dead) \/ LoopChange(p, l, r))
          /\ current' = current /\ sessions' = sessions
          /\ sessions[p][l][sid] # None /\ nonceStore[p][sid] # 0
        BY <1>2 DEF TakeEffect, r
    <2>3. r.nonce \in current[p]
        BY ONLY <1>0, <2>1, <2>2 DEF FreshInv, FreshAt
    <2>4. \A q \in Participant, s \in SessionId : FreshAt(q, s) => FreshAfter(q, s)
        BY ONLY <2>2 DEF StoreChange, FreshAt, FreshAfter
    <2>5. NoNewPersisted
        BY <2>1, <2>2, LoopsKept, IdlePc
    <2>6. NoNewTaken \/ LoopChange(p, l, r)
        BY <2>2, LoopsKept, IdlePc
    <2>7. \A q \in Participant, k \in Loop :
            loop'[q][k].pc = "taken" =>
                loop'[q][k] = loop[q][k] \/ loop'[q][k].nonce \in current'[q]
        BY ONLY <2>2, <2>3, <2>6 DEF NoNewTaken, LoopChange
    <2> QED
        BY ONLY <2>2, <2>4, <2>5, <2>7 DEF FreshNext, NoNewPersisted
<1>3. ASSUME NEW p \in Participant, NEW l \in Loop, NEW sid \in SessionId, ForgetEffect(p, l, sid)
      PROVE  FreshNext
    <2>1. /\ StoreChange(p, sid, 0) /\ SessionsChange(p, l, sid, None)
          /\ current' = current /\ loop' = loop
        BY <1>3 DEF ForgetEffect
    <2>2. \A q \in Participant, s \in SessionId : FreshAt(q, s) => FreshAfter(q, s)
        BY ONLY <2>1 DEF StoreChange, FreshAt, FreshAfter
    <2> QED
        BY ONLY <2>1, <2>2 DEF SessionsChange, FreshNext
<1>4. ASSUME NEW p \in Participant, NEW l \in Loop, RememberEffect(p, l)
      PROVE  FreshNext
    <2>1. /\ nonceStore' = nonceStore /\ current' = current
          /\ loop[p][l].pc = "persisted" /\ LoopChange(p, l, Idle)
          /\ SessionsChange(p, l, loop[p][l].sid, loop[p][l].subject)
        BY <1>4 DEF RememberEffect
    <2>2. \A q, s : FreshAfter(q, s) <=> FreshAt(q, s)
        BY ONLY <2>1 DEF FreshAt, FreshAfter
    <2>3. FreshAfter(p, loop[p][l].sid)
        BY ONLY <1>0, <2>1, <2>2 DEF FreshInv
    <2>4. NoNewTaken /\ NoNewPersisted
        BY <2>1, LoopsKept, IdlePc
    <2>5. \A q \in Participant, k \in Loop, s \in SessionId :
            sessions'[q][k][s] # None => sessions[q][k][s] # None \/ FreshAfter(q, s)
        BY ONLY <2>1, <2>2, <2>3 DEF SessionsChange
    <2> QED
        BY ONLY <2>1, <2>2, <2>4, <2>5 DEF FreshNext, NoNewTaken, NoNewPersisted
<1>5. ASSUME NEW p \in Participant, NEW l \in Loop, ReleaseEffect(p, l)
      PROVE  FreshNext
    <2>1. /\ nonceStore' = nonceStore /\ current' = current
          /\ LoopChange(p, l, Idle) /\ SessionsChange(p, l, loop[p][l].sid, None)
        BY <1>5 DEF ReleaseEffect
    <2>2. \A q, s : FreshAfter(q, s) <=> FreshAt(q, s)
        BY ONLY <2>1 DEF FreshAt, FreshAfter
    <2>3. NoNewTaken /\ NoNewPersisted
        BY <2>1, LoopsKept, IdlePc
    <2>5. \A q \in Participant, k \in Loop, s \in SessionId :
            sessions'[q][k][s] # None => sessions[q][k][s] # None \/ FreshAfter(q, s)
        BY ONLY <2>1 DEF SessionsChange
    <2> QED
        BY ONLY <2>1, <2>2, <2>3, <2>5 DEF FreshNext, NoNewTaken, NoNewPersisted
<1>6. ASSUME NEW p \in Participant, RestartEffect(p)
      PROVE  FreshInv'
    <2>1. ASSUME NEW q \in Participant, q = p
          PROVE  \A k \in Loop : /\ loop'[q][k].pc = "idle"
                                 /\ \A s \in SessionId : sessions'[q][k][s] = None
        BY ONLY <1>6, <2>1, IdlePc DEF RestartEffect
    <2>2. ASSUME NEW q \in Participant, q # p
          PROVE  /\ \A k \in Loop : /\ loop'[q][k] = loop[q][k]
                                    /\ \A s \in SessionId : sessions'[q][k][s] = sessions[q][k][s]
                 /\ nonceStore' = nonceStore /\ current'[q] = current[q]
        BY ONLY <1>6, <2>2 DEF RestartEffect
    <2> QED
        BY ONLY <1>0, <2>1, <2>2 DEF FreshInv, FreshAt
<1>7. CASE UNCHANGED participantVars
    BY <1>0, <1>7 DEF participantVars, FreshInv, FreshAt
<1> QED
    BY <1>0, <1>1, <1>2, <1>3, <1>4, <1>5, <1>6, <1>7, FreshStep, HandleCases, RestartHasEffect
       DEF ParticipantNext

LEMMA FreshShare ==
  ASSUME ParticipantInv, FreshInv, [ParticipantNext]_participantVars, NEW x \in shares' \ shares
  PROVE  x.nonce \in current[x.participant]
<1>1. PICK p \in Participant, l \in Loop : ReleaseEffect(p, l)
    BY HandleCases, RestartHasEffect
       DEF ParticipantInv, ParticipantNext, participantVars, CommitEffect, TakeEffect,
           ForgetEffect, RememberEffect, RestartEffect
<1>2. x = ShareOf(p, l)
    BY <1>1 DEF ReleaseEffect
<1>3. x.participant = p /\ x.nonce = loop[p][l].nonce
    BY <1>2 DEF ShareOf
<1> QED
    BY <1>1, <1>3 DEF ReleaseEffect, FreshInv

(***************************************************************************)
(* A share is made for a subject its device accepts and for a package that *)
(* carries that device's own pair and enough commitments.                  *)
(***************************************************************************)
ForPackage(p, n, cs) == cs[p] = n /\ Cardinality(Signers(cs)) >= Threshold

ShareInv ==
    /\ \A p \in Participant, l \in Loop :
         loop[p][l].pc = "taken" => ForPackage(p, loop[p][l].nonce, loop[p][l].commitments)
    /\ \A x \in shares :
         /\ x.subject \in Authorises[x.participant]
         /\ ForPackage(x.participant, x.nonce, x.commitments)

LEMMA ShareInvInit ==
  ASSUME ParticipantInit
  PROVE  ShareInv
  BY IdlePc DEF ParticipantInit, ShareInv

LEMMA SharesKept ==
  ASSUME ShareInv, NoNewTaken, shares' = shares
  PROVE  ShareInv' /\ shares \subseteq shares'
  BY ONLY ShareInv, NoNewTaken, shares' = shares DEF ShareInv, NoNewTaken

LEMMA ShareInvStep ==
  ASSUME ParticipantInv, ShareInv, [ParticipantNext]_participantVars
  PROVE  ShareInv' /\ shares \subseteq shares'
<1>0. ParticipantType /\ Working /\ ShareInv
    BY DEF ParticipantInv
<1> HIDE ParticipantAssumption
<1>1. ASSUME NEW p \in Participant, NEW l \in Loop, NEW sid \in SessionId,
             NEW subject \in Subject, CommitEffect(p, l, sid, subject)
      PROVE  ShareInv' /\ shares \subseteq shares'
    <2> DEFINE r == Persisted(sid, subject, issued[p] + 1)
    <2>1. r.pc = "persisted"
        BY RecordFields
    <2> HIDE DEF r
    <2>2. shares' = shares /\ (LoopChange(p, l, Dead) \/ LoopChange(p, l, r))
        BY <1>1 DEF CommitEffect, r
    <2> QED
        BY <2>1, <2>2, LoopsKept, IdlePc, SharesKept
<1>2. ASSUME NEW p \in Participant, NEW l \in Loop, NEW sid \in SessionId,
             NEW cs \in Commitments, TakeEffect(p, l, sid, cs)
      PROVE  ShareInv' /\ shares \subseteq shares'
    <2>1. Round2Accepts(p, nonceStore[p][sid], cs) => ForPackage(p, nonceStore[p][sid], cs)
        BY DEF Round2Accepts, ForPackage
    <2> DEFINE r == Taken(sid, sessions[p][l][sid], nonceStore[p][sid], cs)
    <2>2. r.nonce = nonceStore[p][sid] /\ r.commitments = cs
        BY DEF Taken, State
    <2> HIDE DEF r
    <2>3. /\ shares' = shares
          /\ \/ LoopChange(p, l, Dead)
             \/ ForPackage(p, r.nonce, r.commitments) /\ LoopChange(p, l, r)
        BY <1>2, <2>1, <2>2 DEF TakeEffect, r
    <2>4. CASE LoopChange(p, l, Dead)
        BY <2>3, <2>4, LoopsKept, IdlePc, SharesKept
    <2>5. CASE ForPackage(p, r.nonce, r.commitments) /\ LoopChange(p, l, r)
        BY ONLY <1>0, <2>3, <2>5 DEF ShareInv, LoopChange
    <2> QED
        BY <2>3, <2>4, <2>5
<1>3. ASSUME NEW p \in Participant, NEW l \in Loop, NEW sid \in SessionId, ForgetEffect(p, l, sid)
      PROVE  ShareInv' /\ shares \subseteq shares'
    BY ONLY <1>0, <1>3 DEF ForgetEffect, ShareInv
<1>4. ASSUME NEW p \in Participant, NEW l \in Loop, RememberEffect(p, l)
      PROVE  ShareInv' /\ shares \subseteq shares'
    BY <1>4, LoopsKept, IdlePc, SharesKept DEF RememberEffect
<1>5. ASSUME NEW p \in Participant, NEW l \in Loop, ReleaseEffect(p, l)
      PROVE  ShareInv' /\ shares \subseteq shares'
    <2> DEFINE x == ShareOf(p, l)
    <2>1. /\ x.participant = p /\ x.nonce = loop[p][l].nonce
          /\ x.subject = loop[p][l].subject /\ x.commitments = loop[p][l].commitments
        BY DEF ShareOf
    <2> HIDE DEF x
    <2>2. /\ loop[p][l].pc = "taken" /\ shares' = shares \union {x} /\ LoopChange(p, l, Idle)
        BY <1>5 DEF ReleaseEffect, x
    <2>3. x.subject \in Authorises[x.participant] /\ ForPackage(x.participant, x.nonce, x.commitments)
        BY ONLY <1>0, <2>1, <2>2 DEF Working, ShareInv
    <2>4. NoNewTaken
        BY <2>2, LoopsKept, IdlePc
    <2> QED
        BY ONLY <1>0, <2>2, <2>3, <2>4 DEF ShareInv, NoNewTaken
<1>6. ASSUME NEW p \in Participant, RestartEffect(p)
      PROVE  ShareInv' /\ shares \subseteq shares'
    BY ONLY <1>0, <1>6, IdlePc DEF RestartEffect, ShareInv
<1>7. CASE UNCHANGED participantVars
    BY <1>0, <1>7 DEF participantVars, ShareInv
<1> QED
    BY <1>0, <1>1, <1>2, <1>3, <1>4, <1>5, <1>6, <1>7, HandleCases, RestartHasEffect
       DEF ParticipantNext

(***************************************************************************)
(* The coordinators.                                                       *)
(***************************************************************************)
CoordinatorType ==
    /\ nextSessionId \in [Coordinator -> Nat]
    /\ call \in [Coordinator -> Call]
    /\ inFlight \in [Coordinator -> SUBSET Participant]
    /\ handling \in [Coordinator -> SUBSET (Participant \X Loop)]
    /\ awaiting \in [Coordinator -> SUBSET Participant]
    /\ signatures \subseteq [subject : Subject, commitments : Commitments]

\* A call in progress names a session and a subject, holds only shares that
\* were released, and asks for shares only once some device has committed.
CallOK(k) ==
    /\ k.stage # "idle" => k.sid \in SessionId /\ k.subject \in Subject
    /\ k.stage = "sign" => Signers(k.commitments) # {}

CallInv == \A c \in Coordinator : CallOK(call[c]) /\ call[c].shares \subseteq shares

NextCall(k) == k \in Call /\ CallOK(k)

LEMMA EnoughSigners ==
  ASSUME NEW S, Cardinality(S) >= Threshold
  PROVE  S # {}
<1>1. Cardinality({}) = 0
    BY FS_EmptySet
<1> QED
    BY <1>1

LEMMA NoCallOK == NextCall(NoCall) /\ NoCall.shares = {}
  BY IdleType DEF NoCall, NextCall, Call, CallOK

LEMMA StepOfParticipants ==
  ASSUME CoordinatorType, CallInv, [Next]_vars
  PROVE  [ParticipantNext]_participantVars
<1>1. CASE UNCHANGED vars
    BY <1>1 DEF vars
<1>2. ASSUME NEW c \in Coordinator, CoordinatorStep(c)
      PROVE  UNCHANGED participantVars
    BY <1>2 DEF CoordinatorStep, BeginCall, EndCommitRound, EndSignRound, Timeout, CallFails,
                CoordinatorRestart
<1>3. ASSUME NEW p \in Participant, NEW l \in Loop, NEW c \in Coordinator, CommitFor(c, p, l)
      PROVE  Handle(p, l) \/ UNCHANGED participantVars
    <2>1. call[c].sid \in SessionId /\ call[c].subject \in Subject
        BY <1>3 DEF CommitFor, From, CallInv, CallOK
    <2> QED
        BY <1>3, <2>1 DEF CommitFor, Handle, Refuse
<1>4. ASSUME NEW p \in Participant, NEW l \in Loop, NEW c \in Coordinator, SignFor(c, p, l)
      PROVE  Handle(p, l) \/ UNCHANGED participantVars
    <2>1. call[c].sid \in SessionId /\ call[c].commitments \in Commitments
        BY <1>4 DEF SignFor, From, CallInv, CallOK, CoordinatorType, Call
    <2> QED
        BY <1>4, <2>1 DEF SignFor, Handle, Refuse
<1>5. ASSUME NEW p \in Participant, NEW l \in Loop,
             AnswerCommit(p, l) \/ AnswerSign(p, l) \/ Unawaited(p, l)
      PROVE  Handle(p, l)
    BY <1>5 DEF AnswerCommit, AnswerSign, Unawaited, Handle
<1>6. ASSUME NEW p \in Participant, ParticipantRestart(p)
      PROVE  Restart(p)
    BY <1>6 DEF ParticipantRestart
<1> QED
    BY <1>1, <1>2, <1>3, <1>4, <1>5, <1>6 DEF Next, LoopStep, ParticipantNext

LEMMA CoordinatorInit ==
  ASSUME Init
  PROVE  CoordinatorType /\ CallInv /\ SignatureIsAuthorised
  BY NoCallOK DEF Init, CoordinatorType, CallInv, NextCall, SignatureIsAuthorised

\* What a step may make of the calls: each stays, ends, or goes on to a good
\* one whose shares have been released.
CallsGoOn ==
    /\ call' \in [Coordinator -> Call]
    /\ \A c \in Coordinator : CallOK(call'[c]) /\ call'[c].shares \subseteq shares'

LEMMA CallSet ==
  ASSUME CoordinatorType, CallInv, shares \subseteq shares', NEW c \in Coordinator, NEW k,
         NextCall(k), k.shares \subseteq shares', call' = [call EXCEPT ![c] = k]
  PROVE  CallsGoOn
  BY DEF CoordinatorType, CallInv, CallsGoOn, NextCall

LEMMA CallsStay ==
  ASSUME CoordinatorType, CallInv, shares \subseteq shares', call' = call
  PROVE  CallsGoOn
  BY DEF CoordinatorType, CallInv, CallsGoOn

LEMMA CoordinatorStepCalls ==
  ASSUME CoordinatorType, CallInv, NEW c \in Coordinator, CoordinatorStep(c)
  PROVE  CallsGoOn /\ CoordinatorType'
<1> USE CoordinatorAssumption
<1>0. shares' = shares
    BY DEF CoordinatorStep, BeginCall, EndCommitRound, EndSignRound, Timeout, CallFails,
           CoordinatorRestart, participantVars
<1>1. ASSUME NEW subject \in Subject, BeginCall(c, subject)
      PROVE  CallsGoOn /\ CoordinatorType'
    <2> DEFINE k == [NoCall EXCEPT !.stage = "commit", !.sid = nextSessionId[c],
                                   !.subject = subject]
    <2>1. NextCall(k) /\ k.shares = {} /\ call' = [call EXCEPT ![c] = k]
        BY <1>1, IdleType DEF BeginCall, NoCall, NextCall, Call, CallOK
    <2>2. CallsGoOn
        <3> HIDE DEF k
        <3> QED
            BY <1>0, <2>1, CallSet
    <2> QED
        BY <1>1, <2>2 DEF BeginCall, CallsGoOn, CoordinatorType
<1>2. CASE EndCommitRound(c)
    <2> DEFINE k == [call[c] EXCEPT !.stage = "sign"]
               committed == Signers(call[c].commitments)
    <2>1. /\ \/ /\ Cardinality(committed) >= Threshold
                /\ call' = [call EXCEPT ![c] = k]
                /\ inFlight' = [inFlight EXCEPT ![c] = committed]
                /\ awaiting' = [awaiting EXCEPT ![c] = committed]
             \/ /\ call' = [call EXCEPT ![c] = NoCall]
                /\ inFlight' = inFlight /\ awaiting' = awaiting
          /\ nextSessionId' = nextSessionId /\ handling' = handling /\ signatures' = signatures
          /\ call[c].stage = "commit"
        BY <1>2 DEF EndCommitRound
    <2>2. committed \in SUBSET Participant
        BY DEF Signers
    <2>3. CallsGoOn
        <3>1. CASE Cardinality(committed) >= Threshold /\ call' = [call EXCEPT ![c] = k]
            <4>1. committed # {}
                BY <3>1, EnoughSigners
            <4>2. NextCall(k) /\ k.shares = call[c].shares
                BY <2>1, <4>1 DEF NextCall, Call, CallOK, CallInv, CoordinatorType
            <4> HIDE DEF k
            <4> QED
                BY <1>0, <3>1, <4>2, CallSet DEF CallInv
        <3>2. CASE call' = [call EXCEPT ![c] = NoCall]
            BY <1>0, <3>2, NoCallOK, CallSet
        <3> QED
            BY <2>1, <3>1, <3>2
    <2> QED
        BY <2>1, <2>2, <2>3 DEF CallsGoOn, CoordinatorType
<1>3. CASE EndSignRound(c)
    <2>1. call' = [call EXCEPT ![c] = NoCall]
        BY <1>3 DEF EndSignRound
    <2>2. CallsGoOn
        BY <1>0, <2>1, NoCallOK, CallSet
    <2>3. [subject |-> call[c].subject, commitments |-> call[c].commitments]
            \in [subject : Subject, commitments : Commitments]
        BY <1>3 DEF EndSignRound, CallInv, CallOK, CoordinatorType, Call
    <2> QED
        BY <1>3, <2>2, <2>3 DEF EndSignRound, CallsGoOn, CoordinatorType
<1>4. ASSUME NEW p \in Participant, Timeout(c, p)
      PROVE  CallsGoOn /\ CoordinatorType'
    <2>1. CallsGoOn
        BY <1>0, <1>4, CallsStay DEF Timeout
    <2> QED
        BY <1>4, <2>1 DEF Timeout, CallsGoOn, CoordinatorType
<1>5. CASE CallFails(c)
    <2>1. CallsGoOn
        BY <1>0, <1>5, NoCallOK, CallSet DEF CallFails
    <2> QED
        BY <1>5, <2>1 DEF CallFails, CallsGoOn, CoordinatorType
<1>6. CASE CoordinatorRestart(c)
    <2>1. CallsGoOn
        BY <1>0, <1>6, NoCallOK, CallSet DEF CoordinatorRestart
    <2> QED
        BY <1>6, <2>1 DEF CoordinatorRestart, CallsGoOn, CoordinatorType
<1> QED
    BY <1>1, <1>2, <1>3, <1>4, <1>5, <1>6 DEF CoordinatorStep

\* A loop answers: the calls that wait for it take the commitment or the
\* share, which has been released by then.
AnsweredWith(p, l, calls) ==
    /\ handling' = [c \in Coordinator |-> handling[c] \ {<<p, l>>}]
    /\ awaiting' = [c \in Coordinator |->
                      IF <<p, l>> \in handling[c] THEN awaiting[c] \ {p} ELSE awaiting[c]]
    /\ call' = [c \in Coordinator |-> IF <<p, l>> \in handling[c] THEN calls[c] ELSE call[c]]
    /\ UNCHANGED <<nextSessionId, inFlight, signatures>>

LEMMA AnsweredCalls ==
  ASSUME CoordinatorType, CallInv, shares \subseteq shares',
         NEW p \in Participant, NEW l \in Loop, NEW calls, AnsweredWith(p, l, calls),
         \A c \in Coordinator : NextCall(calls[c]) /\ calls[c].shares \subseteq shares'
  PROVE  CallsGoOn /\ CoordinatorType'
<1>1. CallsGoOn
    BY DEF AnsweredWith, CoordinatorType, CallInv, CallsGoOn, NextCall
<1> QED
    BY <1>1 DEF AnsweredWith, CallsGoOn, CoordinatorType

LEMMA LoopStepCalls ==
  ASSUME ParticipantInv, ParticipantInv', CoordinatorType, CallInv, shares \subseteq shares',
         NEW p \in Participant, NEW l \in Loop, LoopStep(p, l)
  PROVE  CallsGoOn /\ CoordinatorType'
<1>1. CASE AnswerCommit(p, l)
    <2> DEFINE Upd(k) == [k EXCEPT !.commitments[p] = loop[p][l].nonce]
               calls == [c \in Coordinator |-> Upd(call[c])]
    <2>1. AnsweredWith(p, l, calls) /\ loop[p][l].nonce \in Nonce
        BY <1>1 DEF AnswerCommit, Answered, AnsweredWith, CommitRespond, ParticipantInv, Working
    <2>2. ASSUME NEW c \in Coordinator
          PROVE  NextCall(Upd(call[c])) /\ Upd(call[c]).shares \subseteq shares'
        <3> DEFINE k == call[c]
                   cs == [k.commitments EXCEPT ![p] = loop[p][l].nonce]
        <3>1. k \in Call /\ CallOK(k) /\ k.shares \subseteq shares
            BY DEF CoordinatorType, CallInv
        <3>2. cs \in Commitments /\ p \in Signers(cs)
            BY <2>1, <3>1 DEF Commitments, Signers, Call, Nonce
        <3>3. /\ Upd(k) \in Call /\ Upd(k).commitments = cs /\ Upd(k).shares = k.shares
              /\ Upd(k).stage = k.stage /\ Upd(k).sid = k.sid /\ Upd(k).subject = k.subject
            BY <3>1, <3>2 DEF Call
        <3> HIDE DEF k, cs, Upd
        <3>4. NextCall(Upd(k)) /\ Upd(k).shares \subseteq shares'
            BY <3>1, <3>2, <3>3 DEF NextCall, CallOK
        <3> QED
            BY <3>4 DEF k
    <2>4. \A c \in Coordinator : NextCall(calls[c]) /\ calls[c].shares \subseteq shares'
        <3> HIDE DEF Upd
        <3> QED
            BY <2>2
    <2> HIDE DEF calls
    <2> QED
        BY <2>1, <2>4, AnsweredCalls
<1>2. CASE AnswerSign(p, l)
    <2> DEFINE Upd(k) == IF loop[p][l].sid = k.sid
                         THEN [k EXCEPT !.shares = @ \union {ShareOf(p, l)}]
                         ELSE k
               calls == [c \in Coordinator |-> Upd(call[c])]
    <2>1. AnsweredWith(p, l, calls) /\ shares' = shares \union {ShareOf(p, l)}
        BY <1>2 DEF AnswerSign, Answered, AnsweredWith, SignRespond
    <2>2. ShareOf(p, l) \in Share
        BY <2>1 DEF ParticipantInv, ParticipantType
    <2>3. ASSUME NEW c \in Coordinator
          PROVE  NextCall(Upd(call[c])) /\ Upd(call[c]).shares \subseteq shares'
        <3> DEFINE k == call[c]
        <3>1. k \in Call /\ CallOK(k) /\ k.shares \subseteq shares
            BY DEF CoordinatorType, CallInv
        <3>2. /\ Upd(k) \in Call /\ Upd(k).commitments = k.commitments
              /\ Upd(k).shares \subseteq k.shares \union {ShareOf(p, l)}
              /\ Upd(k).stage = k.stage /\ Upd(k).sid = k.sid /\ Upd(k).subject = k.subject
            BY <2>2, <3>1 DEF Call
        <3> HIDE DEF k, Upd
        <3>3. NextCall(Upd(k)) /\ Upd(k).shares \subseteq shares'
            BY <2>1, <3>1, <3>2 DEF NextCall, CallOK
        <3> QED
            BY <3>3 DEF k
    <2>4. \A c \in Coordinator : NextCall(calls[c]) /\ calls[c].shares \subseteq shares'
        <3> HIDE DEF Upd
        <3> QED
            BY <2>3
    <2> HIDE DEF calls
    <2> QED
        BY <2>1, <2>4, AnsweredCalls
<1>3. ASSUME NEW c \in Coordinator, CommitFor(c, p, l) \/ SignFor(c, p, l)
      PROVE  CallsGoOn /\ CoordinatorType'
    <2>1. Refused(c, p) \/ TakenUp(c, p, l)
        BY <1>3 DEF CommitFor, SignFor
    <2>2. CallsGoOn
        BY <2>1, CallsStay DEF Refused, TakenUp
    <2>3. CASE Refused(c, p)
        BY <2>2, <2>3 DEF Refused, CallsGoOn, CoordinatorType
    <2>4. CASE TakenUp(c, p, l)
        <3>1. handling' \in [Coordinator -> SUBSET (Participant \X Loop)]
            BY <2>4 DEF TakenUp, CoordinatorType
        <3> QED
            BY <2>2, <2>4, <3>1 DEF TakenUp, CallsGoOn, CoordinatorType
    <2> QED
        BY <2>1, <2>3, <2>4
<1> QED
    BY <1>1, <1>2, <1>3 DEF LoopStep

LEMMA CallInvStep ==
  ASSUME ParticipantInv, ParticipantInv', CoordinatorType, CallInv, shares \subseteq shares',
         [Next]_vars
  PROVE  CallInv' /\ CoordinatorType'
<1>1. CASE UNCHANGED vars
    BY <1>1 DEF vars, coordinatorVars, participantVars, CallInv, CoordinatorType
<1>2. ASSUME NEW p \in Participant, NEW l \in Loop, Unawaited(p, l)
      PROVE  CallsGoOn /\ CoordinatorType'
    <2>1. UNCHANGED coordinatorVars
        BY <1>2 DEF Unawaited
    <2> QED
        BY <2>1, CallsStay DEF coordinatorVars, CoordinatorType
<1>3. ASSUME NEW p \in Participant, ParticipantRestart(p)
      PROVE  CallsGoOn /\ CoordinatorType'
    <2>1. CallsGoOn
        BY <1>3, CallsStay DEF ParticipantRestart
    <2> QED
        BY <1>3, <2>1 DEF ParticipantRestart, CallsGoOn, CoordinatorType
<1>4. CallsGoOn /\ CoordinatorType' => CallInv' /\ CoordinatorType'
    BY DEF CallsGoOn, CallInv
<1> QED
    BY <1>1, <1>2, <1>3, <1>4, LoopStepCalls, CoordinatorStepCalls DEF Next

(***************************************************************************)
(* Signatures.                                                             *)
(***************************************************************************)
Authorised(g, S) ==
    /\ Cardinality(Signers(g.commitments)) >= Threshold
    /\ \A p \in Signers(g.commitments) :
        /\ g.subject \in Authorises[p]
        /\ [participant |-> p, nonce |-> g.commitments[p],
            subject |-> g.subject, commitments |-> g.commitments] \in S

LEMMA AggregateAuthorised ==
  ASSUME ParticipantInv, ShareInv, CoordinatorType, CallInv, NEW c \in Coordinator,
         call[c].stage = "sign", Aggregates(call[c])
  PROVE  Authorised([subject |-> call[c].subject, commitments |-> call[c].commitments], shares)
<1> DEFINE k == call[c]
           cs == k.commitments
<1>1. /\ k.shares \subseteq shares /\ shares \subseteq Share
      /\ Signers(cs) # {}
      /\ {s.participant : s \in k.shares} = Signers(cs)
      /\ \A s \in k.shares : s.subject = k.subject /\ s.commitments = cs
    BY DEF CallInv, CallOK, Aggregates, ParticipantInv, ParticipantType
<1>2. ASSUME NEW p \in Signers(cs)
      PROVE  /\ Cardinality(Signers(cs)) >= Threshold
             /\ k.subject \in Authorises[p]
             /\ [participant |-> p, nonce |-> cs[p], subject |-> k.subject,
                 commitments |-> cs] \in shares
    <2>1. PICK x \in k.shares : x.participant = p
        BY <1>1
    <2>2. /\ x \in shares /\ x \in Share /\ x.subject = k.subject /\ x.commitments = cs
          /\ x.subject \in Authorises[p]
          /\ cs[p] = x.nonce /\ Cardinality(Signers(cs)) >= Threshold
        BY <1>1, <2>1 DEF ShareInv, ForPackage
    <2>3. x = [participant |-> p, nonce |-> cs[p], subject |-> k.subject, commitments |-> cs]
        BY <2>1, <2>2 DEF Share
    <2> QED
        BY <2>2, <2>3
<1> HIDE DEF k, cs
<1>3. Authorised([subject |-> k.subject, commitments |-> cs], shares)
    BY <1>1, <1>2 DEF Authorised
<1> QED
    BY <1>3 DEF k, cs

LEMMA SignatureStep ==
  ASSUME ParticipantInv, ShareInv, CoordinatorType, CallInv, SignatureIsAuthorised,
         shares \subseteq shares', [Next]_vars
  PROVE  SignatureIsAuthorised'
<1>1. \A g \in signatures : Authorised(g, shares')
    BY DEF SignatureIsAuthorised, Authorised
<1>2. \A g \in signatures' : Authorised(g, shares')
    <2>1. CASE signatures' = signatures
        BY <1>1, <2>1
    <2>2. CASE signatures' # signatures
        <3>1. PICK c \in Coordinator : EndSignRound(c)
            <4>1. ASSUME NEW c \in Coordinator, CoordinatorStep(c)
                  PROVE  EndSignRound(c) \/ signatures' = signatures
                BY <4>1 DEF CoordinatorStep, BeginCall, EndCommitRound, Timeout, CallFails,
                            CoordinatorRestart
            <4>2. ASSUME NEW p \in Participant, NEW l \in Loop, LoopStep(p, l) \/ Unawaited(p, l)
                  PROVE  signatures' = signatures
                BY <4>2 DEF LoopStep, Unawaited, coordinatorVars, AnswerCommit, AnswerSign,
                            Answered, CommitFor, SignFor, Refused, TakenUp
            <4>3. ASSUME NEW p \in Participant, ParticipantRestart(p)
                  PROVE  signatures' = signatures
                BY <4>3 DEF ParticipantRestart
            <4> QED
                BY <2>2, <4>1, <4>2, <4>3 DEF Next, vars, coordinatorVars
        <3> DEFINE g == [subject |-> call[c].subject, commitments |-> call[c].commitments]
        <3>2. /\ signatures' = signatures \union {g}
              /\ call[c].stage = "sign" /\ Aggregates(call[c]) /\ shares' = shares
            BY <2>2, <3>1 DEF EndSignRound, participantVars
        <3>3. Authorised(g, shares)
            BY <3>2, AggregateAuthorised
        <3> HIDE DEF g
        <3> QED
            BY <1>1, <3>2, <3>3
    <2> QED
        BY <2>1, <2>2
<1> QED
    BY <1>2 DEF SignatureIsAuthorised, Authorised

(***************************************************************************)
(* The theorems.                                                           *)
(***************************************************************************)
Inv ==
    /\ ParticipantInv /\ NonceInv /\ FreshInv /\ ShareInv
    /\ CoordinatorType /\ CallInv /\ SignatureIsAuthorised

LEMMA InvInit == Init => Inv
  BY ParticipantInvInit, NonceInvInit, FreshInvInit, ShareInvInit, CoordinatorInit
     DEF Init, Inv

LEMMA InvStep == Inv /\ [Next]_vars => Inv' /\ [ParticipantNext]_participantVars
<1> SUFFICES ASSUME Inv, [Next]_vars
             PROVE  Inv' /\ [ParticipantNext]_participantVars
    OBVIOUS
<1>1. [ParticipantNext]_participantVars
    BY StepOfParticipants DEF Inv
<1>2. ParticipantInv' /\ NonceInv' /\ FreshInv' /\ ShareInv' /\ shares \subseteq shares'
    BY <1>1, ParticipantInvStep, NonceInvStep, FreshInvStep, ShareInvStep DEF Inv
<1>3. CallInv' /\ CoordinatorType' /\ SignatureIsAuthorised'
    BY <1>2, CallInvStep, SignatureStep DEF Inv
<1> QED
    BY <1>1, <1>2, <1>3 DEF Inv

LEMMA InvAlways == Spec => []Inv
  BY InvInit, InvStep, PTL DEF Spec

\* The state of participants and coordinators is well formed (TypeOK).
THEOREM TypeCorrect == Spec => []TypeOK
<1>1. Inv => TypeOK
    BY DEF Inv, ParticipantInv, ParticipantType, CoordinatorType, TypeOK
<1> QED
    BY <1>1, InvAlways, PTL

\* The participants of the composition behave as ThresholdParticipant says
\* they do under requests of any kind, at any time.
THEOREM ParticipantsImplemented == Spec => ParticipantSpec
<1>1. Init => ParticipantInit
    BY DEF Init
<1> QED
    BY <1>1, InvAlways, InvStep, PTL DEF Spec, ParticipantSpec

\* take() gives a nonce pair out once and persist() never writes over one,
\* so no pair goes into two shares (handleSign, the nonce store).
THEOREM NonceOnce == Spec => []NonceUsedOnce
<1>1. Inv => NonceUsedOnce
    BY DEF Inv, NonceInv
<1> QED
    BY <1>1, InvAlways, PTL

\* A pair persisted before a restart never goes into a share after it: the
\* session map a loop needs to sign is not persisted (startThresholdParticipant).
THEOREM RestartFailsClosed == Spec => FailsClosed
<1>1. Inv /\ [Next]_vars => [\A s \in shares' \ shares : s.nonce \in current[s.participant]]_vars
    BY InvStep, FreshShare DEF Inv
<1> QED
    BY <1>1, InvAlways, PTL DEF Spec, FailsClosed

\* Every signature signSubject returns has Threshold signers, each of which
\* accepts the subject and released a share for exactly this package.
THEOREM SignaturesAuthorised == Spec => []SignatureIsAuthorised
<1>1. Inv => SignatureIsAuthorised
    BY DEF Inv
<1> QED
    BY <1>1, InvAlways, PTL
====
