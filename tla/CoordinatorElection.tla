------------------------ MODULE CoordinatorElection ------------------------
(***************************************************************************)
(* The gossiped, term-based election of a rendezvous coordinator           *)
(* (core/src/domain/coordinator-election.ts), run by a set of nodes whose  *)
(* claims travel as coordinator-frames through mesh sessions.              *)
(*                                                                         *)
(* A device-id is a fixed 32 bytes compared bytewise, so it is modelled by *)
(* a natural number.  The capacity hint, which no decision reads, is left  *)
(* out.  Nothing of an election is persisted: a restarted node has heard   *)
(* nothing.  Gossip is unreliable: a frame may be lost, delivered twice or *)
(* delivered after later ones.                                             *)
(***************************************************************************)
EXTENDS Integers, FiniteSets

CONSTANTS
    Device,           \* every device-id a claim may name
    Node,             \* the devices that run this code
    MaxSafeInteger,   \* Number.MAX_SAFE_INTEGER, scaled down for TLC
    ForeignTerm,      \* terms claimed by peers that run other code
    MaxRestarts       \* bound: restarts in one behaviour

ASSUME ElectionAssumption ==
    /\ Device \subseteq Nat
    /\ Node \subseteq Device
    /\ MaxSafeInteger \in Nat \ {0}
    /\ ForeignTerm \subseteq Nat
    /\ MaxRestarts \in Nat

VARIABLES
    incumbent,   \* CoordinatorElection.incumbent of each node
    gossip,      \* coordinator-frames still travelling, to be met by any node, once or more
    heard,       \* history: the claims each node made or evaluated since it started
    restarts     \* restarts so far

vars == <<incumbent, gossip, heard, restarts>>

Claims == [term : Nat, coordinator : Device]

\* `undefined`; its term is the -1 that claim() falls back to.
NoClaim == [term |-> -1, coordinator |-> -1]

CompareDeviceIds(a, b) == a - b

IsSupersedableTerm(term) == term >= 0 /\ term < MaxSafeInteger

IsSelf(n) == incumbent[n] # NoClaim /\ CompareDeviceIds(incumbent[n].coordinator, n) = 0

\* Variant: the equal-term tiebreak forgotten, so the first arrival wins.
SupersedesFirstWins(claim, previous) ==
    \/ previous = NoClaim
    \/ claim.term > previous.term

\* The test evaluate() makes of an incoming claim against the incumbent.
Supersedes(claim, previous) ==
    \/ previous = NoClaim
    \/ claim.term > previous.term
    \/ /\ claim.term = previous.term
       /\ CompareDeviceIds(claim.coordinator, previous.coordinator) < 0

Init ==
    /\ incumbent = [n \in Node |-> NoClaim]
    /\ gossip = {}
    /\ heard = [n \in Node |-> {}]
    /\ restarts = 0

\* A frame handed to sendCoordinatorClaim on every session.
Gossip(frame) == gossip' = gossip \cup {frame}

\* claim(): raises the term; throws, changing nothing, when no term is left.
Claim(n) ==
    LET frame == [term |-> incumbent[n].term + 1, coordinator |-> n] IN
    /\ IsSupersedableTerm(frame.term)
    /\ incumbent' = [incumbent EXCEPT ![n] = frame]
    /\ heard' = [heard EXCEPT ![n] = @ \cup {frame}]
    /\ Gossip(frame)
    /\ UNCHANGED restarts

\* announceCurrent(): the incumbent as it stands, whoever holds it.
AnnounceCurrent(n) ==
    /\ incumbent[n] # NoClaim
    /\ Gossip(incumbent[n])
    /\ UNCHANGED <<incumbent, heard, restarts>>

Accept(n, frame) ==
    /\ IsSupersedableTerm(frame.term)
    /\ Supersedes(frame, incumbent[n])
    /\ incumbent' = [incumbent EXCEPT ![n] = frame]
    /\ heard' = [heard EXCEPT ![n] = @ \cup {frame}]

Retain(n, frame) ==
    /\ IsSupersedableTerm(frame.term)
    /\ ~Supersedes(frame, incumbent[n])
    /\ heard' = [heard EXCEPT ![n] = @ \cup {frame}]
    /\ UNCHANGED incumbent

Reject(frame) ==
    /\ ~IsSupersedableTerm(frame.term)
    /\ UNCHANGED <<incumbent, heard>>

Evaluate(n, frame) ==
    /\ frame \in gossip
    /\ Accept(n, frame) \/ Retain(n, frame) \/ Reject(frame)
    /\ UNCHANGED <<gossip, restarts>>

\* A peer that runs other code gossips a claim; the spec allows any uint term.
ForeignClaim ==
    /\ \E t \in ForeignTerm, d \in Device : Gossip([term |-> t, coordinator |-> d])
    /\ UNCHANGED <<incumbent, heard, restarts>>

\* The last copy of a frame is gone.
Lose(frame) ==
    /\ gossip' = gossip \ {frame}
    /\ UNCHANGED <<incumbent, heard, restarts>>

\* The process is replaced: a new CoordinatorElection, and nothing restored.
Restart(n) ==
    /\ restarts < MaxRestarts
    /\ restarts' = restarts + 1
    /\ incumbent' = [incumbent EXCEPT ![n] = NoClaim]
    /\ heard' = [heard EXCEPT ![n] = {}]
    /\ UNCHANGED gossip

Next ==
    \/ \E n \in Node : Claim(n) \/ AnnounceCurrent(n) \/ Restart(n)
    \/ \E n \in Node, frame \in gossip : Evaluate(n, frame)
    \/ \E frame \in gossip : Lose(frame)
    \/ ForeignClaim

Spec == Init /\ [][Next]_vars

-----------------------------------------------------------------------------
\* Claims that evaluate() compares.
AcceptableClaims == [term : 0..(MaxSafeInteger - 1), coordinator : Device]

\* Callers refresh what they hold, and a frame sent again and again gets through.
Fairness ==
    \A n \in Node :
        /\ WF_vars(AnnounceCurrent(n))
        /\ \A frame \in AcceptableClaims : SF_vars(Evaluate(n, frame))

FairSpec == Spec /\ Fairness

TypeOK ==
    /\ incumbent \in [Node -> AcceptableClaims \cup {NoClaim}]
    /\ gossip \subseteq Claims
    /\ heard \in [Node -> SUBSET AcceptableClaims]
    /\ restarts \in 0..MaxRestarts

(* Whatever the order, loss and repetition of the frames, the claim a node   *)
(* accepts is one it made or evaluated since it started, and none of those   *)
(* supersedes it (evaluate, claim).                                          *)
IncumbentIsBestHeard ==
    \A n \in Node :
        /\ (incumbent[n] = NoClaim) <=> (heard[n] = {})
        /\ incumbent[n] # NoClaim =>
              /\ incumbent[n] \in heard[n]
              /\ \A c \in heard[n] : ~Supersedes(c, incumbent[n])

(* Two nodes that made or evaluated the same claims name the same            *)
(* coordinator, in whichever order each met them.                            *)
SameClaimsSameCoordinator ==
    \A m, n \in Node : heard[m] = heard[n] => incumbent[m] = incumbent[n]

(* A node's incumbent is only ever replaced by a claim that supersedes it,   *)
(* or dropped with the whole state when the process restarts.                *)
IncumbentNeverGoesBack ==
    [][\A n \in Node :
          \/ incumbent'[n] = incumbent[n]
          \/ Supersedes(incumbent'[n], incumbent[n])
          \/ restarts' # restarts /\ incumbent'[n] = NoClaim]_vars

(* Once restarts end, and as terms are bounded by the ceiling, refreshed     *)
(* gossip brings every node to one coordinator, for good.                    *)
EventuallyOneCoordinator ==
    <>[](\A m, n \in Node : incumbent[m] = incumbent[n])

=============================================================================
