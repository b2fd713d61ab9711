--------------------- MODULE CoordinatorElectionProofs ---------------------
(* Invariance proofs for the coordinator election: for any number of nodes,  *)
(* any ceiling, any terms claimed by foreign peers, any number of restarts.  *)
EXTENDS CoordinatorElection, TLAPS

IInv == TypeOK /\ IncumbentIsBestHeard

(* No claim is the absent one: every claim has a term of zero or more.       *)
LEMMA NoClaimIsNotAClaim == ASSUME NEW c \in Claims PROVE c # NoClaim
  BY DEF Claims, NoClaim

(* The components of a claim are numbers that the comparison can use.        *)
LEMMA ClaimFields ==
  ASSUME NEW c \in Claims
  PROVE  c.term \in Nat /\ c.coordinator \in Nat /\ c = [term |-> c.term, coordinator |-> c.coordinator]
  BY ElectionAssumption DEF Claims

(* The claims evaluate() compares are exactly the supersedable ones.         *)
LEMMA SupersedableIsAcceptable ==
  ASSUME NEW c \in Claims, IsSupersedableTerm(c.term) PROVE c \in AcceptableClaims
  BY ElectionAssumption DEF Claims, AcceptableClaims, IsSupersedableTerm

(* The comparison evaluate() makes is a strict weak order with no ties but   *)
(* equal claims: it is irreflexive, a claim it puts above d is not put below *)
(* anything that is not above d, and two claims neither of which is above    *)
(* the other are the same claim.                                             *)
LEMMA SupersedesIrreflexive == ASSUME NEW c \in Claims PROVE ~Supersedes(c, c)
  BY NoClaimIsNotAClaim, ClaimFields DEF Supersedes, CompareDeviceIds

LEMMA SupersedesNegativelyTransitive ==
  ASSUME NEW c \in Claims, NEW d \in Claims, NEW e \in Claims,
         ~Supersedes(c, d), Supersedes(e, d)
  PROVE  ~Supersedes(c, e)
  BY NoClaimIsNotAClaim, ClaimFields DEF Supersedes, CompareDeviceIds

LEMMA SupersedesTotal ==
  ASSUME NEW c \in Claims, NEW d \in Claims, ~Supersedes(c, d), ~Supersedes(d, c)
  PROVE  c = d
  BY NoClaimIsNotAClaim, ClaimFields DEF Supersedes, CompareDeviceIds

LEMMA AcceptableAreClaims == AcceptableClaims \subseteq Claims
  BY ElectionAssumption DEF AcceptableClaims, Claims

(* claim() mints a claim that evaluate() would compare, above the incumbent. *)
LEMMA MintedClaim ==
  ASSUME TypeOK, NEW n \in Node, IsSupersedableTerm(incumbent[n].term + 1)
  PROVE  LET frame == [term |-> incumbent[n].term + 1, coordinator |-> n] IN
         /\ frame \in AcceptableClaims
         /\ Supersedes(frame, incumbent[n])
  BY ElectionAssumption
     DEF TypeOK, AcceptableClaims, IsSupersedableTerm, Supersedes, NoClaim

(* Adopting a claim that supersedes the incumbent keeps it the best heard.   *)
LEMMA AdoptKeepsBest ==
  ASSUME IInv, NEW n \in Node, NEW frame \in AcceptableClaims,
         Supersedes(frame, incumbent[n]),
         incumbent' = [incumbent EXCEPT ![n] = frame],
         heard' = [heard EXCEPT ![n] = @ \cup {frame}]
  PROVE  IncumbentIsBestHeard'
<1> SUFFICES ASSUME NEW m \in Node
             PROVE  /\ (incumbent'[m] = NoClaim) <=> (heard'[m] = {})
                    /\ incumbent'[m] # NoClaim =>
                          /\ incumbent'[m] \in heard'[m]
                          /\ \A c \in heard'[m] : ~Supersedes(c, incumbent'[m])
    BY DEF IncumbentIsBestHeard, Supersedes
<1>0. frame \in Claims /\ frame # NoClaim
    BY AcceptableAreClaims, NoClaimIsNotAClaim
<1>1. CASE m # n
    BY <1>1 DEF IInv, TypeOK, IncumbentIsBestHeard
<1>2. CASE m = n
    <2>1. incumbent'[n] = frame /\ heard'[n] = heard[n] \cup {frame}
        BY DEF IInv, TypeOK
    <2>2. ASSUME NEW c \in heard[n] PROVE ~Supersedes(c, frame)
        <3>1. incumbent[n] # NoClaim /\ ~Supersedes(c, incumbent[n])
            BY <2>2 DEF IInv, IncumbentIsBestHeard
        <3>2. incumbent[n] \in Claims /\ c \in Claims
            BY <3>1, <2>2, AcceptableAreClaims DEF IInv, TypeOK
        <3> QED
            BY <1>0, <3>1, <3>2, SupersedesNegativelyTransitive
    <2>3. ~Supersedes(frame, frame)
        BY <1>0, SupersedesIrreflexive
    <2> QED
        BY <1>0, <1>2, <2>1, <2>2, <2>3
<1> QED
    BY <1>1, <1>2

LEMMA InitEstablishesIInv == Init => IInv
  BY ElectionAssumption
     DEF Init, IInv, TypeOK, IncumbentIsBestHeard, NoClaim

LEMMA NextPreservesIInv == IInv /\ [Next]_vars => IInv'
<1> SUFFICES ASSUME IInv, [Next]_vars PROVE IInv'
    OBVIOUS
<1> USE ElectionAssumption
<1>1. ASSUME NEW n \in Node, Claim(n) PROVE IInv'
    <2> DEFINE frame == [term |-> incumbent[n].term + 1, coordinator |-> n]
    <2>1. frame \in AcceptableClaims /\ Supersedes(frame, incumbent[n])
        BY <1>1, MintedClaim DEF Claim, IInv
    <2>2. frame \in Claims
        BY <2>1, AcceptableAreClaims
    <2>3. TypeOK'
        BY <1>1, <2>1, <2>2 DEF Claim, Gossip, IInv, TypeOK
    <2>4. IncumbentIsBestHeard'
        BY <1>1, <2>1, AdoptKeepsBest DEF Claim
    <2> QED
        BY <2>3, <2>4 DEF IInv
<1>2. ASSUME NEW n \in Node, AnnounceCurrent(n) PROVE IInv'
    <2>1. incumbent[n] \in Claims
        BY <1>2, AcceptableAreClaims DEF AnnounceCurrent, IInv, TypeOK
    <2> QED
        BY <1>2, <2>1
           DEF AnnounceCurrent, Gossip, IInv, TypeOK, IncumbentIsBestHeard, Supersedes
<1>3. ASSUME NEW n \in Node, Restart(n) PROVE IInv'
    <2>1. TypeOK'
        BY <1>3 DEF Restart, IInv, TypeOK
    <2>2. ASSUME NEW m \in Node
          PROVE  /\ (incumbent'[m] = NoClaim) <=> (heard'[m] = {})
                 /\ incumbent'[m] # NoClaim =>
                       /\ incumbent'[m] \in heard'[m]
                       /\ \A c \in heard'[m] : ~Supersedes(c, incumbent'[m])
        BY <1>3 DEF Restart, IInv, TypeOK, IncumbentIsBestHeard
    <2> QED
        BY <2>1, <2>2 DEF IInv, IncumbentIsBestHeard, Supersedes
<1>4. ASSUME NEW n \in Node, NEW frame \in gossip, Evaluate(n, frame) PROVE IInv'
    <2>0. frame \in Claims
        BY DEF IInv, TypeOK
    <2>1. CASE Accept(n, frame)
        <3>1. frame \in AcceptableClaims
            BY <2>0, <2>1, SupersedableIsAcceptable DEF Accept
        <3>2. TypeOK'
            BY <1>4, <2>1, <3>1 DEF Evaluate, Accept, IInv, TypeOK
        <3>3. IncumbentIsBestHeard'
            BY <2>1, <3>1, AdoptKeepsBest DEF Accept
        <3> QED
            BY <3>2, <3>3 DEF IInv
    <2>2. CASE Retain(n, frame)
        <3>1. frame \in AcceptableClaims
            BY <2>0, <2>2, SupersedableIsAcceptable DEF Retain
        <3>2. TypeOK'
            BY <1>4, <2>2, <3>1 DEF Evaluate, Retain, IInv, TypeOK
        <3>3. incumbent[n] # NoClaim
            BY <2>2 DEF Retain, Supersedes
        <3>4. ASSUME NEW m \in Node
              PROVE  /\ (incumbent'[m] = NoClaim) <=> (heard'[m] = {})
                     /\ incumbent'[m] # NoClaim =>
                           /\ incumbent'[m] \in heard'[m]
                           /\ \A c \in heard'[m] : ~Supersedes(c, incumbent'[m])
            BY <2>2, <3>3 DEF Retain, IInv, TypeOK, IncumbentIsBestHeard
        <3> QED
            BY <3>2, <3>4 DEF IInv, IncumbentIsBestHeard, Supersedes
    <2>3. CASE Reject(frame)
        BY <1>4, <2>3
           DEF Evaluate, Reject, IInv, TypeOK, IncumbentIsBestHeard, Supersedes
    <2> QED
        BY <1>4, <2>1, <2>2, <2>3 DEF Evaluate
<1>5. ASSUME NEW frame \in gossip, Lose(frame) PROVE IInv'
    BY <1>5 DEF Lose, IInv, TypeOK, IncumbentIsBestHeard, Supersedes
<1>6. CASE ForeignClaim
    <2>1. gossip' \subseteq Claims
        BY <1>6 DEF ForeignClaim, Gossip, Claims, IInv, TypeOK
    <2> QED
        BY <1>6, <2>1 DEF ForeignClaim, IInv, TypeOK, IncumbentIsBestHeard, Supersedes
<1>7. CASE UNCHANGED vars
    BY <1>7 DEF vars, IInv, TypeOK, IncumbentIsBestHeard, Supersedes
<1> QED
    BY <1>1, <1>2, <1>3, <1>4, <1>5, <1>6, <1>7 DEF Next

(* The election's state stays well typed and every accepted term stays below *)
(* the ceiling, for any set of nodes and any terms foreign peers claim.      *)
THEOREM TypeCorrect == Spec => []TypeOK
  BY InitEstablishesIInv, NextPreservesIInv, PTL DEF Spec, IInv

(* The incumbent of every node is the best claim it made or evaluated since  *)
(* it started, whatever gossip lost, repeated or reordered.                  *)
THEOREM BestHeard == Spec => []IncumbentIsBestHeard
  BY InitEstablishesIInv, NextPreservesIInv, PTL DEF Spec, IInv

(* Nodes that met the same claims, in any order, name the same coordinator.  *)
THEOREM OrderIndependence == Spec => []SameClaimsSameCoordinator
<1>1. IInv => SameClaimsSameCoordinator
    <2> SUFFICES ASSUME IInv, NEW m \in Node, NEW n \in Node, heard[m] = heard[n]
                 PROVE  incumbent[m] = incumbent[n]
        BY DEF SameClaimsSameCoordinator
    <2>1. CASE heard[m] = {}
        BY <2>1 DEF IInv, IncumbentIsBestHeard
    <2>2. CASE heard[m] # {}
        <3>1. /\ incumbent[m] \in heard[m] /\ incumbent[n] \in heard[m]
              /\ ~Supersedes(incumbent[m], incumbent[n])
              /\ ~Supersedes(incumbent[n], incumbent[m])
            BY <2>2 DEF IInv, IncumbentIsBestHeard
        <3>2. incumbent[m] \in Claims /\ incumbent[n] \in Claims
            BY <3>1, AcceptableAreClaims DEF IInv, TypeOK
        <3> QED
            BY <3>1, <3>2, SupersedesTotal
    <2> QED
        BY <2>1, <2>2
<1> QED
    BY <1>1, InitEstablishesIInv, NextPreservesIInv, PTL DEF Spec

(* An incumbent is only replaced by a claim that supersedes it, or dropped   *)
(* by a restart.                                                             *)
THEOREM IncumbentMonotone == Spec => IncumbentNeverGoesBack
<1> DEFINE Forward == \A n \in Node :
                         \/ incumbent'[n] = incumbent[n]
                         \/ Supersedes(incumbent'[n], incumbent[n])
                         \/ restarts' # restarts /\ incumbent'[n] = NoClaim
<1>1. IInv /\ [Next]_vars => [Forward]_vars
    <2> SUFFICES ASSUME IInv, Next PROVE Forward
        BY DEF Forward
    <2> USE ElectionAssumption
    <2>1. ASSUME NEW n \in Node, Claim(n) PROVE Forward
        <3>1. Supersedes([term |-> incumbent[n].term + 1, coordinator |-> n], incumbent[n])
            BY <2>1, MintedClaim DEF Claim, IInv
        <3> QED
            BY <2>1, <3>1 DEF Claim, IInv, TypeOK
    <2>2. ASSUME NEW n \in Node, AnnounceCurrent(n) PROVE Forward
        BY <2>2 DEF AnnounceCurrent
    <2>3. ASSUME NEW n \in Node, Restart(n) PROVE Forward
        BY <2>3 DEF Restart, IInv, TypeOK
    <2>4. ASSUME NEW n \in Node, NEW frame \in gossip, Evaluate(n, frame) PROVE Forward
        BY <2>4 DEF Evaluate, Accept, Retain, Reject, IInv, TypeOK
    <2>5. ASSUME NEW frame \in gossip, Lose(frame) PROVE Forward
        BY <2>5 DEF Lose
    <2>6. CASE ForeignClaim
        BY <2>6 DEF ForeignClaim
    <2> QED
        BY <2>1, <2>2, <2>3, <2>4, <2>5, <2>6 DEF Next
<1> QED
    BY <1>1, InitEstablishesIInv, NextPreservesIInv, PTL
       DEF Spec, IncumbentNeverGoesBack

=============================================================================
