---- MODULE KeygenCeremony ----
(***************************************************************************)
(* The Rust runtime's key generation and resharing over the network        *)
(* (rust/crates/wire-mesh-threshold/src/keygen_network.rs).  Each device   *)
(* runs a fixed choreography: it sends to one peer after the other, waits  *)
(* for one peer after the other, and gives up at the first error.          *)
(*                                                                         *)
(* A commitment is a number: 1 is what the choreography calls for, another *)
(* one a different polynomial, and one of TakesOver a different key.  A    *)
(* share is the number of the commitment it fits.  Who is Faulty sends     *)
(* what it likes; the cryptography of dkg.rs and reshare.rs is external.   *)
(***************************************************************************)
EXTENDS Naturals, Sequences, SequencesExt, FiniteSets

CONSTANTS
    Ceremony,   \* [fresh, dealers, members, faulty, forged]: who takes part,
                \* and the commitments a faulty dealer may send beside 1
    TakesOver   \* those of them that change the key

VARIABLES
    ceremony,   \* the ceremony at hand
    ready,      \* ready[p][r][q]: q's value of round r in p's collector, if any
    failure,    \* failure[p]: p's collectors have failed
    got,        \* got[p][r][q]: what p's task has taken from it
    todo,       \* todo[t]: the steps task t has still to take; none, it has returned
    gaveUp      \* the tasks that have returned an error

ceremonyVars == <<ceremony, ready, failure, got, todo, gaveUp>>

Rounds == {"round1", "round2", "confirm"}
Nobody == ""

Others(list, p) == SelectSeq(list, LAMBDA q : q # p)
Steps(do, r, peers) == [i \in DOMAIN peers |-> [do |-> do, round |-> r, peer |-> peers[i]]]
Check(do) == <<[do |-> do, round |-> "round1", peer |-> Nobody]>>

(***************************************************************************)
(* The choreographies.                                                     *)
(***************************************************************************)
\* run_fresh_threshold_dkg.
FreshRun(c, p) ==
    LET others == Others(c.members, p) IN
    Steps("send", "round1", others) \o Steps("await", "round1", others)
    \o Steps("send", "round2", others) \o Steps("await", "round2", others)
    \o Check("derive")
    \o Steps("send", "confirm", others) \o Steps("await", "confirm", others)

\* send_reshare_contribution, of a survivor.
Dealing(c, p) ==
    LET recipients == Others(c.members, p) IN
    Steps("send", "round1", recipients) \o Steps("send", "round2", recipients)

\* Variant: the confirmations are sent and not waited for.
JoiningUnconfirmed(c, p) ==
    LET survivors == Others(c.dealers, p)
        others == Others(c.members, p)
    IN  Steps("await", "round1", survivors) \o Check("takeover")
        \o Steps("await", "round2", survivors) \o Check("derive")
        \o Steps("send", "confirm", others)

\* join_threshold_reshare, of a member of the new set.
Joining(c, p) ==
    LET survivors == Others(c.dealers, p)
        others == Others(c.members, p)
    IN  Steps("await", "round1", survivors) \o Check("takeover")
        \o Steps("await", "round2", survivors) \o Check("derive")
        \o Steps("send", "confirm", others) \o Steps("await", "confirm", others)

Devices(c) == ToSet(c.dealers) \union ToSet(c.members)
Tasks(c) == [device : Devices(c), role : {"deal", "join"}]

\* What a task of a device does; one with nothing to do has returned.
Program(c, t) ==
    LET p == t.device
        joins == t.role = "join"
    IN  CASE c.fresh /\ joins -> FreshRun(c, p)
          [] ~ c.fresh /\ joins /\ p \in ToSet(c.members) -> Joining(c, p)
          [] ~ c.fresh /\ ~ joins /\ p \in ToSet(c.dealers) -> Dealing(c, p)
          [] OTHER -> <<>>

Device == Devices(ceremony)
Task == Tasks(ceremony)

CeremonyInit ==
    /\ ceremony \in Ceremony
    /\ ready = [p \in Device |-> [r \in Rounds |-> [q \in Device |-> <<>>]]]
    /\ failure = [p \in Device |-> FALSE]
    /\ got = [p \in Device |-> [r \in Rounds |-> [q \in Device |-> <<>>]]]
    /\ todo = [t \in Task |-> Program(ceremony, t)]
    /\ gaveUp = {}

Running(t) == t \notin gaveUp /\ todo[t] # <<>>
Step(t) == Head(todo[t])
Goes(t) == todo' = [todo EXCEPT ![t] = Tail(@)] /\ UNCHANGED gaveUp
Fails(t) == gaveUp' = gaveUp \union {t} /\ UNCHANGED todo

\* What p goes by: the dealers' commitments, its own included.  A value is
\* wrapped in a sequence, an absent one is the empty one.
Digest(p) ==
    [q \in ToSet(ceremony.dealers) |-> IF q = p THEN <<1>> ELSE got[p]["round1"][q]]

(***************************************************************************)
(* send_one, handle_keygen_round1, _round2 and _confirm.                   *)
(***************************************************************************)
\* What p may send q in a round.
Sendable(p, r, q) ==
    LET forged == IF p \in ceremony.faulty THEN {1} \union ceremony.forged ELSE {1} IN
    IF r # "confirm" THEN {<<v>> : v \in forged}
    ELSE IF p \notin ceremony.faulty THEN {<<Digest(p)>>}
    ELSE {<<[Digest(q) EXCEPT ![p] = <<v>>]>> : v \in forged}

\* Variant: what nobody waits for yet is dropped.
BufferedIfAwaited(p, r, q, value) ==
    IF \E t \in Task : t.device = p /\ Running(t) /\ Step(t).do = "await"
                        /\ Step(t).round = r /\ Step(t).peer = q
    THEN [ready EXCEPT ![p][r][q] = value] ELSE ready

\* PerDeviceCollector::deliver: the last value is kept until it is taken.
Buffered(p, r, q, value) == [ready EXCEPT ![p][r][q] = value]

\* The peer's handler has the value and acknowledges it.
SendOne(t, value) ==
    /\ Running(t)
    /\ Step(t).do = "send"
    /\ value \in Sendable(t.device, Step(t).round, Step(t).peer)
    /\ ready' = Buffered(Step(t).peer, Step(t).round, t.device, value)
    /\ Goes(t)
    /\ UNCHANGED <<ceremony, failure, got>>

\* The transport fails, before or after the peer has the value, or the peer
\* refuses it (its ceremony has another session id).
SendFails(t, value, arrives) ==
    /\ Running(t)
    /\ Step(t).do = "send"
    /\ value \in Sendable(t.device, Step(t).round, Step(t).peer)
    /\ ready' = IF arrives THEN Buffered(Step(t).peer, Step(t).round, t.device, value)
                ELSE ready
    /\ Fails(t)
    /\ UNCHANGED <<ceremony, failure, got>>

(***************************************************************************)
(* PerDeviceCollector::await_from, and what is done with the values.       *)
(***************************************************************************)
\* A confirmation that does not match fails the collectors and the run.
AwaitFrom(t) ==
    LET p == t.device
        r == Step(t).round
        q == Step(t).peer
        value == ready[p][r][q]
    IN
    /\ Running(t)
    /\ Step(t).do = "await"
    /\ value # <<>>
    /\ ready' = [ready EXCEPT ![p][r][q] = <<>>]
    /\ got' = [got EXCEPT ![p][r][q] = value]
    /\ IF r = "confirm" /\ value[1] # Digest(p)
       THEN Fails(t) /\ failure' = [failure EXCEPT ![p] = TRUE]
       ELSE Goes(t) /\ UNCHANGED failure
    /\ UNCHANGED ceremony

\* A failed collector ends every wait on it that has no value.
AwaitAborted(t) ==
    /\ Running(t)
    /\ Step(t).do = "await"
    /\ ready[t.device][Step(t).round][Step(t).peer] = <<>>
    /\ failure[t.device]
    /\ Fails(t)
    /\ UNCHANGED <<ceremony, ready, failure, got>>

\* A reshare that changes the group's key is refused.
RefuseTakeover(t) ==
    /\ Running(t)
    /\ Step(t).do = "takeover"
    /\ IF \E q \in ToSet(ceremony.dealers) : Digest(t.device)[q][1] \in TakesOver
       THEN Fails(t) ELSE Goes(t)
    /\ UNCHANGED <<ceremony, ready, failure, got>>

\* round3, combine_received_shares: every share must fit its commitment.
Derive(t) ==
    LET p == t.device IN
    /\ Running(t)
    /\ Step(t).do = "derive"
    /\ IF \A q \in ToSet(ceremony.dealers) \ {p} : got[p]["round2"][q] = got[p]["round1"][q]
       THEN Goes(t) ELSE Fails(t)
    /\ UNCHANGED <<ceremony, ready, failure, got>>

TaskSteps(t) ==
    \/ Running(t) /\ \E value \in Sendable(t.device, Step(t).round, Step(t).peer) :
            SendOne(t, value)
    \/ AwaitFrom(t) \/ AwaitAborted(t) \/ RefuseTakeover(t) \/ Derive(t)

CeremonyNext ==
    \E t \in Task :
        \/ TaskSteps(t)
        \/ Running(t) /\ \E value \in Sendable(t.device, Step(t).round, Step(t).peer),
              arrives \in BOOLEAN : SendFails(t, value, arrives)

(***************************************************************************)
(* Properties.                                                             *)
(***************************************************************************)
Honest == Device \ ceremony.faulty
Join(p) == [device |-> p, role |-> "join"]
Done(p) == Join(p) \notin gaveUp /\ todo[Join(p)] = <<>>

Derived(p) == \A i \in DOMAIN todo[Join(p)] : todo[Join(p)][i].do # "derive"

\* A device that returns a key is not alone with it: every honest member has
\* derived one from the same commitments, even if sending or comparing fails
\* for it afterwards (the confirm round of run_fresh_threshold_dkg and
\* join_threshold_reshare).
KeyIsEverybodys ==
    \A p \in Honest \intersect ToSet(ceremony.members) : Done(p) =>
        /\ \A q \in Honest \intersect ToSet(ceremony.members) :
            Derived(q) /\ Digest(q) = Digest(p)
        /\ ~ ceremony.fresh => \A d \in ToSet(ceremony.dealers) :
            Digest(p)[d][1] \notin TakesOver

\* A step that waits for what has not come.
Stuck(t) ==
    /\ Step(t).do = "await"
    /\ ready[t.device][Step(t).round][Step(t).peer] = <<>>

\* "Sequential awaits are exactly as correct as concurrent ones" (the module
\* doc): as long as no task fails, the tasks never all wait for each other.
\* Each of them has finitely many steps, so everyone returns a key.
NobodyWaitsForEver ==
    gaveUp = {} /\ (\A t \in Task : Running(t) => Stuck(t))
        => \A p \in ToSet(ceremony.members) : Done(p)
====
