---- MODULE Keygen ----
(***************************************************************************)
(* Generating a group key, and resharing one, over the network             *)
(* (core/src/adapters/threshold-dkg.ts): contributors send each receiver   *)
(* their commitment and a share, receivers collect them and compare        *)
(* transcripts before anyone adopts a key.                                 *)
(*                                                                         *)
(* In a fresh generation everybody contributes and receives; in a reshare  *)
(* the survivors contribute and the new participants receive.  A           *)
(* contributor that breaks the protocol may tell receivers different       *)
(* things; the comparison exists because of it.  The cryptography of       *)
(* threshold-wasm.ts is external: a commitment is its constant term and    *)
(* the rest of the polynomial, a share fits one commitment or none.        *)
(***************************************************************************)
EXTENDS Naturals, FiniteSets

CONSTANT
    Setup   \* who contributes, who receives, who of the contributors may
            \* break the protocol and with which commitments, and whether
            \* the key is a fresh one or reshared

\* A commitment is a constant term ("own" is the one the contributor's key
\* share calls for) and a number for the polynomial beyond it.
OwnCommitment == [term |-> "own", rest |-> 1]
NoValue == [term |-> "none", rest |-> 0]
Round == {"round1", "round2", "confirm"}

VARIABLES
    setup,      \* the run's setup
    wire,       \* requests under way: [round, from, to, value]
    collector,  \* collector[p][r][q]: what p has of q's round r, or NoValue
    giving,     \* giving[p]: where p is with its contribution
    taking      \* taking[p]: where p is with collecting

keygenVars == <<setup, wire, collector, giving, taking>>

Contributor == setup.contributors
Receiver == setup.receivers
Faulty == setup.faulty
Fresh == setup.fresh
Member == Contributor \union Receiver

Nothing == [q \in Member |-> NoValue]

KeygenInit ==
    /\ setup \in Setup
    /\ wire = {}
    /\ collector = [p \in Member |-> [r \in Round |-> Nothing]]
    /\ giving = [p \in Member |-> IF p \in Contributor \ Faulty THEN "start" ELSE "sent"]
    /\ taking = [p \in Member |-> IF p \in Receiver \ Faulty THEN "start" ELSE "none"]

\* Whose contributions p waits for, and whose confirmations.
Givers(p) == Contributor \ {p}
Takers(p) == Receiver \ {p}

Request(r, p, q, v) == [round |-> r, from |-> p, to |-> q, value |-> v]
\* What a faulty member is sent matters to no one.
Broadcast(r, p, v) == wire \union {Request(r, p, q, v) : q \in Takers(p) \ Faulty}

\* Every request of p's round r was acknowledged or given up: the outcome of
\* sendManageRequest is not looked at.
Acknowledged(r, p) == \A m \in wire : ~ (m.round = r /\ m.from = p)

(***************************************************************************)
(* The consumer: one per run of the protocol, from its start.              *)
(***************************************************************************)
\* The round p collects in, and the ones it is through with.
Waits(p, r) ==
    /\ taking[p] = r
    /\ (Fresh /\ r = "round1") => (giving[p] = "round1" /\ Acknowledged(r, p))
    /\ (Fresh /\ r = "round2") => giving[p] = "sent"
Through(p) ==
    CASE taking[p] \in {"start", "round1"} -> {}
      [] taking[p] = "round2" -> {"round1"}
      [] taking[p] \in {"sendConfirm", "confirm"} -> {"round1", "round2"}
      [] OTHER -> Round

\* deliver: whoever waits takes the first; before that, the last is kept.
Kept(p, r, q, v) ==
    IF r \in Through(p) \/ (Waits(p, r) /\ collector[p][r][q] # NoValue)
    THEN collector
    ELSE [collector EXCEPT ![p][r][q] = v]

Deliver(m) ==
    /\ m \in wire
    /\ taking[m.to] # "start"
    /\ wire' = wire \ {m}
    /\ collector' = Kept(m.to, m.round, m.from, m.value)
    /\ UNCHANGED <<setup, giving, taking>>

\* A request is lost; the sender's timeout lets it go on.
Lose(m) ==
    /\ m \in wire
    /\ wire' = wire \ {m}
    /\ UNCHANGED <<setup, collector, giving, taking>>

Has(p, r, from) == \A q \in from : collector[p][r][q] # NoValue

\* The commitments p goes by, its own included: its transcript.
Transcript(p) ==
    [q \in Contributor |-> IF q = p THEN OwnCommitment ELSE collector[p]["round1"][q]]
GroupKey(transcript) == [q \in Contributor |-> transcript[q].term]

(***************************************************************************)
(* Contributing: computeReshareContribution and sendReshareContribution,   *)
(* the sending half of runFreshThresholdDkg.                               *)
(***************************************************************************)
SendRound1(p) ==
    /\ giving[p] = "start"
    /\ giving' = [giving EXCEPT ![p] = "round1"]
    /\ wire' = Broadcast("round1", p, OwnCommitment)
    /\ UNCHANGED <<setup, collector, taking>>

\* A fresh generation's shares need everybody's commitments first.
SendRound2(p) ==
    /\ giving[p] = "round1"
    /\ Acknowledged("round1", p)
    /\ Fresh => taking[p] = "round2"
    /\ giving' = [giving EXCEPT ![p] = "round2"]
    /\ wire' = Broadcast("round2", p, OwnCommitment)
    /\ UNCHANGED <<setup, collector, taking>>

FinishGiving(p) ==
    /\ giving[p] = "round2"
    /\ Acknowledged("round2", p)
    /\ giving' = [giving EXCEPT ![p] = "sent"]
    /\ UNCHANGED <<setup, wire, collector, taking>>

\* A faulty contributor has what it likes reach whom it likes, at any time
\* and again and again.
Misbehave(p, q, r, v) ==
    /\ p \in Faulty
    /\ q \in Receiver \ Faulty
    /\ taking[q] # "start"
    /\ collector' = Kept(q, r, p, v)
    /\ collector' # collector
    /\ UNCHANGED <<setup, wire, giving, taking>>

(***************************************************************************)
(* Receiving: joinThresholdReshare, the other half of runFreshThresholdDkg.*)
(***************************************************************************)
StartTaking(p) ==
    /\ taking[p] = "start"
    /\ taking' = [taking EXCEPT ![p] = "round1"]
    /\ UNCHANGED <<setup, wire, collector, giving>>

\* Round 1 is in: a reshare whose key is not the group's is refused.
TakeRound1(p) ==
    /\ Waits(p, "round1")
    /\ Has(p, "round1", Givers(p))
    /\ taking' = [taking EXCEPT
            ![p] = IF ~ Fresh /\ \E q \in Contributor : Transcript(p)[q].term # "own"
                   THEN "failed" ELSE "round2"]
    /\ UNCHANGED <<setup, wire, collector, giving>>

\* Round 2 is in: a share that does not fit its commitment is refused.
TakeRound2(p) ==
    /\ Waits(p, "round2")
    /\ Has(p, "round2", Givers(p))
    /\ IF \A q \in Givers(p) : collector[p]["round2"][q] = collector[p]["round1"][q]
       THEN /\ taking' = [taking EXCEPT ![p] = "sendConfirm"]
            /\ wire' = Broadcast("confirm", p, Transcript(p))
       ELSE /\ taking' = [taking EXCEPT ![p] = "failed"]
            /\ UNCHANGED wire
    /\ UNCHANGED <<setup, collector, giving>>

AwaitConfirms(p) ==
    /\ taking[p] = "sendConfirm"
    /\ Acknowledged("confirm", p)
    /\ taking' = [taking EXCEPT ![p] = "confirm"]
    /\ UNCHANGED <<setup, wire, collector, giving>>

\* Variant: only the group keys are compared.
ConfirmMatchesKey(own, theirs) == GroupKey(own) = GroupKey(theirs)

\* dkgConfirmMatches: the transcripts' digests and the group keys.
ConfirmMatches(own, theirs) == own = theirs

\* A confirmation that does not match fails the run; all of them finish it.
TakeConfirm(p) ==
    /\ taking[p] = "confirm"
    /\ \/ /\ \E q \in Takers(p) :
                /\ collector[p]["confirm"][q] # NoValue
                /\ ~ ConfirmMatches(Transcript(p), collector[p]["confirm"][q])
          /\ taking' = [taking EXCEPT ![p] = "failed"]
       \/ /\ Has(p, "confirm", Takers(p))
          /\ \A q \in Takers(p) : ConfirmMatches(Transcript(p), collector[p]["confirm"][q])
          /\ taking' = [taking EXCEPT ![p] = "done"]
    /\ UNCHANGED <<setup, wire, collector, giving>>

KeygenNext ==
    \/ \E m \in wire : Deliver(m) \/ Lose(m)
    \/ \E p \in Member :
        \/ SendRound1(p)
        \/ SendRound2(p)
        \/ FinishGiving(p)
        \/ StartTaking(p)
        \/ TakeRound1(p)
        \/ TakeRound2(p)
        \/ AwaitConfirms(p)
        \/ TakeConfirm(p)
    \/ \E p \in Faulty, q \in Receiver, v \in setup.forged :
        \/ \E r \in {"round1", "round2"} : Misbehave(p, q, r, v)
        \/ Misbehave(p, q, "confirm", [Transcript(q) EXCEPT ![p] = v])

(***************************************************************************)
(* Properties.                                                             *)
(***************************************************************************)
\* Whatever a faulty contributor tells whom, and whatever is lost, members
\* that finish have gone by the same commitments of every contributor and so
\* hold shares of one key; after a reshare, of the key the group had
\* (the echo of transcripts in runFreshThresholdDkg, joinThresholdReshare).
MembersAgreeOnTheKey ==
    \A p, q \in Receiver \ Faulty :
        (taking[p] = "done" /\ taking[q] = "done") =>
            /\ Transcript(p) = Transcript(q)
            /\ ~ Fresh => \A c \in Contributor : Transcript(p)[c].term = "own"
====
