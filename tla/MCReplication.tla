--------------------------- MODULE MCReplication ---------------------------
(* What a hub keeps, in two parts that share nothing: the logs, with one     *)
(* owner, the hub and a reader and entries of one and two bytes; and its     *)
(* connections across evictions, with a device that comes back on another    *)
(* socket, or with a gateway for two devices of which one moves to a socket  *)
(* of its own.  The part that is not looked at stays in its initial state.   *)
EXTENDS Replication, HibernatingHub, TLC

CONSTANTS author, hub, reader, c1, c2, k1, k2, k3

VARIABLE part

OneAuthor == [c \in Caller |-> author]

EntrySizes == [x \in Contents |-> IF x = 2 THEN 2 ELSE 1]

SlotSymmetry == Permutations(Slot)

Gossips(d, s, t) == [device |-> d, on |-> s, at |-> t]
MCAdvert == {Gossips("x", "s1", 1), Gossips("y", "s2", 1), Gossips("x", "s3", 2),
             Gossips("x", "g1", 1), Gossips("z", "g1", 1),
             Gossips("z", "g2", 2)}
MCScenario == {{"s1", "s2", "s3"}, {"g1", "g2"}}

HubInit ==
    /\ part \in {"logs", "hibernation"}
    /\ Init
    /\ SleepInit
    /\ (part = "logs" => closed["s1"] = "absent")

HubNext ==
    \/ part = "logs" /\ Next /\ UNCHANGED <<part, sleepVars>>
    \/ part = "hibernation" /\ SleepNext /\ UNCHANGED <<part, vars>>

HubSpec == HubInit /\ [][HubNext]_<<part, vars, sleepVars>>

=============================================================================
