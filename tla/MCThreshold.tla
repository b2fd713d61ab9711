---- MODULE MCThreshold ----
(***************************************************************************)
(* Threshold keys, in parts that share nothing: signing, key generation    *)
(* and resharing in TypeScript, and both in Rust.  The parts that are not  *)
(* looked at stay in an initial state.                                     *)
(***************************************************************************)
EXTENDS MCThresholdSigning, Keygen, KeygenCeremony

VARIABLE part

Own(i) == [term |-> "own", rest |-> i]
Other == [term |-> "other", rest |-> 1]

\* What the parts that are not looked at work on.
NoSetup == [contributors |-> {}, receivers |-> {}, faulty |-> {}, fresh |-> TRUE, forged |-> {}]
NoCeremony == [fresh |-> TRUE, dealers |-> <<>>, members |-> <<>>, faulty |-> {}, forged |-> {}]

\* A fresh key of three, and a share handed from two devices to another two;
\* one device sends what it likes.
MCSetup == {
    [contributors |-> {"a", "b", "c"}, receivers |-> {"a", "b", "c"}, faulty |-> {"c"},
     fresh |-> TRUE, forged |-> {Own(1), Own(2)}],
    [contributors |-> {"a", "b"}, receivers |-> {"a", "c"}, faulty |-> {"b"},
     fresh |-> FALSE, forged |-> {Own(2), Other}],
    NoSetup}

\* A fresh key of three, a reshare with a device that sends what it likes,
\* and one whose lists name the devices in different orders.
MCCeremony == {
    [fresh |-> TRUE, dealers |-> <<"a", "b", "c">>, members |-> <<"a", "b", "c">>,
     faulty |-> {}, forged |-> {}],
    [fresh |-> FALSE, dealers |-> <<"a", "b">>, members |-> <<"a", "c">>,
     faulty |-> {"b"}, forged |-> {2, 3}],
    [fresh |-> FALSE, dealers |-> <<"a", "b">>, members |-> <<"b", "a", "c">>,
     faulty |-> {}, forged |-> {}],
    NoCeremony}

ThresholdInit ==
    /\ part \in {"signing", "keygen", "ceremony"}
    /\ Init
    /\ KeygenInit
    /\ CeremonyInit
    /\ (part # "keygen" <=> setup = NoSetup)
    /\ (part # "ceremony" <=> ceremony = NoCeremony)

ThresholdNext ==
    \/ part = "signing" /\ Next /\ UNCHANGED <<part, keygenVars, ceremonyVars>>
    \/ part = "keygen" /\ KeygenNext /\ UNCHANGED <<part, vars, ceremonyVars>>
    \/ part = "ceremony" /\ CeremonyNext /\ UNCHANGED <<part, vars, keygenVars>>

ThresholdSpec == ThresholdInit /\ [][ThresholdNext]_<<part, vars, keygenVars, ceremonyVars>>
====
