---------------------------- MODULE MCDelivery -----------------------------
(* Two parts that share nothing: one bulk transfer, and a payload delivered  *)
(* in shards.  The part that is not looked at stays in an initial state.     *)
EXTENDS BulkTransfer, ShardedDelivery

CONSTANTS a, b   \* connections

VARIABLE part

\* Chunks of one byte, but for a last one of two.
ShortAndLong == [i \in 0..Chunks - 1 |-> IF i = Chunks - 1 THEN 2 ELSE 1]

MCPayload == {<<>>, <<7>>, <<200, 3, 0, 91, 17>>}
MCConfig == {<<1, 2>>, <<2, 4>>, <<3, 4>>}

\* Entries of another kind, or whose threshold or number of shards is not a
\* manifest's.
MCEntry == {[notice |-> 1],
            [total |-> 2, threshold |-> 3, length |-> 1, shards |-> <<0, 1>>],
            [total |-> 2, threshold |-> 1, length |-> 1, shards |-> <<0>>]}

DeliveryInit ==
    /\ part \in {"bulk", "shards"}
    /\ Init
    /\ ShardInit
    /\ (part = "bulk" => config = <<1, 2>> /\ payload = <<>> /\ log = <<>>)

DeliveryNext ==
    \/ part = "bulk" /\ Next /\ UNCHANGED <<part, shardVars>>
    \/ part = "shards" /\ ShardNext /\ UNCHANGED <<part, vars>>

\* No step of a sender or a receiver is enabled before a transfer is opened.
DeliverySpec ==
    /\ DeliveryInit /\ [][DeliveryNext]_<<part, vars, shardVars>>
    /\ WF_vars(\E c \in Conn : SenderStep(c) \/ ReceiverStep(c))

=============================================================================
