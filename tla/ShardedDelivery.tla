---- MODULE ShardedDelivery ----
(***************************************************************************)
(* Sharded delivery (domain/sharded-delivery.ts, domain/shard-manifest.ts):*)
(* a publisher cuts a payload into shards, pushes each to a holder of its  *)
(* own and publishes a manifest in its log; a collector that has read the  *)
(* manifest puts the payload together from the first shards that come.     *)
(*                                                                         *)
(* A shard's transfer id is its index.  The bulk transfers that carry the  *)
(* shards are module BulkTransfer's; here one either completes or fails.   *)
(***************************************************************************)
EXTENDS ErasureCoding, FiniteSets

CONSTANTS
    Payload,    \* payloads there are to send
    Config,     \* <<dataShards, totalShards>> pairs
    Entry       \* entries of other kinds in the publisher's log

VARIABLES
    config,     \* the pair chosen
    payload,    \* what is sent
    pushing,    \* shards whose push has not come to an outcome
    threw,      \* a push could not even be offered: the distribution failed
    holds,      \* shards a holder has whole
    log,        \* the publisher's log
    manifest,   \* the manifest the collector works from, or NoManifest
    reading,    \* <<index, transfer id>>: completed, and read from storage
    presented,  \* the shards presented, in order
    collected   \* the collector's promise

shardVars == <<config, payload, pushing, threw, holds, log, manifest, reading, presented,
               collected>>

NoManifest == [total |-> 0, threshold |-> 0, length |-> 0, shards |-> <<>>]
Pending == [state |-> "pending", bytes |-> <<>>]

\* validateManifest, which encoding and decoding both apply.
ValidManifest(m) == m.threshold \in 1 .. m.total /\ Len(m.shards) = m.total

\* An entry of the log that decodeShardManifest does not throw on.
DecodesAsManifest(e) == DOMAIN NoManifest \subseteq DOMAIN e /\ ValidManifest(e)

Shards == EncodeShards(payload, config[1], config[2])

\* splitForShardedDelivery, given a target and a channel for every shard.
Manifest ==
    [total |-> config[2], threshold |-> config[1], length |-> Len(payload),
     shards |-> [i \in 1 .. config[2] |-> i - 1]]

ShardInit ==
    /\ config \in {c \in Config : ValidConfig(c[1], c[2])}
    /\ payload \in Payload
    /\ pushing = 0 .. config[2] - 1
    /\ threw = FALSE
    /\ holds = {}
    /\ \E e \in Entry : log \in {<<>>, <<e>>}
    /\ manifest = NoManifest
    /\ reading = {}
    /\ presented = <<>>
    /\ collected = Pending

\* One push of distributeShardedPayload comes to an outcome.  The manifest is
\* appended once all have, whatever the outcomes are; a push that throws
\* (its request could not be made) fails the distribution.
Push(i, outcome) ==
    /\ i \in pushing
    /\ pushing' = pushing \ {i}
    /\ threw' = (threw \/ outcome = "threw")
    /\ holds' = IF outcome = "ok" THEN holds \union {i} ELSE holds
    /\ log' = IF pushing' = {} /\ ~ threw' THEN Append(log, Manifest) ELSE log
    /\ UNCHANGED <<config, payload, manifest, reading, presented, collected>>

\* locateShardManifests skips what does not decode; the collector is created
\* for one of the manifests found.
Locate(m) ==
    /\ manifest = NoManifest
    /\ m \in {log[k] : k \in DOMAIN log}
    /\ DecodesAsManifest(m)
    /\ manifest' = m
    /\ UNCHANGED <<config, payload, pushing, threw, holds, log, reading, presented, collected>>

\* A holder can serve a transfer it has stored whole (serveShard), and what
\* is read back of one is the shard that was sent.
Serves(id) == id \in holds
StoredBytes(id) == Shards[id]

\* Variant: the transfer offered is not compared with the manifest.
OnOfferUnmatched(index, id) ==
    /\ manifest # NoManifest
    /\ Serves(id)
    /\ ~ \E r \in reading : r[1] = index
    /\ reading' = IF collected = Pending THEN reading \union {<<index, id>>} ELSE reading
    /\ UNCHANGED <<config, payload, pushing, threw, holds, log, manifest, presented, collected>>

\* A holder serves the transfer `id` where shard `index` is expected.  A
\* mismatch is rejected; otherwise the transfer runs and, unless the
\* collector has settled by then, onComplete starts to read it back.
OnOffer(index, id) ==
    /\ manifest # NoManifest
    /\ Serves(id)
    /\ index + 1 \in DOMAIN manifest.shards
    /\ manifest.shards[index + 1] = id
    /\ Len(presented) < manifest.threshold
    /\ reading' = reading \union {<<index, id>>}
    /\ UNCHANGED <<config, payload, pushing, threw, holds, log, manifest, presented, collected>>

\* presented.set: an index presented again keeps its place.
Present(index, bytes) ==
    LET at == {k \in DOMAIN presented : presented[k].index = index}
        shard == [index |-> index, bytes |-> bytes]
    IN  IF at = {} THEN Append(presented, shard)
        ELSE [presented EXCEPT ![CHOOSE k \in at : TRUE] = shard]

\* The promise settles once.
SettledWith(outcome) == IF collected = Pending THEN outcome ELSE collected

\* The shard has been read back: it is presented, and the threshold-th one
\* has the payload reconstructed (maybeFinish, reconstructFromShards).
ReadBack(r) ==
    /\ r \in reading
    /\ reading' = reading \ {r}
    /\ presented' = Present(r[1], StoredBytes(r[2]))
    /\ collected' =
        IF Len(presented) < manifest.threshold /\ Len(presented') >= manifest.threshold
        THEN SettledWith([state |-> "resolved",
                      bytes |-> DecodeShards(presented', manifest.threshold, manifest.length)])
        ELSE collected
    /\ UNCHANGED <<config, payload, pushing, threw, holds, log, manifest>>

\* Reading it back fails, and the whole collection with it.
ReadFails(r) ==
    /\ r \in reading
    /\ reading' = reading \ {r}
    /\ collected' = SettledWith([state |-> "rejected", bytes |-> <<>>])
    /\ UNCHANGED <<config, payload, pushing, threw, holds, log, manifest, presented>>

ShardNext ==
    \/ \E i \in pushing : \E outcome \in {"ok", "rejected", "threw"} : Push(i, outcome)
    \/ \E k \in DOMAIN log : Locate(log[k])
    \/ \E i, j \in 0 .. config[2] - 1 : OnOffer(i, j)
    \/ \E r \in reading : ReadBack(r) \/ ReadFails(r)

(***************************************************************************)
(* Properties.                                                             *)
(***************************************************************************)
\* Whichever shards a collector gets, in whatever order and however often,
\* what it resolves with is the payload that was sent, byte for byte
\* (createShardCollector over decodeShards of encodeShards).
CollectedIsWhatWasSent ==
    collected.state = "resolved" => collected.bytes = payload
====
