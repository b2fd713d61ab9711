---- MODULE VerdictCache ----
(***************************************************************************)
(* The bounded memo of verdicts (core/src/domain/verdict-cache.ts): one    *)
(* computation is shared by everyone who asks while it is held, a failure  *)
(* to settle is not remembered, and the bytes held stay within a budget.   *)
(*                                                                         *)
(* A computation is a number, taken again when nothing refers to it.  An   *)
(* entry is the computation whose promise it holds.                        *)
(***************************************************************************)
EXTENDS Integers, Sequences, FiniteSetsExt, SequencesExt

CONSTANTS
    Key,          \* what verdicts are asked about
    Cost,         \* Cost[k]: the bytes an entry for k is counted with
    Budget,       \* budgetBytes
    Computation

VARIABLES
    held,     \* the Map: a sequence of [key, calc], oldest first
    used,     \* the bytes counted for the entries
    pending,  \* the bytes counted for the computations under way
    running,  \* running[x]: the key computation x is at work on, or NoKey
    outcome   \* outcome[x]: what x settled with, while an entry holds it

cacheVars == <<held, used, pending, running, outcome>>

NoKey == "none"

CacheInit ==
    /\ held = <<>>
    /\ used = 0
    /\ pending = 0
    /\ running = [x \in Computation |-> NoKey]
    /\ outcome = [x \in Computation |-> "none"]

Holds(entries, k) == \E i \in DOMAIN entries : entries[i].key = k
EntryFor(k) == CHOOSE e \in ToSet(held) : e.key = k
Without(entries, k) == SelectSeq(entries, LAMBDA e : e.key # k)
CostOf(entries) == FoldLeft(LAMBDA sum, e : sum + Cost[e.key], 0, entries)

Free(x) == running[x] = NoKey /\ \A i \in DOMAIN held : held[i].calc # x

\* Too large, or too much under way: computed for this caller alone.
VerdictUncached(k) ==
    /\ Cost[k] > Budget \/ pending + Cost[k] > Budget
    /\ UNCHANGED cacheVars

\* A verdict that is held, settled or not, is shared and made the newest.
VerdictHeld(k) ==
    /\ pending + Cost[k] <= Budget
    /\ Holds(held, k)
    /\ held' = Append(Without(held, k), EntryFor(k))
    /\ UNCHANGED <<used, pending, running, outcome>>

\* How many of the oldest entries go: as few as bring used within the budget.
Evicted(entries, bytes) ==
    Min({n \in 0 .. Len(entries) : bytes - CostOf(SubSeq(entries, 1, n)) <= Budget})

VerdictComputed(k, x) ==
    /\ Cost[k] <= Budget
    /\ pending + Cost[k] <= Budget
    /\ ~ Holds(held, k)
    /\ Free(x)
    /\ LET entries == Append(held, [key |-> k, calc |-> x])
           n == Evicted(entries, used + Cost[k])
       IN /\ held' = SubSeq(entries, n + 1, Len(entries))
          /\ used' = used + Cost[k] - CostOf(SubSeq(entries, 1, n))
    /\ pending' = pending + Cost[k]
    /\ running' = [running EXCEPT ![x] = k]
    /\ outcome' = [outcome EXCEPT ![x] = "none"]

\* Variant: forget takes the bytes off whether the key is held or not.
ForgetTwice(k) ==
    /\ held' = Without(held, k)
    /\ used' = used - Cost[k]

\* forget(key): whichever entry the key has by now.
Forget(k) ==
    /\ held' = Without(held, k)
    /\ used' = IF Holds(held, k) THEN used - Cost[k] ELSE used

\* A computation settles: with a verdict, or without one (unsettled).
Settle(x, result) ==
    /\ running[x] # NoKey
    /\ IF result = "unsettled" THEN Forget(running[x]) ELSE UNCHANGED <<held, used>>
    /\ pending' = pending - Cost[running[x]]
    /\ running' = [running EXCEPT ![x] = NoKey]
    /\ outcome' = [outcome EXCEPT ![x] = result]

CacheNext ==
    \/ \E k \in Key :
        \/ VerdictUncached(k)
        \/ VerdictHeld(k)
        \/ \E x \in Computation : VerdictComputed(k, x)
    \/ \E x \in Computation, result \in {"yes", "no", "unsettled"} : Settle(x, result)

\* The counters tell the truth and the budget binds, although an entry may
\* be evicted while its computation runs, computed again under its key, and
\* forgotten by the first computation: used is what the entries cost, pending
\* what is under way, each key has one entry, and no entry gives out a
\* verdict that was never reached (verdict and forget).
CacheKeepsItsBooks ==
    /\ used = CostOf(held)
    /\ used <= Budget
    /\ pending = MapThenSumSet(LAMBDA x : Cost[running[x]],
                               {x \in Computation : running[x] # NoKey})
    /\ pending <= Budget
    /\ IsInjective([i \in DOMAIN held |-> held[i].key])
    /\ \A i \in DOMAIN held : outcome[held[i].calc] # "unsettled"
====
