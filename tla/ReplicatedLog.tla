--------------------------- MODULE ReplicatedLog ---------------------------
(* What a mailbox promises of the logs it holds: an owner's log only grows,  *)
(* and the copy held for it is at all times a prefix that only grows too.    *)
EXTENDS Sequences, Naturals

CONSTANTS Peer, Contents

VARIABLES
    log,    \* the owner's entries
    held    \* the entries the mailbox answers with

logVars == <<log, held>>

Init ==
    /\ log = [p \in Peer |-> <<>>]
    /\ held = [p \in Peer |-> <<>>]

AppendEntry(p) ==
    /\ \E x \in Contents : log' = [log EXCEPT ![p] = Append(@, x)]
    /\ UNCHANGED held

Replicate(p) ==
    /\ \E n \in (Len(held[p]) + 1)..Len(log[p]) :
          held' = [held EXCEPT ![p] = SubSeq(log[p], 1, n)]
    /\ UNCHANGED log

Next == \E p \in Peer : AppendEntry(p) \/ Replicate(p)

Spec == Init /\ [][Next]_logVars

=============================================================================
