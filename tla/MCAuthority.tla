---------------------------- MODULE MCAuthority ----------------------------
(* What devices may do, in parts that share nothing: tokens and revocations, *)
(* the cache of verdicts about them, and asking a person for a capability.   *)
(* The parts that are not looked at stay in an initial state.                *)
EXTENDS Tokens, VerdictCache, CapabilityRequests

VARIABLE part

Top == [kind |-> "node", path |-> <<>>]
Dir == [kind |-> "node", path |-> <<"", "a">>]
DirSlash == [kind |-> "node", path |-> <<"", "a", "">>]
File == [kind |-> "node", path |-> <<"", "a", "b">>]
Sibling == [kind |-> "node", path |-> <<"", "ab">>]

Base == [issuer |-> 1, bearer |-> 1, capability |-> "use", scope |-> Top,
         expires |-> 2, notBefore |-> 0, validUntil |-> 9, remaining |-> 9,
         grants |-> "any", conditions |-> {}, conditionsDecode |-> TRUE,
         signature |-> "good"]
Bar == [kind |-> "bar", capability |-> "use", grantee |-> 1]

\* Two devices; each claim differs from Base in what a check looks at.
MCClaims == {
    Base,
    [Base EXCEPT !.bearer = 2, !.scope = DirSlash, !.remaining = 1, !.validUntil = 1],
    [Base EXCEPT !.issuer = 2, !.scope = File, !.remaining = 0],
    [Base EXCEPT !.scope = Dir, !.expires = 1, !.remaining = 0],
    [Base EXCEPT !.scope = Sibling, !.notBefore = 1],
    [Base EXCEPT !.capability = "manage:grant", !.grants = "use", !.remaining = 1,
                 !.conditions = {Bar}],
    [Base EXCEPT !.issuer = 2, !.bearer = 2, !.capability = "manage:grant", !.expires = 1],
    [Base EXCEPT !.capability = "manage:grant", !.conditionsDecode = FALSE],
    [Base EXCEPT !.bearer = 2, !.capability = "manage:revoke", !.expires = 1]}
MCResource == {<<>>, <<"a">>, <<"a", "b">>, <<"ab">>}

MCCost == [k |-> 1, l |-> 1, m |-> 2, n |-> 4]

AuthorityInit ==
    /\ part \in {"tokens", "cache", "requests"}
    /\ TokensInit /\ CacheInit /\ RequestsInit
    /\ (part # "requests" => ask = (CHOOSE a \in Ask : TRUE) /\ gated)

AuthorityNext ==
    \/ part = "tokens" /\ TokensNext /\ UNCHANGED <<part, cacheVars, requestVars>>
    \/ part = "cache" /\ CacheNext /\ UNCHANGED <<part, tokenVars, requestVars>>
    \/ part = "requests" /\ RequestsNext /\ UNCHANGED <<part, tokenVars, cacheVars>>

AuthoritySpec ==
    /\ AuthorityInit /\ [][AuthorityNext]_<<part, tokenVars, cacheVars, requestVars>>
    /\ RequestsFairness

=============================================================================
