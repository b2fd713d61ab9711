---- MODULE Tokens ----
(***************************************************************************)
(* Capability tokens: what mintCapabilityToken agrees to sign, what         *)
(* verifyCapabilityToken accepts (core/src/domain/tokens.ts), the scopes,   *)
(* narrowing rules and conditions both rest on (token-scope.ts,             *)
(* token-predicates.ts), and the revocation view (revocation-view.ts).      *)
(*                                                                         *)
(* A token embeds the token it was delegated from, or the manage:grant      *)
(* token that authorises it; here it names it by its number.  A signature   *)
(* is good or not.  Devices that run other code sign whatever claims they   *)
(* like, in their own name: Sign has no guard.  A verdict is kept as yes or *)
(* no, without the code's reason for a refusal.                             *)
(***************************************************************************)
EXTENDS Naturals, Sequences, FiniteSets

CONSTANTS
    Device,
    Claims,         \* the claims tokens are signed with, the links aside
    MaxToken,       \* bound: the tokens signed
    MaxEntry,       \* bound: the revocation entries recorded
    MaxTime,        \* bound: how far the clock goes
    MaxChainDepth,  \* MAX_CHAIN_DEPTH
    ManageGrant,    \* the capability "manage:grant"
    ManageRevoke,   \* the capability "manage:revoke"
    AnyCapability,  \* grants-capability is absent
    Unlimited,      \* delegations-remaining is absent: above every number used
    Resource        \* paths of resources, for the properties

VARIABLES
    tokens,       \* every token signed so far
    revocations,  \* the claims of the entries the view has recorded
    now           \* the verifier's clock

tokenVars == <<tokens, revocations, now>>

NoToken == 0
Root == [parent |-> NoToken, authorisedBy |-> NoToken]
DelegatedFrom(i) == [parent |-> i, authorisedBy |-> NoToken]
AuthorisedBy(i) == [parent |-> NoToken, authorisedBy |-> i]
DoublyLinked(i) == [parent |-> i, authorisedBy |-> i]

Token(claims, link) ==
    [claims |-> claims, parent |-> link.parent, authorisedBy |-> link.authorisedBy]

\* A token is linked to the latest one, if any: chains grow one by one.
Links ==
    LET i == Len(tokens) IN
    IF i = 0 THEN {Root} ELSE {Root, DelegatedFrom(i), AuthorisedBy(i), DoublyLinked(i)}

TokensInit ==
    /\ tokens = <<>>
    /\ revocations = {}
    /\ now = 0

(***************************************************************************)
(* Scopes.  A path is its segments, split at "/"; an absent path is <<>>,   *)
(* and a trailing "/" an empty last segment.                                *)
(***************************************************************************)
StartsWith(s, t) == Len(s) <= Len(t) /\ SubSeq(t, 1, Len(s)) = s
HasRelativeSegment(path) == \E i \in 1 .. Len(path) : path[i] \in {".", ".."}
EndsWithSlash(path) == Len(path) > 1 /\ path[Len(path)] = ""

PathNarrows(child, parent) ==
    /\ ~ HasRelativeSegment(child)
    /\ ~ HasRelativeSegment(parent)
    /\ \/ StartsWith(parent, child)
       \/ /\ EndsWithSlash(parent)
          /\ Len(child) >= Len(parent)
          /\ StartsWith(SubSeq(parent, 1, Len(parent) - 1), child)

ScopeNarrows(parent, child) ==
    /\ parent.kind = child.kind
    /\ \/ parent.path = <<>>
       \/ child.path # <<>> /\ PathNarrows(child.path, parent.path)

(***************************************************************************)
(* Conditions: predicates under three-valued logic.  A system nobody        *)
(* resolves is unknown, and so are the systems that speak of a grant when   *)
(* none is being judged (subject = NoSubject).                              *)
(***************************************************************************)
NoSubject == [capability |-> AnyCapability, bearer |-> NoToken]

TriNot(v) == CASE v = "true" -> "false" [] v = "false" -> "true" [] OTHER -> "unknown"
TriAnd(v, w) ==
    IF "false" \in {v, w} THEN "false" ELSE IF "unknown" \in {v, w} THEN "unknown" ELSE "true"
TriIs(subject, b) ==
    IF subject = NoSubject THEN "unknown" ELSE IF b THEN "true" ELSE "false"

\* A node is the bar against granting a capability to one device
\* (noSelfGrantBar), or one of a system this verifier does not know.
Evaluate(node, subject) ==
    IF node.kind = "bar"
    THEN TriNot(TriAnd(TriIs(subject, subject.capability = node.capability),
                       TriIs(subject, subject.bearer = node.grantee)))
    ELSE "unknown"

EvaluateConditions(nodes, subject) == \A n \in nodes : Evaluate(n, subject) = "true"

(***************************************************************************)
(* What one link of a chain may hand on.                                    *)
(***************************************************************************)
DepthRemaining(held, given) ==
    held.remaining = Unlimited \/ given.remaining < held.remaining

\* Variant: a delegation may keep its parent's remaining depth.
EvaluateNarrowingSameDepth(held, issuer, given) ==
    /\ held.bearer = issuer
    /\ given.expires <= held.expires
    /\ ScopeNarrows(held.scope, given.scope)
    /\ held.capability = given.capability
    /\ held.remaining = Unlimited \/ given.remaining <= held.remaining

EvaluateNarrowing(held, issuer, given) ==
    /\ held.bearer = issuer
    /\ given.expires <= held.expires
    /\ ScopeNarrows(held.scope, given.scope)
    /\ held.capability = given.capability
    /\ DepthRemaining(held, given)

\* The link check of verifyTokenChain under authorised-by.
LinkOk(authoriser, issuer, given) ==
    /\ authoriser.bearer = issuer
    /\ authoriser.capability = ManageGrant
    /\ authoriser.grants \in {AnyCapability, given.capability}
    /\ ScopeNarrows(authoriser.scope, given.scope)
    /\ given.expires <= authoriser.expires
    /\ DepthRemaining(authoriser, given)

Subject(claims) == [capability |-> claims.capability, bearer |-> claims.bearer]

(***************************************************************************)
(* Verification.                                                            *)
(***************************************************************************)
RECURSIVE VerifyTokenChain(_, _, _, _)

\* An entry counts against a token when the token's issuer signed it, or
\* when it carries a manage:revoke token of its signer's that verifies now
\* and whose scope covers the token's.
RevocationEntryGrantsRevoke(entry, t) ==
    \/ entry.issuer = t.claims.issuer
    \/ /\ entry.authorization # NoToken
       /\ LET auth == tokens[entry.authorization] IN
          /\ VerifyTokenChain(auth, entry.authorization, NoSubject, 0)
          /\ auth.claims.bearer = entry.issuer
          /\ auth.claims.capability = ManageRevoke
          /\ ScopeNarrows(auth.claims.scope, t.claims.scope)

IsRevoked(t, id) ==
    \E e \in revocations : e.token = id /\ RevocationEntryGrantsRevoke(e, t)

\* The token t was delegated from verifies, one deeper, and t narrows it.
ParentHolds(t, depth) ==
    t.parent # NoToken =>
        /\ VerifyTokenChain(tokens[t.parent], t.parent, NoSubject, depth + 1)
        /\ EvaluateNarrowing(tokens[t.parent].claims, t.claims.issuer, t.claims)

\* The token t is authorised by verifies, with t as what it authorises.
AuthoriserHolds(t, depth) ==
    t.authorisedBy # NoToken =>
        /\ VerifyTokenChain(tokens[t.authorisedBy], t.authorisedBy, Subject(t.claims), depth + 1)
        /\ LinkOk(tokens[t.authorisedBy].claims, t.claims.issuer, t.claims)

\* t, at this depth of a chain, where it authorises subject.
VerifyTokenChain(t, id, subject, depth) ==
    /\ depth < MaxChainDepth
    /\ t.claims.signature = "good"
    /\ now < t.claims.expires
    /\ t.claims.notBefore <= now
    /\ now < t.claims.validUntil
    /\ ~ IsRevoked(t, id)
    /\ t.claims.conditionsDecode
    /\ EvaluateConditions(t.claims.conditions, subject)
    /\ t.parent # NoToken => t.claims.capability # ManageGrant /\ t.authorisedBy = NoToken
    /\ ParentHolds(t, depth)
    /\ AuthoriserHolds(t, depth)

\* With the expectedBearer check of verifyCapabilityToken left to the caller.
VerifyCapabilityToken(i) == VerifyTokenChain(tokens[i], i, NoSubject, 0)

(***************************************************************************)
(* Minting.                                                                 *)
(***************************************************************************)
CheckNarrowing(held, minter, candidate) == EvaluateNarrowing(held, minter, candidate)

\* Variant: the authoriser's expiry is not compared.
CheckAuthorisationOutliving(t, minter, candidate) ==
    /\ t.parent = NoToken
    /\ t.claims.bearer = minter
    /\ t.claims.capability = ManageGrant
    /\ t.claims.grants \in {AnyCapability, candidate.capability}
    /\ ScopeNarrows(t.claims.scope, candidate.scope)
    /\ DepthRemaining(t.claims, candidate)
    /\ t.claims.conditionsDecode
    /\ EvaluateConditions(t.claims.conditions, Subject(candidate))

CheckAuthorisation(t, minter, candidate) ==
    /\ t.parent = NoToken
    /\ t.claims.bearer = minter
    /\ t.claims.capability = ManageGrant
    /\ t.claims.grants \in {AnyCapability, candidate.capability}
    /\ ScopeNarrows(t.claims.scope, candidate.scope)
    /\ candidate.expires <= t.claims.expires
    /\ DepthRemaining(t.claims, candidate)
    /\ t.claims.conditionsDecode
    /\ EvaluateConditions(t.claims.conditions, Subject(candidate))

\* canGrant and canGrantVia: whether a held token lets its bearer grant.
CanGrant(i, candidate) ==
    now < candidate.expires /\ CheckNarrowing(tokens[i].claims, candidate.issuer, candidate)
CanGrantVia(i, candidate) ==
    now < candidate.expires /\ CheckAuthorisation(tokens[i], candidate.issuer, candidate)

MintAccepts(claims, link) ==
    /\ now < claims.expires
    /\ NoToken \in {link.parent, link.authorisedBy}
    /\ link.parent # NoToken =>
        claims.capability # ManageGrant /\ CanGrant(link.parent, claims)
    /\ link.authorisedBy # NoToken => CanGrantVia(link.authorisedBy, claims)

(***************************************************************************)
(* Actions.                                                                 *)
(***************************************************************************)
Signed(claims, link) ==
    /\ Len(tokens) < MaxToken
    /\ tokens' = Append(tokens, Token(claims, link))
    /\ UNCHANGED <<revocations, now>>

MintCapabilityToken(claims, link) ==
    /\ claims.signature = "good"
    /\ MintAccepts(claims, link)
    /\ Signed(claims, link)

\* Another implementation signs what this one would refuse.
Sign(claims, link) ==
    /\ ~ MintAccepts(claims, link)
    /\ Signed(claims, link)

RECURSIVE ChainOf(_)

\* The tokens of a chain, from token i to its root.
ChainOf(i) ==
    LET t == tokens[i]
        up == IF t.parent # NoToken THEN t.parent ELSE t.authorisedBy
    IN {i} \union (IF up = NoToken THEN {} ELSE ChainOf(up))

Delegated(entries) == {e \in entries : e.authorization # NoToken}

RevocationEntry(d, i, authorization) ==
    [issuer |-> d, token |-> i, authorization |-> authorization]

\* record() of an entry whose signature is good.  Left out: an entry whose
\* authorization, or what that rests on, is itself under a delegated
\* revocation.  The code starts depth and seen afresh for the authorization
\* and would not return when the two name each other.
Record(d, i, authorization) ==
    LET entries == revocations \union {RevocationEntry(d, i, authorization)} IN
    /\ Cardinality(entries) <= MaxEntry
    /\ \A e \in Delegated(entries), f \in Delegated(entries) : f.token \notin ChainOf(e.authorization)
    /\ revocations' = entries
    /\ UNCHANGED <<tokens, now>>

Tick ==
    /\ now < MaxTime
    /\ now' = now + 1
    /\ UNCHANGED <<tokens, revocations>>

TokensNext ==
    \/ \E claims \in Claims, link \in Links :
          MintCapabilityToken(claims, link) \/ Sign(claims, link)
    \/ \E d \in Device, i \in 1 .. Len(tokens), a \in 0 .. Len(tokens) : Record(d, i, a)
    \/ Tick

(***************************************************************************)
(* Properties.                                                              *)
(***************************************************************************)
\* The resources a scope is about, independently of how narrowing is
\* decided: a path stands for what lies at it or below it.
Below(path, resource) ==
    LET dir == SelectSeq(path, LAMBDA s : s # "") IN StartsWith(dir, resource)

RECURSIVE Distance(_, _)
Distance(a, i) ==
    IF a = i THEN 0
    ELSE 1 + Distance(a, IF tokens[i].parent # NoToken THEN tokens[i].parent ELSE tokens[i].authorisedBy)

\* A token that verifies is within every token above it, however long the
\* chain and whoever signed its links: it reaches no resource they do not,
\* ends no later, is no more links away than they allow, and none of them
\* has expired or been revoked by its issuer or under manage:revoke
\* (verifyTokenChain checks only one link at a time).
VerifiedIsWithinItsChain ==
    \A i \in 1 .. Len(tokens) : VerifyCapabilityToken(i) =>
        \A a \in ChainOf(i) :
            LET up == tokens[a].claims
                t == tokens[i].claims
            IN
            /\ now < up.expires
            /\ t.expires <= up.expires
            /\ up.scope.kind = t.scope.kind
            /\ \A r \in Resource : Below(t.scope.path, r) => Below(up.scope.path, r)
            /\ up.remaining = Unlimited \/ Distance(a, i) <= up.remaining
            /\ \A e \in revocations : e.token = a => ~ RevocationEntryGrantsRevoke(e, tokens[a])

\* mintCapabilityToken "refuses rather than producing a token
\* verifyCapabilityToken would reject", and refuses nothing else: for claims
\* that stand by themselves and a link that verifies where it would be put,
\* minting agrees with verifying the result.
MintAgreesWithVerify ==
    \A c \in Claims, link \in Links :
        LET t == Token(c, link)
            up == IF link.parent # NoToken THEN link.parent ELSE link.authorisedBy
            standing == IF link.parent # NoToken THEN NoSubject ELSE Subject(c)
        IN
        (/\ c.signature = "good" /\ c.notBefore <= now /\ now < c.validUntil
         /\ c.conditionsDecode /\ EvaluateConditions(c.conditions, NoSubject)
         /\ up # NoToken => VerifyTokenChain(tokens[up], up, standing, 1))
        => (MintAccepts(c, link) <=> VerifyTokenChain(t, NoToken, NoSubject, 0))
====
