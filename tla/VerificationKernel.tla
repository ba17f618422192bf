------------------------- MODULE VerificationKernel -------------------------
(***************************************************************************)
(* The deterministic decision of one request (src/src/core/verify.ts,      *)
(* policies.ts, decision.ts) and the verification of the delegation grant  *)
(* it may carry (grants.ts).                                               *)
(*                                                                         *)
(* A rule yields PASS, REVIEW or FAIL; a rule that does not apply is a     *)
(* PASS.  In an authority, targets is every target and currency is         *)
(* AnyCurrency when the constraint is absent, and max is NoLimit.  A       *)
(* negative amount stands for any parameter that is not a usable number.   *)
(***************************************************************************)
EXTENDS Integers

CONSTANTS
  Keys,             \* the principals' key pairs
  KeyId,            \* the kid a key is registered under
  SensitiveActions, \* action types that need an explicit permission
  MaxLifetime,      \* longest grant accepted (365 days)
  Skew,             \* CLOCK_SKEW_SECONDS
  Nobody,           \* the principal of a request that names none
  NoGrant,          \* the grant of a request that carries none
  NoKey,            \* the signer of a token nobody signed
  AnyCurrency,      \* the currency of an authority that names none
  NoAudience        \* the audience of a grant, or of a caller, that names none

NoLimit == -1

ASSUME KernelAssumption ==
  /\ MaxLifetime \in Nat \ {0}
  /\ Skew \in Nat
  /\ NoKey \notin Keys

---------------------------------------------------------------------------
(* Delegation grants.                                                      *)

KeysUnique(source) ==
  \A p \in DOMAIN source : \A j, k \in source[p] : KeyId[j] = KeyId[k] => j = k

\* Two keys of a principal under one id make the whole registry unusable.
parsePrincipalKeyRegistry(source) ==
  IF KeysUnique(source) THEN source ELSE [p \in DOMAIN source |-> {}]

\* The issuer has a key registered under the token's id, and that key signed it.
SignatureVerifies(g, registry) ==
  \E k \in registry[g.iss] : KeyId[k] = g.kid /\ k = g.by

\* Mutant: the tolerance is applied against the principal's clock, not for it.
InForceIntolerant(g, t) ==
  /\ g.iat < g.exp /\ g.exp - g.iat <= MaxLifetime
  /\ t - Skew >= g.nbf
  /\ t + Skew < g.exp

\* Mutant: a grant is still in force at its expiry.
InForceInclusive(g, t) ==
  /\ g.iat < g.exp /\ g.exp - g.iat <= MaxLifetime
  /\ t + Skew >= g.nbf
  /\ t - Skew <= g.exp

InForce(g, t) ==
  /\ g.iat < g.exp /\ g.exp - g.iat <= MaxLifetime
  /\ t + Skew >= g.nbf
  /\ t - Skew < g.exp

Bound(g, request) ==
  /\ request.principal # Nobody
  /\ g.iss = request.principal
  /\ g.sub = request.agent
  /\ g.authority = request.authority

\* No caller in the source passes the audience it expects.
ExpectedAudience == NoAudience

AudienceMatches(g) ==
  NoAudience \in {ExpectedAudience, g.aud} \/ g.aud = ExpectedAudience

\* A malformed token has no signer.
verifyDelegationGrant(request, registry, t) ==
  CASE request.grant = NoGrant -> "absent"
    [] /\ request.grant # NoGrant
       /\ SignatureVerifies(request.grant, registry)
       /\ InForce(request.grant, t)
       /\ AudienceMatches(request.grant)
       /\ Bound(request.grant, request) -> "ok"
    [] OTHER -> "failed"

---------------------------------------------------------------------------
(* Policies.                                                               *)

evaluateAuthorityProvenance(trusted) == IF trusted THEN "PASS" ELSE "REVIEW"

evaluatePrincipal(request, grant, trusted) ==
  IF request.principal # Nobody /\ (grant = "ok" \/ trusted) THEN "PASS" ELSE "REVIEW"

evaluateDelegatedAction(request) ==
  IF request.action.type \in request.authority.allowed THEN "PASS" ELSE "FAIL"

\* Mutant: the currency is compared even where no limit is set.
evaluateAmountCurrencyFirst(request) ==
  LET action == request.action
      authority == request.authority IN
  CASE authority.currency \notin {AnyCurrency, action.currency} -> "REVIEW"
    [] authority.currency \in {AnyCurrency, action.currency} /\ authority.max = NoLimit -> "PASS"
    [] OTHER -> IF action.amount \in 0 .. authority.max THEN "PASS" ELSE "FAIL"

evaluateAmount(request) ==
  LET action == request.action
      authority == request.authority IN
  CASE authority.max = NoLimit -> "PASS"
    [] authority.max # NoLimit
         /\ (action.amount < 0 \/ authority.currency \notin {AnyCurrency, action.currency}) -> "REVIEW"
    [] OTHER -> IF action.amount <= authority.max THEN "PASS" ELSE "FAIL"

evaluateTarget(request) ==
  IF request.action.target \in request.authority.targets \ request.authority.blocked
  THEN "PASS" ELSE "FAIL"

evaluateSensitiveAction(request) ==
  IF request.action.type \in SensitiveActions \ request.authority.sensitive
  THEN "REVIEW" ELSE "PASS"

evaluateReversibility(request) ==
  IF request.authority.reversibleOnly /\ ~request.action.reversible THEN "REVIEW" ELSE "PASS"

evaluateSignedGrantMode(mode, grant) ==
  IF mode = "invalid" \/ (mode = "required" /\ grant # "ok") THEN "FAIL" ELSE "PASS"

\* Mutant: a grant that fails falls back to what the caller asserts.
evaluateDelegationGrantOrFallBack(grant) == "PASS"
evaluateDelegationGrant(grant) == IF grant = "failed" THEN "FAIL" ELSE "PASS"

\* failed: which of breaker, sanctions, data-loss screen and quorum object.
evaluatePolicies(request, failed, mode, grant, trusted) ==
  { evaluateAuthorityProvenance(trusted),
    evaluatePrincipal(request, grant, trusted),
    evaluateDelegatedAction(request),
    evaluateAmount(request),
    evaluateTarget(request),
    evaluateSensitiveAction(request),
    evaluateReversibility(request),
    evaluateSignedGrantMode(mode, grant),
    evaluateDelegationGrant(grant),
    IF failed = {} THEN "PASS" ELSE "FAIL" }

aggregateDecision(results) ==
  CASE "FAIL" \in results -> "BLOCK"
    [] "FAIL" \notin results /\ "REVIEW" \in results -> "REVIEW"
    [] OTHER -> "ALLOW"

resolveProvenance(grant, trusted) ==
  CASE grant = "ok" -> "principal_signed"
    [] grant # "ok" /\ trusted -> "trusted_integration"
    [] OTHER -> "unverified"

verifyAction(request, failed, mode, grant, trusted) ==
  aggregateDecision(evaluatePolicies(request, failed, mode, grant, trusted))
=============================================================================
