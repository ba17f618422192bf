----------------------- MODULE SignedDelegationProofs -----------------------
(***************************************************************************)
(* Proofs about VerificationKernel and SignedDelegation for any            *)
(* principals, keys, authorities, deployments, calls and clocks.           *)
(***************************************************************************)
EXTENDS SignedDelegation, TLAPS

(* What each rule answers, and when it passes. *)
LEMMA RulesAnswer ==
  ASSUME NEW request, NEW failed, NEW mode, NEW grant, NEW trusted
  PROVE  evaluatePolicies(request, failed, mode, grant, trusted) \subseteq {"PASS", "REVIEW", "FAIL"}
<1>1. evaluateAmount(request) \in {"PASS", "REVIEW", "FAIL"}
  BY DEF evaluateAmount
<1>2. /\ evaluateAuthorityProvenance(trusted) \in {"PASS", "REVIEW", "FAIL"}
      /\ evaluatePrincipal(request, grant, trusted) \in {"PASS", "REVIEW", "FAIL"}
      /\ evaluateDelegatedAction(request) \in {"PASS", "REVIEW", "FAIL"}
      /\ evaluateTarget(request) \in {"PASS", "REVIEW", "FAIL"}
      /\ evaluateSensitiveAction(request) \in {"PASS", "REVIEW", "FAIL"}
      /\ evaluateReversibility(request) \in {"PASS", "REVIEW", "FAIL"}
      /\ evaluateSignedGrantMode(mode, grant) \in {"PASS", "REVIEW", "FAIL"}
      /\ evaluateDelegationGrant(grant) \in {"PASS", "REVIEW", "FAIL"}
  BY DEF evaluateAuthorityProvenance, evaluatePrincipal, evaluateDelegatedAction, evaluateTarget,
         evaluateSensitiveAction, evaluateReversibility, evaluateSignedGrantMode,
         evaluateDelegationGrant
<1>3. (IF failed = {} THEN "PASS" ELSE "FAIL") \in {"PASS", "REVIEW", "FAIL"}
  OBVIOUS
<1> QED BY <1>1, <1>2, <1>3 DEF evaluatePolicies

(* The decision is ALLOW when every rule passes, and only then. *)
LEMMA AllowMeansAllPass ==
  ASSUME NEW request, NEW failed, NEW mode, NEW grant, NEW trusted
  PROVE  verifyAction(request, failed, mode, grant, trusted) = "ALLOW" <=>
           /\ evaluateAuthorityProvenance(trusted) = "PASS"
           /\ evaluatePrincipal(request, grant, trusted) = "PASS"
           /\ evaluateDelegatedAction(request) = "PASS"
           /\ evaluateAmount(request) = "PASS"
           /\ evaluateTarget(request) = "PASS"
           /\ evaluateSensitiveAction(request) = "PASS"
           /\ evaluateReversibility(request) = "PASS"
           /\ evaluateSignedGrantMode(mode, grant) = "PASS"
           /\ evaluateDelegationGrant(grant) = "PASS"
           /\ failed = {}
<1> DEFINE results == evaluatePolicies(request, failed, mode, grant, trusted)
<1>1. results \subseteq {"PASS", "REVIEW", "FAIL"}
  BY RulesAnswer
<1>2. aggregateDecision(results) = "ALLOW" <=> "FAIL" \notin results /\ "REVIEW" \notin results
  BY DEF aggregateDecision
<1>3. aggregateDecision(results) = "ALLOW" <=> \A r \in results : r = "PASS"
  BY <1>1, <1>2
<1>4. (\A r \in results : r = "PASS") <=>
           /\ evaluateAuthorityProvenance(trusted) = "PASS"
           /\ evaluatePrincipal(request, grant, trusted) = "PASS"
           /\ evaluateDelegatedAction(request) = "PASS"
           /\ evaluateAmount(request) = "PASS"
           /\ evaluateTarget(request) = "PASS"
           /\ evaluateSensitiveAction(request) = "PASS"
           /\ evaluateReversibility(request) = "PASS"
           /\ evaluateSignedGrantMode(mode, grant) = "PASS"
           /\ evaluateDelegationGrant(grant) = "PASS"
           /\ (IF failed = {} THEN "PASS" ELSE "FAIL") = "PASS"
  BY Zenon DEF evaluatePolicies
<1>5. (IF failed = {} THEN "PASS" ELSE "FAIL") = "PASS" <=> failed = {}
  OBVIOUS
<1> QED BY <1>3, <1>4, <1>5, Zenon DEF verifyAction

(* What an ALLOW says of the request. *)
LEMMA AllowPermits ==
  ASSUME NEW request, NEW failed, NEW mode, NEW grant, NEW trusted \in BOOLEAN,
         request.action.amount \in Int, request.authority.max \in Nat \cup {NoLimit},
         request.action.reversible \in BOOLEAN, request.authority.reversibleOnly \in BOOLEAN,
         verifyAction(request, failed, mode, grant, trusted) = "ALLOW"
  PROVE  /\ Permits(request.authority, request.action)
         /\ trusted /\ failed = {} /\ mode # "invalid"
         /\ mode = "required" => grant = "ok"
         /\ grant # "failed"
<1>1. /\ trusted /\ failed = {}
      /\ mode # "invalid" /\ (mode = "required" => grant = "ok")
      /\ grant # "failed"
  BY AllowMeansAllPass DEF evaluateAuthorityProvenance, evaluateSignedGrantMode,
     evaluateDelegationGrant
<1>2. request.authority.max # NoLimit =>
        /\ 0 <= request.action.amount /\ request.action.amount <= request.authority.max
        /\ request.authority.currency \in {AnyCurrency, request.action.currency}
  <2>1. evaluateAmount(request) = "PASS"
    BY AllowMeansAllPass
  <2> QED BY <2>1 DEF evaluateAmount, NoLimit
<1>3. /\ request.action.type \in request.authority.allowed
      /\ request.action.type \in SensitiveActions => request.action.type \in request.authority.sensitive
      /\ request.action.target \in request.authority.targets
      /\ request.action.target \notin request.authority.blocked
      /\ request.authority.reversibleOnly => request.action.reversible
  <2>1. /\ evaluateDelegatedAction(request) = "PASS" /\ evaluateTarget(request) = "PASS"
        /\ evaluateSensitiveAction(request) = "PASS" /\ evaluateReversibility(request) = "PASS"
    BY AllowMeansAllPass
  <2> QED BY <2>1 DEF evaluateDelegatedAction, evaluateTarget, evaluateSensitiveAction,
                      evaluateReversibility
<1> QED BY <1>1, <1>2, <1>3 DEF Permits

(* A wider authority allows what a narrower one does. *)
LEMMA WiderAllows ==
  ASSUME NEW request \in Requests, NEW failed, NEW mode, NEW grant, NEW trusted \in BOOLEAN,
         NEW a \in Authorities, AsWide(a, request.authority),
         verifyAction(request, failed, mode, grant, trusted) = "ALLOW"
  PROVE  verifyAction([request EXCEPT !.authority = a], failed, mode, grant, trusted) = "ALLOW"
<1> DEFINE wider == [request EXCEPT !.authority = a]
<1>1. /\ wider.authority = a /\ wider.action = request.action
      /\ wider.principal = request.principal
  BY DEF Requests
<1>2. /\ request.action.amount \in Int /\ request.action.reversible \in BOOLEAN
      /\ Limited(request.authority) /\ Limited(a)
  BY DelegationAssumption DEF Requests
<1>3. Permits(request.authority, request.action)
  BY <1>2, AllowPermits DEF Limited
<1> HIDE DEF wider
<1>4. evaluatePrincipal(wider, grant, trusted) = "PASS"
  BY <1>1, AllowMeansAllPass DEF evaluatePrincipal
<1>5. evaluateDelegatedAction(wider) = "PASS" /\ evaluateTarget(wider) = "PASS"
      /\ evaluateSensitiveAction(wider) = "PASS"
  BY <1>1, <1>3 DEF evaluateDelegatedAction, evaluateTarget, evaluateSensitiveAction, AsWide,
                    Permits
<1>6. evaluateReversibility(wider) = "PASS"
  BY <1>1, <1>2, <1>3 DEF evaluateReversibility, AsWide, Permits, Limited
<1>7. evaluateAmount(wider) = "PASS"
  <2>1. CASE a.max = NoLimit
    BY <1>1, <2>1 DEF evaluateAmount
  <2>2. CASE a.max # NoLimit
    <3>1. /\ request.authority.max # NoLimit /\ request.authority.max <= a.max
          /\ a.currency \in {AnyCurrency, request.authority.currency}
      BY <2>2 DEF AsWide
    <3>2. /\ 0 <= request.action.amount /\ request.action.amount <= request.authority.max
          /\ request.authority.currency \in {AnyCurrency, request.action.currency}
      BY <1>3, <3>1 DEF Permits
    <3>3. request.action.amount <= a.max /\ ~(request.action.amount < 0)
      BY <1>2, <3>1, <3>2 DEF Limited, NoLimit
    <3>4. a.currency \in {AnyCurrency, request.action.currency}
      BY <3>1, <3>2
    <3> QED BY <1>1, <2>2, <3>3, <3>4 DEF evaluateAmount
  <2> QED BY <2>1, <2>2
<1>8. /\ evaluateAuthorityProvenance(trusted) = "PASS"
      /\ evaluateSignedGrantMode(mode, grant) = "PASS"
      /\ evaluateDelegationGrant(grant) = "PASS"
      /\ failed = {}
  BY AllowMeansAllPass
<1>9. verifyAction(wider, failed, mode, grant, trusted) = "ALLOW"
  BY <1>4, <1>5, <1>6, <1>7, <1>8, AllowMeansAllPass
<1> QED BY <1>9 DEF wider

(* The answers of the kernel are answers. *)
LEMMA AnswerTypes ==
  ASSUME NEW request, NEW registry, NEW t, NEW failed, NEW mode, NEW grant, NEW trusted
  PROVE  /\ verifyDelegationGrant(request, registry, t) \in {"absent", "ok", "failed"}
         /\ verifyAction(request, failed, mode, grant, trusted) \in {"ALLOW", "REVIEW", "BLOCK"}
BY DEF verifyDelegationGrant, verifyAction, aggregateDecision

---------------------------------------------------------------------------
(* Type correctness.                                                       *)

(* The fields a call carries, by its phase. *)
LEMMA TaskFields ==
  ASSUME TypeOK, NEW c \in Calls
  PROVE  /\ task[c] = Idle \/ task[c] \in Sent \/ task[c] \in Screened \/ task[c] \in Decided
         /\ task[c].phase = "sent" => task[c] \in Sent
         /\ task[c].phase = "screened" => task[c] \in Screened
         /\ HasVerdict(c) => task[c] \in Decided
         /\ task[c] # Idle => task[c].phase # "idle"
BY DEF TypeOK, Idle, Sent, Screened, Decided, HasVerdict

(* What a call can carry is a grant. *)
LEMMA PresentableAreGrants ==
  ASSUME TypeOK
  PROVE  Presentable \subseteq Grants
<1>1. ASSUME NEW g \in Grants, NEW a \in Authorities
      PROVE  Altered(g, a) \in Grants
  BY DEF Altered, Grants
<1> QED BY <1>1 DEF Presentable, TypeOK

(* Signing makes a grant by the signer's clock. *)
LEMMA SigningMakesGrants ==
  ASSUME TypeOK, NEW d \in Delegations, SignGrant(d)
  PROVE  \E g \in Grants :
           /\ signed' = signed \cup {g}
           /\ g.by \in Keys /\ g.kid = KeyId[g.by]
           /\ g.born = now /\ g.iat - now \in Drifts
<1>1. PICK drift \in Drifts :
        signed' = signed \cup
         {[iss |-> d.iss, sub |-> d.sub, aud |-> d.aud, kid |-> KeyId[d.key], by |-> d.key,
           authority |-> d.authority, born |-> now, iat |-> now + drift,
           nbf |-> now + drift + d.delay, exp |-> now + drift + d.life]}
  BY DEF SignGrant
<1> DEFINE g == [iss |-> d.iss, sub |-> d.sub, aud |-> d.aud, kid |-> KeyId[d.key], by |-> d.key,
                 authority |-> d.authority, born |-> now, iat |-> now + drift,
                 nbf |-> now + drift + d.delay, exp |-> now + drift + d.life]
<1>2. d.key \in Keys /\ d.life \in Int /\ d.delay \in Nat /\ drift \in Int /\ now \in Nat
  BY DelegationAssumption DEF Drifts, TypeOK
<1>3. g \in Grants
  BY <1>2 DEF Grants
<1>4. g.iat - now \in Drifts
  BY <1>2
<1> QED BY <1>1, <1>2, <1>3, <1>4

LEMMA Typing == Spec => []TypeOK
<1>1. Init => TypeOK
  BY DelegationAssumption DEF Init, TypeOK, Idle
<1>2. TypeOK /\ [Next]_vars => TypeOK'
  <2> SUFFICES ASSUME TypeOK, [Next]_vars PROVE TypeOK'
    OBVIOUS
  <2>1. ASSUME NEW d \in Delegations, SignGrant(d) PROVE TypeOK'
    <3>1. signed' \subseteq Grants
      BY <2>1, SigningMakesGrants DEF TypeOK
    <3> QED BY <2>1, <3>1 DEF SignGrant, TypeOK, history
  <2>2. ASSUME NEW e \in Environments, Redeploy(e) PROVE TypeOK'
    BY <2>2, DelegationAssumption DEF Redeploy, TypeOK
  <2>3. ASSUME NEW c \in Calls, Send(c) PROVE TypeOK'
    <3>1. PICK i \in Intents, g \in Presentable \cup {NoGrant}, trusted, timed \in BOOLEAN :
            task' = [task EXCEPT ![c] = [phase |-> "sent", request |-> WithGrant(i, g),
                                         trusted |-> trusted, timed |-> timed, sent |-> now]]
      BY <2>3 DEF Send
    <3>2. WithGrant(i, g) \in Requests
      BY PresentableAreGrants DEF WithGrant, Requests
    <3>3. [phase |-> "sent", request |-> WithGrant(i, g), trusted |-> trusted, timed |-> timed, sent |-> now] \in Sent
      BY <3>2 DEF Sent, TypeOK
    <3>4. task' \in [Calls -> {Idle} \cup Sent \cup Screened \cup Decided]
      BY <3>1, <3>3 DEF TypeOK
    <3> QED BY <2>3, <3>4 DEF Send, TypeOK, history
  <2>4. ASSUME NEW c \in Calls, Screen(c) PROVE TypeOK'
    <3>1. task[c] \in Sent
      BY <2>4, TaskFields DEF Screen
    <3>2. task'[c] \in Screened
      BY <2>4, <3>1 DEF Screen, Sent, Screened, TypeOK
    <3>3. task' = [task EXCEPT ![c] = task'[c]]
      BY <2>4 DEF Screen, TypeOK
    <3>4. task' \in [Calls -> {Idle} \cup Sent \cup Screened \cup Decided]
      BY <3>2, <3>3 DEF TypeOK
    <3> QED BY <2>4, <3>4 DEF Screen, TypeOK, history
  <2>5. ASSUME NEW c \in Calls, Decide(c) PROVE TypeOK'
    <3>1. task[c] \in Screened
      BY <2>5, TaskFields DEF Decide
    <3>2. task'[c] \in Decided
      BY <2>5, <3>1, AnswerTypes DEF Decide, Screened, Decided, TypeOK
    <3>3. task' = [task EXCEPT ![c] = task'[c]]
      BY <2>5 DEF Decide, TypeOK
    <3>4. task' \in [Calls -> {Idle} \cup Sent \cup Screened \cup Decided]
      BY <3>2, <3>3 DEF TypeOK
    <3> QED BY <2>5, <3>4 DEF Decide, TypeOK, history
  <2>6. ASSUME NEW c \in Calls, Spend(c) \/ Execute(c) PROVE TypeOK'
    <3>1. task[c] \in Decided
      BY <2>6, TaskFields DEF Spend, Execute, HasVerdict
    <3>2. task'[c] \in Decided
      BY <2>6, <3>1 DEF Spend, Execute, Decided, TypeOK
    <3>3. task' = [task EXCEPT ![c] = task'[c]]
      BY <2>6 DEF Spend, Execute, TypeOK
    <3>4. task' \in [Calls -> {Idle} \cup Sent \cup Screened \cup Decided]
      BY <3>2, <3>3 DEF TypeOK
    <3> QED BY <2>6, <3>4 DEF Spend, Execute, TypeOK, history
  <2>7. ASSUME NEW c \in Calls, Abandon(c) PROVE TypeOK'
    BY <2>7 DEF Abandon, TypeOK, history
  <2>8. CASE Tick
    BY <2>8 DEF Tick, TypeOK, history
  <2>9. CASE UNCHANGED vars
    BY <2>9 DEF vars, TypeOK, history
  <2> QED BY <2>1, <2>2, <2>3, <2>4, <2>5, <2>6, <2>7, <2>8, <2>9
          DEF Next, mintDelegationGrant, SignElsewhere
<1> QED BY <1>1, <1>2, PTL DEF Spec

(* The state is well-typed: the theorem about the type invariant. *)
THEOREM TypeCorrect == Spec => []TypeOK
BY Typing

---------------------------------------------------------------------------
(* The inductive invariant.                                                *)

\* What was signed was signed by a key of a principal, by a clock about right.
Genuine(g) == g.by \in Keys /\ g.kid = KeyId[g.by] /\ g.iat - g.born \in Drifts

\* A token a call carries was signed as it stands, or by no key.
Carried(t) ==
  t # Idle /\ t.request.grant # NoGrant /\ t.request.grant.by \in Keys => t.request.grant \in signed

\* A verdict is what the kernel says of the request and the deployment it began under.
Judged(t) ==
  t.phase \in {"spending", "answered", "executed"} =>
    /\ t.grant = verifyDelegationGrant(t.request, Registry(t.env), t.at)
    /\ t.decision = verifyAction(t.request, t.failed, t.env.mode, t.grant, t.trusted)

\* An action ran on a verified grant, in time, before it expired by a clock about right.
Ran(t) ==
  t.phase = "executed" =>
    /\ t.grant = "ok"
    /\ t.timed => t.run <= t.sent + Patience
    /\ t.request.grant.exp > t.run - MaxDrift

\* A key the call's deployment held is in force, or was so since the call was sent.
Remembered(t) ==
  t.phase \in {"screened", "spending", "answered", "executed"} =>
    \A k \in InService(t.env) : k \in InService(env) \/ t.sent <= retired[k]

CallOK(t) ==
  /\ t # Idle => t.sent <= now
  /\ Carried(t) /\ Judged(t) /\ Ran(t) /\ Remembered(t)

IInv ==
  /\ TypeOK
  /\ \A g \in signed : Genuine(g)
  /\ \A c \in Calls : CallOK(task[c])

(* A verified grant was signed by a registered key of its issuer, is in force and *)
(* is about this request.                                                        *)
LEMMA VerifiedGrant ==
  ASSUME NEW request, NEW registry, NEW t,
         verifyDelegationGrant(request, registry, t) = "ok"
  PROVE  /\ request.grant # NoGrant
         /\ request.grant.by \in registry[request.grant.iss]
         /\ KeyId[request.grant.by] = request.grant.kid
         /\ InForce(request.grant, t)
         /\ Bound(request.grant, request)
BY DEF verifyDelegationGrant, SignatureVerifies

(* Every registered key is its principal's, and in service. *)
LEMMA RegisteredKeys ==
  ASSUME NEW e \in Environments, NEW p \in DOMAIN e.source, NEW k \in Registry(e)[p]
  PROVE  /\ k \in Keys /\ KeyOwner[k] = p /\ k \in InService(e)
         /\ KeysUnique(e.source) /\ k \in e.source[p]
<1>1. KeysUnique(e.source) /\ k \in e.source[p]
  BY DEF Registry, parsePrincipalKeyRegistry
<1>2. k \in Keys /\ KeyOwner[k] = p
  BY <1>1, DelegationAssumption
<1>3. k \in InService(e)
  BY DEF InService
<1> QED BY <1>1, <1>2, <1>3

(* A task stays as it should while only the clock moves on and more is signed. *)
LEMMA TaskKeeps ==
  ASSUME NEW c \in Calls, TypeOK, CallOK(task[c]), task'[c] = task[c],
         signed \subseteq signed', now' \in Nat, now <= now',
         UNCHANGED <<env, retired>>
  PROVE  CallOK(task[c])'
<1>1. task[c] # Idle => task[c].sent \in Nat
  BY TaskFields DEF Sent, Screened, Decided
<1>2. (task[c] # Idle => task[c].sent <= now)'
  BY <1>1 DEF CallOK, TypeOK
<1>3. Carried(task[c])'
  BY DEF CallOK, Carried
<1>4. Judged(task[c])'
  BY DEF CallOK, Judged
<1>5. Ran(task[c])'
  BY DEF CallOK, Ran
<1>6. Remembered(task[c])'
  BY DEF CallOK, Remembered
<1> QED BY <1>2, <1>3, <1>4, <1>5, <1>6 DEF CallOK

(* When one call moves and nothing else does, only that call is in question. *)
LEMMA OneCallMoves ==
  ASSUME IInv, TypeOK', NEW c \in Calls, UNCHANGED <<now, env, signed, history>>,
         \E t : task' = [task EXCEPT ![c] = t],
         CallOK(task[c])'
  PROVE  IInv'
<1>1. ASSUME NEW b \in Calls, b # c
      PROVE  CallOK(task[b])'
  <2>1. task'[b] = task[b]
    BY <1>1 DEF IInv, TypeOK
  <2>2. /\ TypeOK /\ CallOK(task[b]) /\ signed \subseteq signed' /\ now' \in Nat /\ now <= now'
        /\ UNCHANGED <<env, retired>>
    BY DEF IInv, TypeOK, history
  <2> QED BY <2>1, <2>2, TaskKeeps
<1>2. \A g \in signed' : Genuine(g)'
  BY DEF IInv, Genuine
<1> QED BY <1>1, <1>2 DEF IInv

THEOREM Inductive == Spec => []IInv
<1>1. Init => IInv
  <2> SUFFICES ASSUME Init PROVE IInv
    OBVIOUS
  <2>1. TypeOK
    BY DelegationAssumption DEF Init, TypeOK, Idle
  <2>2. \A c \in Calls : CallOK(task[c])
    BY DEF Init, CallOK, Idle, Carried, Judged, Ran, Remembered
  <2> QED BY <2>1, <2>2 DEF IInv, Init
<1>2. IInv /\ TypeOK' /\ [Next]_vars => IInv'
  <2> SUFFICES ASSUME IInv, TypeOK', [Next]_vars PROVE IInv'
    OBVIOUS
  <2> USE DEF history
  <2>0. TypeOK /\ now \in Nat /\ now' \in Nat
    BY DEF IInv, TypeOK
  <2>1. ASSUME NEW d \in Delegations, SignGrant(d) PROVE IInv'
    <3>1. PICK g \in Grants :
            /\ signed' = signed \cup {g}
            /\ g.by \in Keys /\ g.kid = KeyId[g.by]
            /\ g.born = now /\ g.iat - now \in Drifts
      BY <2>0, <2>1, SigningMakesGrants
    <3>2. \A f \in signed' : Genuine(f)'
      BY <3>1 DEF Genuine, IInv
    <3>3. ASSUME NEW c \in Calls PROVE CallOK(task[c])'
      BY <2>0, <2>1, <3>1, TaskKeeps DEF SignGrant, IInv
    <3> QED BY <3>2, <3>3 DEF IInv
  <2>2. ASSUME NEW e \in Environments, Redeploy(e) PROVE IInv'
    <3>1. ASSUME NEW c \in Calls PROVE CallOK(task[c])'
      <4>1. /\ (task[c] # Idle => task[c].sent <= now)'
            /\ Carried(task[c])' /\ Judged(task[c])' /\ Ran(task[c])'
        BY <2>2 DEF Redeploy, IInv, CallOK, Carried, Judged, Ran
      <4>2. ASSUME task[c].phase \in {"screened", "spending", "answered", "executed"},
                   NEW k \in InService(task[c].env)
            PROVE  k \in InService(env') \/ task[c].sent <= retired'[k]
        <5>1. task[c] \in Screened \/ task[c] \in Decided
          BY <2>0, <4>2, TaskFields DEF HasVerdict
        <5>2. k \in Keys
          <6>1. task[c].env \in Environments
            BY <5>1 DEF Screened, Decided
          <6>2. PICK p \in DOMAIN task[c].env.source : k \in Registry(task[c].env)[p]
            BY <4>2 DEF InService
          <6> QED BY <6>1, <6>2, RegisteredKeys
        <5>3. retired'[k] = IF k \in InService(env) THEN now ELSE retired[k]
          BY <2>2, <5>2 DEF Redeploy
        <5>4. task[c] # Idle
          BY <4>2 DEF Idle
        <5> QED BY <4>2, <5>3, <5>4 DEF IInv, CallOK, Remembered
      <4>3. Remembered(task[c])'
        BY <2>2, <4>2 DEF Remembered, Redeploy
      <4> QED BY <4>1, <4>3 DEF CallOK
    <3>2. \A f \in signed' : Genuine(f)'
      BY <2>2 DEF Redeploy, Genuine, IInv
    <3> QED BY <3>1, <3>2 DEF IInv
  <2>3. ASSUME NEW c \in Calls, Send(c) PROVE IInv'
    <3>1. PICK i \in Intents, g \in Presentable \cup {NoGrant}, trusted, timed \in BOOLEAN :
            task' = [task EXCEPT ![c] = [phase |-> "sent", request |-> WithGrant(i, g),
                                         trusted |-> trusted, timed |-> timed, sent |-> now]]
      BY <2>3 DEF Send
    <3>2. g \in signed \/ g = NoGrant \/ g.by = NoKey
      <4>1. ASSUME NEW f \in signed, NEW a \in Authorities
            PROVE  Altered(f, a).by = NoKey
        BY <2>0 DEF Altered, TypeOK, Grants
      <4> QED BY <4>1 DEF Presentable
    <3>3. task'[c] = [phase |-> "sent", request |-> WithGrant(i, g), trusted |-> trusted, timed |-> timed, sent |-> now]
      BY <2>0, <3>1 DEF TypeOK
    <3>4. task'[c].request.grant = g /\ task'[c].sent = now /\ task'[c].phase = "sent"
      BY <3>3 DEF WithGrant
    <3>5. CallOK(task[c])'
      BY <2>0, <2>3, <3>2, <3>4, KernelAssumption
         DEF Send, CallOK, Carried, Judged, Ran, Remembered
    <3> QED BY <2>3, <3>1, <3>5, OneCallMoves DEF Send
  <2>4. ASSUME NEW c \in Calls, Screen(c) PROVE IInv'
    <3>1. task[c] \in Sent /\ task[c] # Idle
      BY <2>0, <2>4, TaskFields DEF Screen, Idle
    <3>2. /\ task'[c].phase = "screened" /\ task'[c].request = task[c].request
          /\ task'[c].sent = task[c].sent /\ task'[c].env = env
      BY <2>0, <2>4 DEF Screen, TypeOK
    <3>3. CallOK(task[c])'
      BY <2>0, <2>4, <3>1, <3>2 DEF Screen, IInv, CallOK, Carried, Judged, Ran, Remembered
    <3>4. \E t : task' = [task EXCEPT ![c] = t]
      BY <2>4 DEF Screen
    <3> QED BY <2>4, <3>3, <3>4, OneCallMoves DEF Screen
  <2>5. ASSUME NEW c \in Calls, Decide(c) PROVE IInv'
    <3>1. task[c] \in Screened /\ task[c] # Idle
      BY <2>0, <2>5, TaskFields DEF Decide, Idle
    <3>2. /\ task'[c].phase \in {"spending", "answered"} /\ task'[c].request = task[c].request
          /\ task'[c].sent = task[c].sent /\ task'[c].env = task[c].env
          /\ task'[c].failed = task[c].failed /\ task'[c].trusted = task[c].trusted
          /\ task'[c].at = now
          /\ task'[c].grant = verifyDelegationGrant(task[c].request, Registry(task[c].env), now)
          /\ task'[c].decision = verifyAction(task[c].request, task[c].failed, task[c].env.mode,
                                   verifyDelegationGrant(task[c].request, Registry(task[c].env), now),
                                   task[c].trusted)
      BY <2>0, <2>5 DEF Decide, TypeOK
    <3>3. Judged(task[c])'
      BY <3>2 DEF Judged
    <3>4. /\ (task[c] # Idle => task[c].sent <= now)'
          /\ Carried(task[c])' /\ Ran(task[c])' /\ Remembered(task[c])'
      BY <2>5, <3>1, <3>2 DEF Decide, IInv, CallOK, Carried, Ran, Remembered, Screened
    <3>5. \E t : task' = [task EXCEPT ![c] = t]
      BY <2>5 DEF Decide
    <3> QED BY <2>5, <3>3, <3>4, <3>5, OneCallMoves DEF Decide, CallOK
  <2>6. ASSUME NEW c \in Calls, Spend(c) PROVE IInv'
    <3>1. task[c] \in Decided /\ task[c] # Idle
      BY <2>0, <2>6, TaskFields DEF Spend, Idle, HasVerdict
    <3>2. task' = [task EXCEPT ![c] = [task[c] EXCEPT !.phase = "answered"]]
      BY <2>6 DEF Spend
    <3>3. task'[c] = [task[c] EXCEPT !.phase = "answered"]
      BY <2>0, <3>2 DEF TypeOK
    <3>4. CallOK(task[c])'
      BY <2>6, <3>1, <3>3 DEF Spend, Decided, IInv, CallOK, Carried, Judged, Ran, Remembered
    <3> QED BY <2>6, <3>2, <3>4, OneCallMoves DEF Spend
  <2>7. ASSUME NEW c \in Calls, Execute(c) PROVE IInv'
    <3>1. task[c] \in Decided /\ task[c] # Idle
      BY <2>0, <2>7, TaskFields DEF Execute, Idle, HasVerdict
    <3>2. task'[c] = [task[c] EXCEPT !.phase = "executed", !.run = now]
      BY <2>0, <2>7 DEF Execute, TypeOK
    <3>3. /\ task'[c].phase = "executed" /\ task'[c].run = now
          /\ task'[c].request = task[c].request /\ task'[c].sent = task[c].sent
          /\ task'[c].env = task[c].env /\ task'[c].grant = task[c].grant
          /\ task'[c].failed = task[c].failed /\ task'[c].trusted = task[c].trusted
          /\ task'[c].timed = task[c].timed
          /\ task'[c].at = task[c].at /\ task'[c].decision = task[c].decision
      BY <3>1, <3>2 DEF Decided
    <3>4. PICK drift \in Drifts : ProvesDelegation(task[c], now + drift)
      BY <2>7 DEF Execute
    <3>5. task[c].grant = "ok" /\ task[c].request.grant.exp > now + drift
      BY <3>4 DEF ProvesDelegation, resolveProvenance
    <3>6. task[c].request.grant.exp \in Int
      <4>1. task[c].request.grant # NoGrant
        BY <2>7, <3>5, VerifiedGrant DEF Execute, IInv, CallOK, Judged
      <4> QED BY <3>1, <4>1 DEF Decided, Requests, Grants
    <3>7. task[c].request.grant.exp > now - MaxDrift
      BY <2>0, <3>5, <3>6, DelegationAssumption DEF Drifts
    <3>8. Ran(task[c])'
      BY <2>7, <3>3, <3>5, <3>7 DEF Ran, Execute, InTime
    <3>9. /\ (task[c] # Idle => task[c].sent <= now)'
          /\ Carried(task[c])' /\ Judged(task[c])' /\ Remembered(task[c])'
      <4> USE <2>7, <3>1, <3>3 DEF Execute, IInv, CallOK
      <4>1. task[c].phase = "answered"
        OBVIOUS
      <4>2. (task[c] # Idle => task[c].sent <= now)'
        OBVIOUS
      <4>3. Carried(task[c])'
        BY DEF Carried
      <4>4. Judged(task[c])'
        BY <4>1 DEF Judged
      <4>5. Remembered(task[c])'
        BY <4>1 DEF Remembered
      <4> QED BY <4>2, <4>3, <4>4, <4>5
    <3>10. \E t : task' = [task EXCEPT ![c] = t]
      BY <2>7 DEF Execute
    <3> QED BY <2>7, <3>8, <3>9, <3>10, OneCallMoves DEF Execute, CallOK
  <2>8. ASSUME NEW c \in Calls, Abandon(c) PROVE IInv'
    <3>1. task'[c] = Idle
      BY <2>0, <2>8 DEF Abandon, TypeOK
    <3>2. CallOK(task[c])'
      BY <3>1 DEF CallOK, Carried, Judged, Ran, Remembered, Idle
    <3> QED BY <2>8, <3>2, OneCallMoves DEF Abandon
  <2>9. CASE Tick
    <3>1. ASSUME NEW c \in Calls PROVE CallOK(task[c])'
      BY <2>0, <2>9, TaskKeeps DEF Tick, IInv
    <3> QED BY <2>9, <3>1 DEF Tick, IInv, Genuine
  <2>10. CASE UNCHANGED vars
    <3>1. ASSUME NEW c \in Calls PROVE CallOK(task[c])'
      BY <2>0, <2>10, TaskKeeps DEF vars, IInv
    <3> QED BY <2>10, <3>1 DEF vars, IInv, Genuine
  <2> QED BY <2>1, <2>2, <2>3, <2>4, <2>5, <2>6, <2>7, <2>8, <2>9, <2>10
          DEF Next, mintDelegationGrant, SignElsewhere
<1> QED BY <1>1, <1>2, Typing, PTL DEF Spec

---------------------------------------------------------------------------
(* The safety properties.                                                  *)

(* A verdict's parts are of their types, and a verified grant was signed. *)
LEMMA VerdictFacts ==
  ASSUME IInv, NEW c \in Calls, HasVerdict(c)
  PROVE  /\ task[c] \in Decided
         /\ task[c].grant = verifyDelegationGrant(task[c].request, Registry(task[c].env), task[c].at)
         /\ task[c].decision = verifyAction(task[c].request, task[c].failed, task[c].env.mode,
                                            task[c].grant, task[c].trusted)
         /\ task[c].grant = "ok" =>
              LET g == task[c].request.grant IN
              /\ g # NoGrant /\ g \in signed /\ g \in Grants /\ Genuine(g)
              /\ KeyOwner[g.by] = g.iss /\ g.by \in InService(task[c].env)
              /\ InForce(g, task[c].at) /\ Bound(g, task[c].request)
<1> DEFINE g == task[c].request.grant
<1>1. TypeOK /\ CallOK(task[c]) /\ \A f \in signed : Genuine(f)
  BY DEF IInv
<1>2. task[c] \in Decided /\ task[c] # Idle
  BY <1>1, TaskFields DEF HasVerdict, Idle
<1>3. /\ task[c].grant = verifyDelegationGrant(task[c].request, Registry(task[c].env), task[c].at)
      /\ task[c].decision = verifyAction(task[c].request, task[c].failed, task[c].env.mode,
                                         task[c].grant, task[c].trusted)
  BY <1>1 DEF CallOK, Judged, HasVerdict
<1>4. ASSUME task[c].grant = "ok"
      PROVE  /\ g # NoGrant /\ g \in signed /\ g \in Grants /\ Genuine(g)
             /\ KeyOwner[g.by] = g.iss /\ g.by \in InService(task[c].env)
             /\ InForce(g, task[c].at) /\ Bound(g, task[c].request)
  <2>1. /\ g # NoGrant /\ g.by \in Registry(task[c].env)[g.iss]
        /\ InForce(g, task[c].at) /\ Bound(g, task[c].request)
    <3>1. verifyDelegationGrant(task[c].request, Registry(task[c].env), task[c].at) = "ok"
      BY <1>3, <1>4
    <3> QED BY <3>1, VerifiedGrant, Zenon
  <2>2. g \in Grants /\ task[c].env \in Environments
    BY <1>2, <2>1 DEF Decided, Requests
  <2>3. g.iss \in DOMAIN task[c].env.source
    BY <2>2, DelegationAssumption DEF Grants
  <2>4. g.by \in Keys /\ KeyOwner[g.by] = g.iss /\ g.by \in InService(task[c].env)
    BY <2>1, <2>2, <2>3, RegisteredKeys
  <2>5. g \in signed
    BY <1>1, <1>2, <2>1, <2>4 DEF CallOK, Carried
  <2> QED BY <1>1, <2>1, <2>2, <2>4, <2>5
<1> QED BY <1>2, <1>3, <1>4

(* An ALLOW rests on authority the principal signed, and the action is within it. *)
THEOREM AllowedActionsAreDelegated == Spec => []AllowIsDelegated
<1>1. IInv => AllowIsDelegated
  <2> SUFFICES ASSUME IInv, NEW c \in Calls, Allowed(c)
      PROVE  LET t == task[c] IN
             /\ t.trusted /\ t.failed = {} /\ t.env.mode # "invalid"
             /\ Permits(t.request.authority, t.request.action)
             /\ t.env.mode = "required" \/ t.request.grant # NoGrant => Vouched(t)
    BY DEF AllowIsDelegated
  <2> DEFINE t == task[c]
  <2>1. t \in Decided /\ t.decision = "ALLOW"
    BY VerdictFacts DEF Allowed
  <2>2. /\ t.request.action.amount \in Int /\ t.request.authority.max \in Nat \cup {NoLimit}
        /\ t.request.action.reversible \in BOOLEAN /\ t.request.authority.reversibleOnly \in BOOLEAN
        /\ t.trusted \in BOOLEAN
    <3>1. t.request \in Requests /\ t.trusted \in BOOLEAN
      BY <2>1 DEF Decided
    <3> QED BY <3>1, DelegationAssumption DEF Requests, Limited
  <2>3. verifyAction(t.request, t.failed, t.env.mode, t.grant, t.trusted) = "ALLOW"
    BY <2>1, VerdictFacts DEF Allowed
  <2>4. /\ Permits(t.request.authority, t.request.action)
        /\ t.trusted /\ t.failed = {} /\ t.env.mode # "invalid"
        /\ t.env.mode = "required" => t.grant = "ok"
        /\ t.grant # "failed"
    BY <2>2, <2>3, AllowPermits
  <2>5. t.request.grant # NoGrant => t.grant = "ok"
    BY <2>4, VerdictFacts DEF Allowed, verifyDelegationGrant
  <2>6. t.grant = "ok" => Vouched(t)
    BY VerdictFacts DEF Allowed, Vouched, Bound
  <2> QED BY <2>4, <2>5, <2>6
<1> QED BY <1>1, Inductive, PTL

(* No grant outlives its lifetime, the tolerance and the clocks' drifts. *)
THEOREM GrantsAlwaysExpire == Spec => []GrantsExpire
<1>1. IInv => GrantsExpire
  <2> SUFFICES ASSUME IInv, NEW c \in Calls, HasVerdict(c), task[c].grant = "ok"
      PROVE  LET t == task[c]
                 g == t.request.grant
                 life == g.exp - g.iat IN
             /\ life \in 1 .. MaxLifetime
             /\ t.at < g.born + life + MaxDrift + Skew
             /\ t.at + MaxDrift + Skew >= g.born + (g.nbf - g.iat)
             /\ t.phase = "executed" => t.run < g.born + life + 2 * MaxDrift
    BY DEF GrantsExpire
  <2> DEFINE t == task[c]
             g == t.request.grant
  <2>1. g \in Grants /\ Genuine(g) /\ InForce(g, t.at) /\ t \in Decided
    BY VerdictFacts
  <2>2. /\ g.iat \in Int /\ g.nbf \in Int /\ g.exp \in Int /\ g.born \in Nat
        /\ t.at \in Nat /\ t.run \in Nat
    BY <2>1 DEF Grants, Decided
  <2>3. /\ g.iat - g.born <= MaxDrift /\ g.born - g.iat <= MaxDrift
    BY <2>1, <2>2, DelegationAssumption DEF Genuine, Drifts
  <2>4. /\ g.iat < g.exp /\ g.exp - g.iat <= MaxLifetime
        /\ t.at + Skew >= g.nbf /\ t.at - Skew < g.exp
    BY <2>1 DEF InForce
  <2>5. t.phase = "executed" => g.exp > t.run - MaxDrift
    BY DEF IInv, CallOK, Ran
  <2> HIDE DEF t, g
  <2>6. /\ g.exp - g.iat \in 1 .. MaxLifetime
        /\ t.at < g.born + (g.exp - g.iat) + MaxDrift + Skew
        /\ t.at + MaxDrift + Skew >= g.born + (g.nbf - g.iat)
        /\ t.phase = "executed" => t.run < g.born + (g.exp - g.iat) + 2 * MaxDrift
    BY <2>2, <2>3, <2>4, <2>5, DelegationAssumption, KernelAssumption, SMTT(30)
  <2> QED BY <2>6 DEF t, g
<1> QED BY <1>1, Inductive, PTL

(* A current grant made by the tool under a registered key is honoured. *)
THEOREM GenuineGrantsAreHonoured == Spec => []GenuineGrantsHonoured
<1>1. IInv => GenuineGrantsHonoured
  <2> SUFFICES ASSUME IInv, MaxDrift <= Skew, NEW c \in Calls, HasVerdict(c),
                      task[c].request.grant \in signed,
                      task[c].request.grant.exp - task[c].request.grant.iat \in 1 .. MaxLifetime,
                      KeysUnique(task[c].env.source),
                      task[c].request.grant.by \in task[c].env.source[task[c].request.grant.iss],
                      Bound(task[c].request.grant, task[c].request),
                      task[c].request.grant.born
                        + (task[c].request.grant.nbf - task[c].request.grant.iat) <= task[c].at,
                      task[c].at < task[c].request.grant.born
                        + (task[c].request.grant.exp - task[c].request.grant.iat)
      PROVE  task[c].grant = "ok"
    BY Zenon DEF GenuineGrantsHonoured
  <2> DEFINE t == task[c]
             g == t.request.grant
  <2>1. /\ g \in Grants /\ Genuine(g) /\ g # NoGrant /\ t \in Decided
    BY VerdictFacts, NoGrantAssumption, SMTT(30) DEF IInv, TypeOK
  <2>2. /\ g.iat \in Int /\ g.nbf \in Int /\ g.exp \in Int /\ g.born \in Nat /\ t.at \in Nat
    BY <2>1 DEF Grants, Decided
  <2>3. g.iat - g.born <= MaxDrift /\ g.born - g.iat <= MaxDrift
    BY <2>1, <2>2, DelegationAssumption DEF Genuine, Drifts
  <2>4. InForce(g, t.at)
    <3> HIDE DEF t, g
    <3>1. /\ g.exp - g.iat \in 1 .. MaxLifetime
          /\ g.born + (g.nbf - g.iat) <= t.at /\ t.at < g.born + (g.exp - g.iat)
      BY SMTT(30) DEF t, g
    <3> QED BY <2>2, <2>3, <3>1, DelegationAssumption, KernelAssumption DEF InForce
  <2>5. SignatureVerifies(g, Registry(t.env))
    BY <2>1 DEF SignatureVerifies, Registry, parsePrincipalKeyRegistry, Genuine
  <2>6. AudienceMatches(g)
    BY DEF AudienceMatches, ExpectedAudience
  <2>7. task[c].grant = verifyDelegationGrant(t.request, Registry(t.env), t.at)
    BY VerdictFacts
  <2>8. g # NoGrant /\ Bound(g, t.request)
    BY <2>1
  <2>9. verifyDelegationGrant(t.request, Registry(t.env), t.at) = "ok"
    BY <2>4, <2>5, <2>6, <2>8 DEF verifyDelegationGrant
  <2> QED BY <2>7, <2>9
<1> QED BY <1>1, Inductive, PTL

(* A guard with a timeout runs nothing on a retired key's grant once that has *)
(* passed since; one without runs nothing on it after the grant's expiry.      *)
THEOREM RetiredKeysAlwaysStop == Spec => []RetiredKeysStop
<1>1. IInv => RetiredKeysStop
  <2> SUFFICES ASSUME IInv, NEW c \in Calls, task[c].phase = "executed",
                      task[c].request.grant.by \notin InService(env)
      PROVE  \/ task[c].timed /\ task[c].run <= retired[task[c].request.grant.by] + Patience
             \/ ~task[c].timed /\ task[c].run < task[c].request.grant.exp + MaxDrift
    BY DEF RetiredKeysStop
  <2>1. /\ HasVerdict(c) /\ task[c].grant = "ok"
        /\ task[c].timed => task[c].run <= task[c].sent + Patience
        /\ task[c].request.grant.exp > task[c].run - MaxDrift
    BY DEF HasVerdict, IInv, CallOK, Ran
  <2>2. task[c].sent <= retired[task[c].request.grant.by]
    BY <2>1, VerdictFacts DEF IInv, CallOK, Remembered
  <2>3. /\ task[c] \in Decided /\ task[c].request.grant.by \in Keys
        /\ task[c].request.grant \in Grants
    BY <2>1, VerdictFacts DEF Genuine
  <2>4. /\ task[c].run \in Nat /\ task[c].sent \in Nat /\ task[c].timed \in BOOLEAN
        /\ retired[task[c].request.grant.by] \in Nat /\ task[c].request.grant.exp \in Int
    BY <2>3 DEF Decided, Grants, IInv, TypeOK
  <2>5. CASE task[c].timed
    BY <2>1, <2>2, <2>4, <2>5, DelegationAssumption
  <2>6. CASE ~task[c].timed
    BY <2>1, <2>4, <2>6, DelegationAssumption
  <2> QED BY <2>5, <2>6
<1> QED BY <1>1, Inductive, PTL

(* Widening an authority never makes the kernel stricter. *)
THEOREM AllowIsAlwaysMonotone == Spec => []AllowIsMonotone
<1>1. IInv => AllowIsMonotone
  <2> SUFFICES ASSUME IInv, NEW c \in Calls, Allowed(c), NEW a \in Authorities,
                      AsWide(a, task[c].request.authority)
      PROVE  verifyAction([task[c].request EXCEPT !.authority = a], task[c].failed,
                          task[c].env.mode, task[c].grant, task[c].trusted) = "ALLOW"
    BY DEF AllowIsMonotone
  <2>1. /\ task[c] \in Decided
        /\ verifyAction(task[c].request, task[c].failed, task[c].env.mode, task[c].grant,
                        task[c].trusted) = "ALLOW"
    BY VerdictFacts DEF Allowed
  <2>2. task[c].request \in Requests /\ task[c].trusted \in BOOLEAN
    BY <2>1 DEF Decided
  <2> QED BY <2>1, <2>2, WiderAllows
<1> QED BY <1>1, Inductive, PTL
=============================================================================
