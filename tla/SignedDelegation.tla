-------------------------- MODULE SignedDelegation --------------------------
(***************************************************************************)
(* Signed delegation end to end: a principal signs a grant for an agent,   *)
(* the operator registers and rotates the principals' keys, an integration *)
(* sends the intended action with the grant, Vizier decides it, and the    *)
(* integration's guard lets the action run only on a signed, current       *)
(* ALLOW (core/grants.ts, core/verify.ts, transport/http.ts, the SDK's     *)
(* authorize and the MCP proxy).                                           *)
(*                                                                         *)
(* Three clocks take part: the service's is now; those of the principals'  *)
(* signers and of the guards are at most MaxDrift away from it.            *)
(***************************************************************************)
EXTENDS VerificationKernel, FiniteSets

CONSTANTS
  KeyOwner,     \* the principal who holds a key
  Calls,        \* calls an integration can have in flight at once
  Delegations,  \* what a principal may sign: key, claims, lifetime and delay
  Intents,      \* what an integration may ask: principal, agent, action, authority
  Authorities,  \* authorities that may travel beside a grant they differ from
  Environments, \* what the operator deploys: registered keys and grant mode
  Screens,      \* sets of screens that can object to a request
  Deployment,   \* the audience that names this deployment
  MaxDrift,     \* how far the principals' and guards' clocks are off
  Patience,     \* the timeout of a guard that has one
  MaxGrants,    \* bound: how many grants are signed
  MaxDeploys,   \* bound: how often the operator redeploys
  LastSigning,  \* bound: no grant is signed after this time
  LastCall,     \* bound: no call begins after this time
  MaxTime       \* bound: the clock stops here

Modes == {"optional", "required", "invalid"}
Limited(authority) ==
  /\ authority.max \in Nat \cup {NoLimit}
  /\ authority.reversibleOnly \in BOOLEAN

ASSUME DelegationAssumption ==
  /\ MaxDrift \in Nat
  /\ Patience \in Nat
  /\ MaxGrants \in Nat
  /\ MaxDeploys \in Nat
  /\ LastSigning \in Nat
  /\ LastCall \in Nat
  /\ MaxTime \in Nat
  /\ \A d \in Delegations : d.key \in Keys /\ d.life \in Int /\ d.delay \in Nat
  /\ \A e \in Environments :
       /\ e.mode \in Modes
       /\ \A p \in DOMAIN e.source : \A k \in e.source[p] : k \in Keys /\ KeyOwner[k] = p
  /\ \A d \in Delegations, e \in Environments : d.iss \in DOMAIN e.source
  /\ \A i \in Intents : /\ i.action.amount \in Int /\ i.action.reversible \in BOOLEAN
                         /\ Limited(i.authority)
  /\ \A a \in Authorities : Limited(a)

VARIABLES
  now,     \* the service's clock
  env,     \* the deployment in force
  signed,  \* the grants the principals have signed
  task,    \* how far each call is
  retired, \* history: when a key was last taken out of force
  deploys  \* history: how often the operator has redeployed

history == <<retired, deploys>>
vars == <<now, env, signed, task, history>>

Drifts == -MaxDrift .. MaxDrift

\* born is the service's time at the signing.
Grants == [iss : {d.iss : d \in Delegations}, sub : {d.sub : d \in Delegations},
           aud : {d.aud : d \in Delegations},
           kid : {KeyId[k] : k \in Keys}, by : Keys \cup {NoKey},
           authority : {d.authority : d \in Delegations} \cup Authorities,
           iat : Int, nbf : Int, exp : Int, born : Nat]

ASSUME NoGrantAssumption == NoGrant \notin Grants

\* A request: an intent with the grant that travels beside it.
WithGrant(intent, g) ==
  [principal |-> intent.principal, agent |-> intent.agent, action |-> intent.action,
   authority |-> intent.authority, grant |-> g]
Requests == [principal : {i.principal : i \in Intents}, agent : {i.agent : i \in Intents},
             action : {i.action : i \in Intents}, authority : {i.authority : i \in Intents},
             grant : Grants \cup {NoGrant}]

Idle == [phase |-> "idle"]
Sent == [phase : {"sent"}, request : Requests, trusted : BOOLEAN, timed : BOOLEAN,
         sent : Nat]
Screened == [phase : {"screened"}, request : Requests, trusted : BOOLEAN, timed : BOOLEAN,
             sent : Nat, env : Environments, failed : Screens]
Decided == [phase : {"spending", "answered", "executed"}, request : Requests, trusted : BOOLEAN,
            timed : BOOLEAN, sent : Nat, env : Environments, failed : Screens,
            at : Nat, grant : {"absent", "ok", "failed"},
            decision : {"ALLOW", "REVIEW", "BLOCK"}, run : Nat]

TypeOK ==
  /\ now \in Nat
  /\ env \in Environments
  /\ signed \subseteq Grants
  /\ task \in [Calls -> {Idle} \cup Sent \cup Screened \cup Decided]
  /\ retired \in [Keys -> Nat]
  /\ deploys \in 0 .. MaxDeploys

Init ==
  /\ now = 1
  /\ env \in Environments
  /\ signed = {}
  /\ task = [c \in Calls |-> Idle]
  /\ retired = [k \in Keys |-> 0]
  /\ deploys = 0

---------------------------------------------------------------------------
(* Helpers.                                                                *)

\* resolvePrincipalKeys
Registry(e) == parsePrincipalKeyRegistry(e.source)
InService(e) == UNION {Registry(e)[p] : p \in DOMAIN e.source}

\* Grants a call can carry: what was signed, and copies whose authority was changed.
Altered(g, authority) == [g EXCEPT !.authority = authority, !.by = NoKey]
Presentable == signed \cup {Altered(g, a) : g \in signed, a \in Authorities}

HasVerdict(c) == task[c].phase \in {"spending", "answered", "executed"}
Allowed(c) == HasVerdict(c) /\ task[c].decision = "ALLOW"

---------------------------------------------------------------------------
(* Principals and the operator.                                            *)

\* A principal signs a grant by the clock of its own machine.
SignGrant(d) ==
  /\ now <= LastSigning
  /\ Cardinality(signed) < MaxGrants
  /\ \E drift \in Drifts :
       signed' = signed \cup
         {[iss |-> d.iss, sub |-> d.sub, aud |-> d.aud, kid |-> KeyId[d.key], by |-> d.key,
           authority |-> d.authority, born |-> now, iat |-> now + drift,
           nbf |-> now + drift + d.delay, exp |-> now + drift + d.life]}
  /\ UNCHANGED <<now, env, task, history>>

\* With the project's tool, which bounds the lifetime.
mintDelegationGrant(d) == d.life \in 1 .. MaxLifetime /\ SignGrant(d)
\* With another tool, which need not.
SignElsewhere(d) == d.life \notin 1 .. MaxLifetime /\ SignGrant(d)

\* The operator deploys other keys or another mode; requests under way keep the old ones.
Redeploy(e) ==
  /\ e # env
  /\ deploys < MaxDeploys
  /\ deploys' = deploys + 1
  /\ env' = e
  /\ retired' = [k \in Keys |-> IF k \in InService(env) THEN now ELSE retired[k]]
  /\ UNCHANGED <<now, signed, task>>

---------------------------------------------------------------------------
(* One call.                                                               *)

\* The integration sends its intended action, with or without a credential.  Its guard is
\* the MCP proxy, which gives up after a while, or the SDK's authorize, which is timed
\* only if its caller passes a signal.
Send(c) ==
  /\ now <= LastCall
  /\ task[c] = Idle
  /\ \E i \in Intents, g \in Presentable \cup {NoGrant}, trusted, timed \in BOOLEAN :
       task' = [task EXCEPT ![c] = [phase |-> "sent", request |-> WithGrant(i, g),
                                    trusted |-> trusted, timed |-> timed, sent |-> now]]
  /\ UNCHANGED <<now, env, signed, history>>

\* The service takes up the request and awaits breaker, sanctions and quorum.
Screen(c) ==
  /\ task[c].phase = "sent"
  /\ \E failed \in Screens :
       task' = [task EXCEPT ![c] =
                  [phase |-> "screened", request |-> task[c].request, trusted |-> task[c].trusted,
                   timed |-> task[c].timed, sent |-> task[c].sent, env |-> env, failed |-> failed]]
  /\ UNCHANGED <<now, env, signed, history>>

\* verifyAction, and what an ALLOW under a quorum still has to do.
Decide(c) ==
  /\ task[c].phase = "screened"
  /\ LET t == task[c]
         grant == verifyDelegationGrant(t.request, Registry(t.env), now)
         decision == verifyAction(t.request, t.failed, t.env.mode, grant, t.trusted) IN
     task' = [task EXCEPT ![c] =
                [phase |-> IF decision = "ALLOW" /\ t.request.authority.quorum
                           THEN "spending" ELSE "answered",
                 request |-> t.request, trusted |-> t.trusted, timed |-> t.timed, sent |-> t.sent,
                 env |-> t.env, failed |-> t.failed,
                 at |-> now, grant |-> grant, decision |-> decision, run |-> 0]]
  /\ UNCHANGED <<now, env, signed, history>>

\* consumeQuorumProposal succeeds, or there are inline approvals and nothing to
\* consume; when it fails the call is refused, see Abandon.
Spend(c) ==
  /\ task[c].phase = "spending"
  /\ task' = [task EXCEPT ![c].phase = "answered"]
  /\ UNCHANGED <<now, env, signed, history>>

\* authorize: ALLOW on a grant of this principal for this agent, not expired here.
ProvesDelegation(t, clock) ==
  /\ t.decision = "ALLOW"
  /\ resolveProvenance(t.grant, t.trusted) = "principal_signed"
  /\ t.request.grant.iss = t.request.principal
  /\ t.request.grant.sub = t.request.agent
  /\ t.request.grant.exp > clock

\* Mutant: no guard has a timeout.
Forever(t) == TRUE
InTime(t) == t.timed => now <= t.sent + Patience

\* The answer reaches the guard before its timeout, if any, and the action is run.
Execute(c) ==
  /\ task[c].phase = "answered"
  /\ InTime(task[c])
  /\ \E drift \in Drifts : ProvesDelegation(task[c], now + drift)
  /\ task' = [task EXCEPT ![c].phase = "executed", ![c].run = now]
  /\ UNCHANGED <<now, env, signed, history>>

\* A refusal, a lost answer, a timeout, or the end of the call.
Abandon(c) ==
  /\ task[c] # Idle
  /\ task' = [task EXCEPT ![c] = Idle]
  /\ UNCHANGED <<now, env, signed, history>>

Tick ==
  /\ now < MaxTime
  /\ now' = now + 1
  /\ UNCHANGED <<env, signed, task, history>>

Next ==
  \/ \E d \in Delegations : mintDelegationGrant(d) \/ SignElsewhere(d)
  \/ \E e \in Environments : Redeploy(e)
  \/ \E c \in Calls : Send(c) \/ Screen(c) \/ Decide(c) \/ Spend(c) \/ Execute(c) \/ Abandon(c)
  \/ Tick

Spec == Init /\ [][Next]_vars

---------------------------------------------------------------------------
(* Properties.                                                             *)

\* What an authority permits, and when one authority permits all that another does.
Permits(authority, action) ==
  /\ action.type \in authority.allowed
  /\ action.type \in SensitiveActions => action.type \in authority.sensitive
  /\ action.target \in authority.targets /\ action.target \notin authority.blocked
  /\ authority.reversibleOnly => action.reversible
  /\ authority.max # NoLimit =>
       /\ 0 <= action.amount /\ action.amount <= authority.max
       /\ authority.currency \in {AnyCurrency, action.currency}

AsWide(a, b) ==
  /\ b.allowed \subseteq a.allowed
  /\ b.sensitive \subseteq a.sensitive
  /\ b.targets \ b.blocked \subseteq a.targets \ a.blocked
  /\ a.reversibleOnly => b.reversibleOnly
  /\ \/ a.max = NoLimit
     \/ b.max # NoLimit /\ b.max <= a.max /\ a.currency \in {AnyCurrency, b.currency}

\* The principal the request names signed this very authority for this agent.
Vouched(t) ==
  LET g == t.request.grant IN
  /\ g \in signed
  /\ g.by \in InService(t.env) /\ KeyOwner[g.by] = t.request.principal
  /\ g.sub = t.request.agent
  /\ g.authority = t.request.authority

\* An ALLOW is given only to a trusted integration, with no screen against it, for
\* an action within the authority; where a grant is carried or required, the named
\* principal signed that authority for that agent (verify.ts, grants.ts: a grant that
\* does not verify never falls back to the caller's word).
AllowIsDelegated ==
  \A c \in Calls : Allowed(c) =>
    LET t == task[c] IN
    /\ t.trusted /\ t.failed = {} /\ t.env.mode # "invalid"
    /\ Permits(t.request.authority, t.request.action)
    /\ t.env.mode = "required" \/ t.request.grant # NoGrant => Vouched(t)

\* By the service's clock no grant is accepted longer after its signing than its
\* lifetime, the tolerance and the signer's drift together, and no action is run under
\* it later than its lifetime and both drifts: the guard grants no tolerance.
GrantsExpire ==
  \A c \in Calls : HasVerdict(c) /\ task[c].grant = "ok" =>
    LET t == task[c]
        g == t.request.grant
        life == g.exp - g.iat IN
    /\ life \in 1 .. MaxLifetime
    /\ t.at < g.born + life + MaxDrift + Skew
    /\ t.at + MaxDrift + Skew >= g.born + (g.nbf - g.iat)
    /\ t.phase = "executed" => t.run < g.born + life + 2 * MaxDrift

\* A grant the tool made is honoured from its start to the end of its lifetime, if
\* its key is registered and its signer's clock is within the tolerance: rotation
\* and drift never turn a current grant away.
GenuineGrantsHonoured ==
  MaxDrift <= Skew =>
    \A c \in Calls :
      LET t == task[c]
          g == t.request.grant IN
      /\ HasVerdict(c) /\ g \in signed /\ g.exp - g.iat \in 1 .. MaxLifetime
      /\ KeysUnique(t.env.source) /\ g.by \in t.env.source[g.iss]
      /\ Bound(g, t.request)
      /\ g.born + (g.nbf - g.iat) <= t.at /\ t.at < g.born + (g.exp - g.iat)
      => t.grant = "ok"

\* Once a key is out of force, a request under way keeps the registry it began with.  A
\* guard with a timeout, as the MCP proxy's, runs no action on a grant that the key signed
\* once that timeout has passed since; for one without, only the grant's expiry ends it.
RetiredKeysStop ==
  \A c \in Calls :
    LET t == task[c] IN
    t.phase = "executed" =>
      \/ t.request.grant.by \in InService(env)
      \/ t.timed /\ t.run <= retired[t.request.grant.by] + Patience
      \/ ~t.timed /\ t.run < t.request.grant.exp + MaxDrift

\* Widening an authority never turns an ALLOW into something stricter, whatever the
\* rules on amount, currency, target, sensitivity and reversibility do together.
AllowIsMonotone ==
  \A c \in Calls : Allowed(c) =>
    LET t == task[c] IN
    \A a \in Authorities : AsWide(a, t.request.authority) =>
      verifyAction([t.request EXCEPT !.authority = a], t.failed, t.env.mode, t.grant, t.trusted)
        = "ALLOW"

\* An action is allowed on a grant addressed to an audience only by that deployment
\* (docs/DELEGATION_GRANTS.md: GRANT_AUDIENCE_MISMATCH when aud is set and is not this
\* deployment).
AddressedHere ==
  \A c \in Calls : Allowed(c) /\ task[c].grant = "ok" =>
    task[c].request.grant.aud \in {NoAudience, Deployment}
=============================================================================
