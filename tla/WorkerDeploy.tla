---------------------------- MODULE WorkerDeploy ----------------------------
(***************************************************************************)
(* The gated deployment of a Worker version                                *)
(* (packages/gated-deploy/src/worker-version.ts, worker-gateway.ts) as a   *)
(* client of the review queue and of the cloud's API.                      *)
(*                                                                         *)
(* Runs execute in gateways, each of which admits one at a time, or        *)
(* directly in an operator's process.  The queue is the abstract           *)
(* ReviewLifecycle, which the queue in detail implements.  Claims and      *)
(* deployment requests travel: one may be lost, or arrive after the run    *)
(* that sent it has given up or died.                                      *)
(***************************************************************************)
EXTENDS ReviewLifecycle

CONSTANTS
  Plans,          \* what an agent may ask to deploy
  InScope,        \* the plans within the operator's fixed scope
  Packet,         \* the plan a review is about
  Runs,           \* calls of the executor
  NoRun,
  Gateways,       \* gateway processes
  Direct,         \* the host of runs outside any gateway
  GrantExpiries,  \* when the operator's grants expire
  VerifyTimeout, ClaimTimeout, PostTimeout,
  MaxTime         \* bound: the clock stops here

ASSUME DeployAssumption ==
  /\ TokenTTL \in Nat /\ Skew \in Nat
  /\ VerifyTimeout \in Nat /\ ClaimTimeout \in Nat /\ PostTimeout \in Nat
  /\ MaxTime \in Nat
  /\ GrantExpiries \subseteq Nat
  /\ InScope \subseteq Plans
  /\ Packet \in [Reviews -> Plans]
  /\ NoRun \notin Runs
  /\ Direct \notin Gateways

VARIABLES
  token,       \* expiry of the attestation issued for a review, 0 before
  winner,      \* the run whose claim consumed a review
  busy,        \* the gateways' in-flight flags
  run,         \* how far each run is
  claims,      \* claims under way to the queue: runs
  posts,       \* deployment requests under way to the cloud
  deployments  \* what the cloud has deployed

queue == <<time, phase, deadline, token>>
vars == <<queue, winner, busy, run, claims, posts, deployments>>

Steps == {"reading", "loading", "verifying", "claiming", "posting", "confirming", "ended", "dead"}

\* Results that say nothing was deployed, and those that say the approval is still there.
ApprovalKept == {"INVALID_REQUEST", "OPERATOR_GRANT_UNAVAILABLE", "PLAN_OUTSIDE_SCOPE_OR_INVALID",
                 "POLICY_OR_SIGNED_AUTHORIZATION"}
NotPerformed == ApprovalKept \cup
                {"AUTHORIZATION_FAILED_RECONCILE_APPROVAL", "GRANT_EXPIRED_BEFORE_EXECUTION"}
Results == NotPerformed \cup {"none", "deployment_created", "reconcile_required", "RECONCILE_REQUIRED"}

Idle == [step |-> "idle"]
Started == [step : Steps, host : Gateways \cup {Direct}, plan : Plans,
            review : Reviews, exp : Nat, since : Nat, result : Results]
Posts == [run : Runs, plan : Plans, exp : Nat, at : Nat]
Deployments == [run : Runs, plan : Plans]

TypeOK ==
  /\ time \in Nat
  /\ phase \in [Reviews -> {"unknown", "waiting", "approved", "refused", "used", "forgotten"}]
  /\ deadline \in [Reviews -> Int]
  /\ token \in [Reviews -> Int]
  /\ winner \in [Reviews -> Runs \cup {NoRun}]
  /\ busy \in [Gateways -> BOOLEAN]
  /\ run \in [Runs -> {Idle} \cup Started]
  /\ claims \subseteq Runs
  /\ posts \subseteq Posts
  /\ deployments \subseteq Deployments

Init ==
  /\ time = 1
  /\ phase = [r \in Reviews |-> "unknown"]
  /\ deadline = [r \in Reviews |-> 0]
  /\ token = [r \in Reviews |-> 0]
  /\ winner = [r \in Reviews |-> NoRun]
  /\ busy = [g \in Gateways |-> FALSE]
  /\ run = [x \in Runs |-> Idle]
  /\ claims = {}
  /\ posts = {}
  /\ deployments = {}

---------------------------------------------------------------------------
(* Helpers.                                                                *)

Clocks == {t \in time - Skew .. time + Skew : t >= 0}
InTime(x, limit) == time <= run[x].since + limit

\* Mutant: an early refusal returns without clearing the flag.
HeldByAfterRefusal(x, result) == [g \in Gateways |->
  busy[g] /\ ~(g = run[x].host /\ result # "OPERATOR_GRANT_UNAVAILABLE")]
\* The flag is cleared on every way out.
HeldAfter(x, result) == [g \in Gateways |-> busy[g] /\ g # run[x].host]

End(x, result) ==
  /\ run' = [run EXCEPT ![x].step = "ended", ![x].result = result,
                        ![x].exp = 0, ![x].since = 0]
  /\ busy' = HeldAfter(x, result)

\* Mutant: any approval of this operator will do.
AttestedAnyPlan(x, clock) == token[run[x].review] > clock
\* claimHumanReview: the attestation is current and about this very plan.
Attested(x, clock) == token[run[x].review] > clock /\ Packet[run[x].review] = run[x].plan

\* Mutant: the expiry read before the claim is trusted after it.
StillDelegatedWhenRead(x, clock) == TRUE
\* The second look at the grant's expiry, once the claim is won.
StillDelegated(x, clock) == run[x].exp > clock

Created(m) == [run |-> m.run, plan |-> m.plan]

\* Mutants: what is lost is reported as if it had not happened.
ClaimLostAsRefused == "POLICY_OR_SIGNED_AUTHORIZATION"
ClaimLost == "AUTHORIZATION_FAILED_RECONCILE_APPROVAL"
AnswerLostAsRefused == "AUTHORIZATION_FAILED_RECONCILE_APPROVAL"
AnswerLost == "reconcile_required"

---------------------------------------------------------------------------
(* The agent and the gateway.                                              *)

\* A busy gateway answers 409 and starts nothing.
Start(x, h) ==
  /\ run[x] = Idle
  /\ h \in Gateways => ~busy[h]
  /\ \E plan \in Plans, r \in Reviews :
       run' = [run EXCEPT ![x] =
                 [step |-> IF h \in Gateways THEN "reading" ELSE "loading", host |-> h,
                  plan |-> plan, review |-> r, exp |-> 0, since |-> 0,
                  result |-> "none"]]
  /\ busy' = [g \in Gateways |-> busy[g] \/ g = h]
  /\ UNCHANGED <<queue, winner, claims, posts, deployments>>

ReadBody(x) ==
  /\ run[x].step = "reading"
  /\ \/ run' = [run EXCEPT ![x].step = "loading"] /\ UNCHANGED busy
     \/ End(x, "INVALID_REQUEST")
     \/ End(x, "RECONCILE_REQUIRED")  \* the connection broke; nothing is said of the outcome
  /\ UNCHANGED <<queue, winner, claims, posts, deployments>>

\* loadGrant, then the executor's snapshot, its scope and the request to verify.  Outside a
\* gateway OPERATOR_GRANT_UNAVAILABLE stands for AUTHORIZATION_REQUIRED and failed reads.
LoadGrant(x) ==
  /\ run[x].step = "loading"
  /\ \/ End(x, "OPERATOR_GRANT_UNAVAILABLE")
     \/ run[x].plan \notin InScope /\ End(x, "PLAN_OUTSIDE_SCOPE_OR_INVALID")
     \/ /\ run[x].plan \in InScope
        /\ \E exp \in GrantExpiries :
             run' = [run EXCEPT ![x].step = "verifying", ![x].exp = exp, ![x].since = time]
        /\ UNCHANGED busy
  /\ UNCHANGED <<queue, winner, claims, posts, deployments>>

---------------------------------------------------------------------------
(* The executor.                                                           *)

Refused(x) ==
  /\ run[x].step = "verifying"
  /\ End(x, "POLICY_OR_SIGNED_AUTHORIZATION")
  /\ UNCHANGED <<queue, winner, claims, posts, deployments>>

\* ALLOW on the operator's grant; the attestation is checked and the claim is sent.
SendClaim(x) ==
  /\ run[x].step = "verifying"
  /\ InTime(x, VerifyTimeout)
  /\ \E clock \in Clocks : run[x].exp > clock /\ Attested(x, clock)
  /\ run' = [run EXCEPT ![x].step = "claiming", ![x].since = time]
  /\ claims' = claims \cup {x}
  /\ UNCHANGED <<queue, winner, busy, posts, deployments>>

\* No verdict, an attestation that does not hold, a claim refused, lost or late.
AuthorizationFails(x) ==
  /\ run[x].step \in {"verifying", "claiming"}
  /\ End(x, ClaimLost)
  /\ UNCHANGED <<queue, winner, claims, posts, deployments>>

\* The claim was won: the grant is looked at again, and the deployment requested.
SendPost(x) ==
  /\ run[x].step = "claiming"
  /\ winner[run[x].review] = x
  /\ InTime(x, ClaimTimeout)
  /\ \E clock \in Clocks :
       \/ /\ StillDelegated(x, clock)
          /\ posts' = posts \cup {[run |-> x, plan |-> run[x].plan, exp |-> run[x].exp, at |-> time]}
          /\ run' = [run EXCEPT ![x].step = "posting", ![x].since = time]
          /\ UNCHANGED busy
       \/ /\ ~StillDelegated(x, clock)
          /\ End(x, "GRANT_EXPIRED_BEFORE_EXECUTION")
          /\ UNCHANGED posts
  /\ UNCHANGED <<queue, winner, claims, deployments>>

\* The cloud's answer confirms the deployment, or only names it.
Acknowledged(x) ==
  /\ run[x].step = "posting"
  /\ InTime(x, PostTimeout)
  /\ \E d \in deployments : d.run = x
  /\ \/ [run |-> x, plan |-> run[x].plan] \in deployments /\ End(x, "deployment_created")
     \/ run' = [run EXCEPT ![x].step = "confirming"] /\ UNCHANGED busy
  /\ UNCHANGED <<queue, winner, claims, posts, deployments>>

\* The history shows the version under the acknowledged id.
Confirmed(x) ==
  /\ run[x].step = "confirming"
  /\ InTime(x, PostTimeout)
  /\ [run |-> x, plan |-> run[x].plan] \in deployments
  /\ End(x, "deployment_created")
  /\ UNCHANGED <<queue, winner, claims, posts, deployments>>

\* An error, another version, no answer in time.
Unconfirmed(x) ==
  /\ run[x].step \in {"posting", "confirming"}
  /\ End(x, AnswerLost)
  /\ UNCHANGED <<queue, winner, claims, posts, deployments>>

\* The process dies with its flag; what it has sent is under way.
Crash(x) ==
  /\ run[x].step \in Steps \ {"ended", "dead"}
  /\ run' = [run EXCEPT ![x].step = "dead", ![x].exp = 0, ![x].since = 0]
  /\ busy' = [g \in Gateways |-> busy[g] /\ g # run[x].host]
  /\ UNCHANGED <<queue, winner, claims, posts, deployments>>

---------------------------------------------------------------------------
(* The queue and the cloud.                                                *)

\* consume: the queue's conditional update picks one claimant.
Consume(x) ==
  /\ x \in claims
  /\ Use(run[x].review)
  /\ winner' = [winner EXCEPT ![run[x].review] = x]
  /\ claims' = claims \ {x}
  /\ UNCHANGED <<token, busy, run, posts, deployments>>

RefuseClaim(x) ==
  /\ x \in claims
  /\ claims' = claims \ {x}
  /\ UNCHANGED <<queue, winner, busy, run, posts, deployments>>

ApproveReview(r) ==
  /\ Approve(r)
  /\ token' = [token EXCEPT ![r] = deadline'[r]]
  /\ UNCHANGED <<winner, busy, run, claims, posts, deployments>>

\* Submission, refusal, retention and time, as the queue promises them.
QueueStep ==
  /\ \/ \E r \in Reviews : Submit(r) \/ Refuse(r)
     \/ Forget
     \/ time < MaxTime /\ Pass
  /\ UNCHANGED <<token, winner, busy, run, claims, posts, deployments>>

CloudDeploys(m) ==
  /\ posts' = posts \ {m}
  /\ deployments' = deployments \cup {Created(m)}
  /\ UNCHANGED <<queue, winner, busy, run, claims>>

CloudDrops(m) ==
  /\ posts' = posts \ {m}
  /\ UNCHANGED <<queue, winner, busy, run, claims, deployments>>

---------------------------------------------------------------------------
RunStep(x) ==
  \/ ReadBody(x) \/ LoadGrant(x) \/ Refused(x) \/ SendClaim(x) \/ AuthorizationFails(x)
  \/ SendPost(x) \/ Acknowledged(x) \/ Confirmed(x) \/ Unconfirmed(x)

Next ==
  \/ \E x \in Runs : RunStep(x) \/ Crash(x) \/ Consume(x) \/ RefuseClaim(x)
  \/ \E x \in Runs, h \in Gateways \cup {Direct} : Start(x, h)
  \/ \E r \in Reviews : ApproveReview(r)
  \/ \E m \in posts : CloudDeploys(m) \/ CloudDrops(m)
  \/ QueueStep

Spec == Init /\ [][Next]_vars

\* Every await of a run ends: the requests by their timeouts, the body by the socket's,
\* the grant because it is read from a file.
FairSpec == Spec /\ \A x \in Runs : WF_vars(RunStep(x))

---------------------------------------------------------------------------
(* Properties.                                                             *)

\* A run that reports "not performed" has no deployment and no request under way, now or
\* later, and one that reports a deployment has it, of the approved plan: a lost answer
\* is never reported as either (worker-version.ts: the cloud may have committed).
ReportsHonest ==
  \A x \in Runs : run[x].step = "ended" =>
    /\ run[x].result \in NotPerformed => \A m \in posts \cup deployments : m.run # x
    /\ run[x].result = "deployment_created" =>
         [run |-> x, plan |-> Packet[run[x].review]] \in deployments

\* A refusal before the claim leaves the approval to another call: the run has neither
\* used it nor a claim under way (tests/worker-version-deploy.test.ts).
RefusalsKeepApproval ==
  \A x \in Runs : run[x].step = "ended" /\ run[x].result \in ApprovalKept =>
    x \notin claims /\ \A r \in Reviews : winner[r] # x

\* A deployment is requested only while the grant is current by the executor's clock,
\* though the claim came between, and no later than a claim can take after the
\* attestation's expiry.
RequestsAreTimely ==
  \A m \in posts :
    /\ m.at < m.exp + Skew
    /\ m.at < token[run[m.run].review] + Skew + ClaimTimeout

\* A gateway that has admitted a run becomes free again, whatever the run meets.
GatewaysFreed == \A g \in Gateways : busy[g] ~> ~busy[g]

\* The executor implements the operator's ledger of approvals: at most one deployment of
\* an approval, over all executors, restarts and replays, and only of what it approved.
L == INSTANCE ApprovedDeployments WITH
       Attempts <- Runs,
       spent <- {r \in Reviews : winner[r] # NoRun},
       ledger <- [r \in Reviews |-> {d \in deployments : run[d.run].review = r}]
Ledger == L!LedgerSpec
=============================================================================
