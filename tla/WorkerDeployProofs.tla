------------------------- MODULE WorkerDeployProofs -------------------------
(***************************************************************************)
(* Theorems of WorkerDeploy: its type invariant, the three safety          *)
(* properties, and that it implements the ledger of approvals              *)
(* (ApprovedDeployments).  All rest on one inductive invariant, IInv.      *)
(***************************************************************************)
EXTENDS WorkerDeploy, TLAPS

\* A run that has not returned has no result.
Unfinished == \A x \in Runs :
  run[x] \in Started /\ run[x].step # "ended" => run[x].result = "none"

\* There is an attestation only for a review that has been approved.
AttestationsFollowApproval == \A r \in Reviews :
  phase[r] \in {"unknown", "waiting"} => token[r] = 0

\* A claim was sent for the plan the review is about, by a run that has not been answered.
ClaimsAreAttested == \A x \in claims :
  /\ run[x] \in Started
  /\ run[x].step \in {"claiming", "ended", "dead"}
  /\ run[x].step = "ended" => run[x].result = ClaimLost
  /\ run[x].plan = Packet[run[x].review]

\* A run waiting for its claim sent it while the attestation was current.
ClaimantsAreCurrent == \A x \in Runs :
  run[x].step = "claiming" =>
    /\ run[x].plan = Packet[run[x].review]
    /\ token[run[x].review] > 0
    /\ run[x].since < token[run[x].review] + Skew

\* The run that used an approval asked for that review and has no further claim.
Won(x, r) ==
  /\ run[x] \in Started
  /\ run[x].review = r
  /\ run[x].plan = Packet[r]
  /\ run[x].step \in {"claiming", "posting", "confirming", "ended", "dead"}
  /\ run[x].result \notin ApprovalKept
  /\ x \notin claims
WinnersClaimed == \A r \in Reviews :
  winner[r] # NoRun => Won(winner[r], r) /\ phase[r] \in {"used", "forgotten"}

\* A run with a request or a deployment used the approval and may have deployed.
Requested(x) ==
  /\ run[x] \in Started
  /\ winner[run[x].review] = x
  /\ run[x].step \in {"posting", "confirming", "ended", "dead"}
  /\ run[x].result \notin NotPerformed
PostsWon == \A m \in posts : Requested(m.run) /\ m.plan = run[m.run].plan
DeploymentsWon == \A d \in deployments : Requested(d.run) /\ d.plan = run[d.run].plan

\* A run has one request or one deployment, never both.
OneRequest ==
  /\ \A m, n \in posts : m.run = n.run => m = n
  /\ \A m \in posts, d \in deployments : m.run # d.run
  /\ \A d, e \in deployments : d.run = e.run => d = e

\* A reported deployment exists.
SuccessIsReal == \A x \in Runs :
  run[x].step = "ended" /\ run[x].result = "deployment_created" =>
    [run |-> x, plan |-> Packet[run[x].review]] \in deployments

IInv ==
  /\ TypeOK
  /\ Unfinished
  /\ AttestationsFollowApproval
  /\ ClaimsAreAttested
  /\ ClaimantsAreCurrent
  /\ WinnersClaimed
  /\ PostsWon
  /\ DeploymentsWon
  /\ OneRequest
  /\ SuccessIsReal
  /\ RequestsAreTimely

---------------------------------------------------------------------------
(* What one step of a run does to the run.                                 *)

Moved(x, step, result) ==
  /\ run[x] \in Started
  /\ run' \in [Runs -> {Idle} \cup Started]
  /\ \A y \in Runs \ {x} : run'[y] = run[y]
  /\ run'[x] \in Started
  /\ run'[x].step = step
  /\ run'[x].result = result
  /\ run'[x].review = run[x].review
  /\ run'[x].plan = run[x].plan

LEMMA StepsAreStarted ==
  ASSUME TypeOK, NEW x \in Runs, run[x].step \in Steps
  PROVE  run[x] \in Started
BY DEF TypeOK, Steps, Idle

LEMMA EndMoves ==
  ASSUME TypeOK, NEW x \in Runs, run[x].step \in Steps, NEW result \in Results, End(x, result)
  PROVE  Moved(x, "ended", result) /\ busy' \in [Gateways -> BOOLEAN]
<1>1. run[x] \in Started
  BY StepsAreStarted
<1>2. run' = [run EXCEPT ![x] = [run[x] EXCEPT !.step = "ended", !.result = result,
                                               !.exp = 0, !.since = 0]]
  BY <1>1 DEF End, TypeOK
<1>3. [run[x] EXCEPT !.step = "ended", !.result = result, !.exp = 0, !.since = 0] \in Started
  BY <1>1 DEF Started, Steps
<1>4. busy' \in [Gateways -> BOOLEAN]
  BY DEF End, HeldAfter, TypeOK
<1> QED
  BY <1>1, <1>2, <1>3, <1>4 DEF Moved, TypeOK, Started

LEMMA Ends ==
  ASSUME IInv, NEW x \in Runs, NEW result \in Results, Moved(x, "ended", result),
         run[x].step \in {"reading", "loading", "verifying", "claiming", "posting", "confirming"},
         UNCHANGED <<queue, winner, claims, posts, deployments>>,
         x \in claims => result = ClaimLost,
         result \in ApprovalKept => run[x].step \notin {"claiming", "posting", "confirming"},
         result \in NotPerformed => run[x].step \notin {"posting", "confirming"},
         result = "deployment_created" => [run |-> x, plan |-> Packet[run[x].review]] \in deployments,
         busy' \in [Gateways -> BOOLEAN]
  PROVE  IInv'
<1> USE DEF queue
<1>1. TypeOK'
  BY DEF IInv, TypeOK, Moved
<1>2. Unfinished' /\ AttestationsFollowApproval' /\ ClaimantsAreCurrent'
  BY DEF IInv, TypeOK, Moved, Unfinished, AttestationsFollowApproval, ClaimantsAreCurrent
<1>3. ClaimsAreAttested'
  BY DEF IInv, TypeOK, Moved, ClaimsAreAttested
<1>4. WinnersClaimed'
  BY DeployAssumption DEF IInv, TypeOK, Moved, WinnersClaimed, Won
<1>5. PostsWon' /\ DeploymentsWon'
  BY DEF IInv, TypeOK, Moved, PostsWon, DeploymentsWon, Requested, Posts, Deployments
<1>6. OneRequest' /\ RequestsAreTimely'
  BY DEF IInv, TypeOK, Moved, PostsWon, OneRequest, RequestsAreTimely, Posts, Requested
<1>7. SuccessIsReal'
  BY DEF IInv, TypeOK, Moved, SuccessIsReal
<1> QED
  BY <1>1, <1>2, <1>3, <1>4, <1>5, <1>6, <1>7 DEF IInv

\* A step that does not return, and does not send.
LEMMA Proceeds ==
  ASSUME IInv, NEW x \in Runs, NEW step \in Steps, Moved(x, step, run[x].result),
         \/ run[x].step \in {"reading", "loading"} /\ step \in {"loading", "verifying"}
         \/ run[x].step = "posting" /\ step = "confirming"
         \/ run[x].step # "ended" /\ step = "dead",
         UNCHANGED <<queue, winner, claims, posts, deployments>>,
         busy' \in [Gateways -> BOOLEAN]
  PROVE  IInv'
<1> USE DEF queue
<1>1. TypeOK'
  BY DEF IInv, TypeOK, Moved
<1>2. Unfinished' /\ AttestationsFollowApproval' /\ ClaimantsAreCurrent'
  BY DEF IInv, TypeOK, Moved, Unfinished, AttestationsFollowApproval, ClaimantsAreCurrent
<1>3. ClaimsAreAttested'
  BY DEF IInv, TypeOK, Moved, ClaimsAreAttested
<1>4. WinnersClaimed'
  BY DeployAssumption DEF IInv, TypeOK, Moved, WinnersClaimed, Won
<1>5. PostsWon' /\ DeploymentsWon'
  BY DEF IInv, TypeOK, Moved, PostsWon, DeploymentsWon, Requested, Posts, Deployments
<1>6. OneRequest' /\ RequestsAreTimely'
  BY DEF IInv, TypeOK, Moved, PostsWon, OneRequest, RequestsAreTimely, Posts, Requested
<1>7. SuccessIsReal'
  BY DEF IInv, TypeOK, Moved, SuccessIsReal
<1> QED
  BY <1>1, <1>2, <1>3, <1>4, <1>5, <1>6, <1>7 DEF IInv

---------------------------------------------------------------------------
(* The actions keep the invariant.                                         *)

LEMMA StartKeeps ==
  ASSUME IInv, NEW x \in Runs, NEW h \in Gateways \cup {Direct}, Start(x, h)
  PROVE  IInv'
<1> USE DEF queue
<1>1. PICK plan \in Plans, r \in Reviews :
        run' = [run EXCEPT ![x] =
                  [step |-> IF h \in Gateways THEN "reading" ELSE "loading", host |-> h,
                   plan |-> plan, review |-> r, exp |-> 0, since |-> 0, result |-> "none"]]
  BY DEF Start
<1>2. /\ run' \in [Runs -> {Idle} \cup Started]
      /\ \A y \in Runs \ {x} : run'[y] = run[y]
      /\ run'[x] \in Started
      /\ run'[x].step \in {"reading", "loading"}
      /\ run'[x].result = "none"
  BY <1>1 DEF IInv, TypeOK, Started, Steps, Results
<1>3. run[x] \notin Started
  BY DEF Start, Started, Idle, Steps
<1>4. TypeOK'
  BY <1>2 DEF IInv, TypeOK, Start
<1>5. Unfinished' /\ AttestationsFollowApproval' /\ ClaimantsAreCurrent'
  BY <1>2 DEF IInv, TypeOK, Start, Unfinished, AttestationsFollowApproval, ClaimantsAreCurrent
<1>6. ClaimsAreAttested'
  BY <1>2, <1>3 DEF IInv, TypeOK, Start, ClaimsAreAttested
<1>7. WinnersClaimed'
  BY <1>2, <1>3, DeployAssumption DEF IInv, TypeOK, Start, WinnersClaimed, Won
<1>8. PostsWon' /\ DeploymentsWon'
  BY <1>2, <1>3 DEF IInv, TypeOK, Start, PostsWon, DeploymentsWon, Requested, Posts, Deployments
<1>9. OneRequest' /\ RequestsAreTimely'
  BY <1>2, <1>3 DEF IInv, TypeOK, Start, PostsWon, OneRequest, RequestsAreTimely, Posts, Requested
<1>10. SuccessIsReal'
  BY <1>2 DEF IInv, TypeOK, Start, SuccessIsReal
<1> QED
  BY <1>4, <1>5, <1>6, <1>7, <1>8, <1>9, <1>10 DEF IInv

LEMMA ReadBodyKeeps ==
  ASSUME IInv, NEW x \in Runs, ReadBody(x)
  PROVE  IInv'
<1>1. run[x] \in Started /\ TypeOK
  BY StepsAreStarted DEF IInv, ReadBody, Steps
<1>2. CASE run' = [run EXCEPT ![x].step = "loading"] /\ UNCHANGED busy
  <2>1. Moved(x, "loading", run[x].result)
    <3>1. run' = [run EXCEPT ![x] = [run[x] EXCEPT !.step = "loading"]]
      BY <1>1, <1>2 DEF TypeOK
    <3>2. [run[x] EXCEPT !.step = "loading"] \in Started
      BY <1>1 DEF Started, Steps
    <3> QED
      BY <1>1, <3>1, <3>2 DEF Moved, TypeOK, Started
  <2> QED
    BY <1>1, <1>2, <2>1, Proceeds DEF ReadBody, Steps, TypeOK
<1>3. ASSUME NEW result \in {"INVALID_REQUEST", "RECONCILE_REQUIRED"}, End(x, result)
      PROVE  IInv'
  <2>1. Moved(x, "ended", result) /\ busy' \in [Gateways -> BOOLEAN] /\ result \in Results
    BY <1>1, <1>3, EndMoves DEF ReadBody, Steps, Results, NotPerformed, ApprovalKept
  <2>2. x \notin claims
    BY DEF IInv, ReadBody, ClaimsAreAttested
  <2> QED
    BY <1>3, <2>1, <2>2, Ends DEF ReadBody
<1> QED
  BY <1>2, <1>3 DEF ReadBody

LEMMA LoadGrantKeeps ==
  ASSUME IInv, NEW x \in Runs, LoadGrant(x)
  PROVE  IInv'
<1>1. run[x] \in Started /\ TypeOK
  BY StepsAreStarted DEF IInv, LoadGrant, Steps
<1>2. ASSUME NEW exp \in GrantExpiries, UNCHANGED busy,
             run' = [run EXCEPT ![x].step = "verifying", ![x].exp = exp, ![x].since = time]
      PROVE  IInv'
  <2>1. Moved(x, "verifying", run[x].result)
    <3>1. run' = [run EXCEPT ![x] = [run[x] EXCEPT !.step = "verifying", !.exp = exp, !.since = time]]
      BY <1>1, <1>2 DEF TypeOK
    <3>2. [run[x] EXCEPT !.step = "verifying", !.exp = exp, !.since = time] \in Started
      BY <1>1, DeployAssumption DEF Started, Steps, TypeOK
    <3> QED
      BY <1>1, <3>1, <3>2 DEF Moved, TypeOK, Started
  <2> QED
    BY <1>1, <1>2, <2>1, Proceeds DEF LoadGrant, Steps, TypeOK
<1>3. ASSUME NEW result \in {"OPERATOR_GRANT_UNAVAILABLE", "PLAN_OUTSIDE_SCOPE_OR_INVALID"}, End(x, result)
      PROVE  IInv'
  <2>1. Moved(x, "ended", result) /\ busy' \in [Gateways -> BOOLEAN] /\ result \in Results
    BY <1>1, <1>3, EndMoves DEF LoadGrant, Steps, Results, NotPerformed, ApprovalKept
  <2>2. x \notin claims
    BY DEF IInv, LoadGrant, ClaimsAreAttested
  <2> QED
    BY <1>3, <2>1, <2>2, Ends DEF LoadGrant
<1> QED
  BY <1>2, <1>3 DEF LoadGrant

LEMMA RefusedKeeps ==
  ASSUME IInv, NEW x \in Runs, Refused(x)
  PROVE  IInv'
<1>1. TypeOK /\ run[x].step \in Steps
  BY DEF IInv, Refused, Steps
<1>2. "POLICY_OR_SIGNED_AUTHORIZATION" \in Results
  BY DEF Results, NotPerformed, ApprovalKept
<1>3. Moved(x, "ended", "POLICY_OR_SIGNED_AUTHORIZATION") /\ busy' \in [Gateways -> BOOLEAN]
  BY <1>1, <1>2, EndMoves DEF Refused
<1>4. x \notin claims
  BY DEF IInv, Refused, ClaimsAreAttested
<1> QED
  BY <1>2, <1>3, <1>4, Ends DEF Refused

LEMMA AuthorizationFailsKeeps ==
  ASSUME IInv, NEW x \in Runs, AuthorizationFails(x)
  PROVE  IInv'
<1>1. TypeOK /\ run[x].step \in Steps
  BY DEF IInv, AuthorizationFails, Steps
<1>2. ClaimLost \in Results /\ ClaimLost \notin ApprovalKept /\ ClaimLost # "deployment_created"
  BY DEF Results, NotPerformed, ApprovalKept, ClaimLost
<1>3. Moved(x, "ended", ClaimLost) /\ busy' \in [Gateways -> BOOLEAN]
  BY <1>1, <1>2, EndMoves DEF AuthorizationFails
<1> QED
  BY <1>2, <1>3, Ends DEF AuthorizationFails

LEMMA UnconfirmedKeeps ==
  ASSUME IInv, NEW x \in Runs, Unconfirmed(x)
  PROVE  IInv'
<1>1. TypeOK /\ run[x].step \in Steps
  BY DEF IInv, Unconfirmed, Steps
<1>2. AnswerLost \in Results /\ AnswerLost \notin NotPerformed /\ AnswerLost # "deployment_created"
  BY DEF Results, NotPerformed, ApprovalKept, AnswerLost
<1>3. Moved(x, "ended", AnswerLost) /\ busy' \in [Gateways -> BOOLEAN]
  BY <1>1, <1>2, EndMoves DEF Unconfirmed
<1>4. x \notin claims
  BY DEF IInv, Unconfirmed, ClaimsAreAttested
<1> QED
  BY <1>2, <1>3, <1>4, Ends DEF Unconfirmed, NotPerformed

LEMMA CrashKeeps ==
  ASSUME IInv, NEW x \in Runs, Crash(x)
  PROVE  IInv'
<1>1. run[x] \in Started /\ TypeOK
  BY StepsAreStarted DEF IInv, Crash
<1>2. run' = [run EXCEPT ![x] = [run[x] EXCEPT !.step = "dead", !.exp = 0, !.since = 0]]
  BY <1>1 DEF Crash, TypeOK
<1>3. [run[x] EXCEPT !.step = "dead", !.exp = 0, !.since = 0] \in Started
  BY <1>1 DEF Started, Steps
<1>4. Moved(x, "dead", run[x].result)
  BY <1>1, <1>2, <1>3 DEF Moved, TypeOK, Started
<1>5. busy' \in [Gateways -> BOOLEAN]
  BY <1>1 DEF Crash, TypeOK
<1> QED
  BY <1>4, <1>5, Proceeds DEF Crash, Steps

LEMMA SendClaimKeeps ==
  ASSUME IInv, NEW x \in Runs, SendClaim(x)
  PROVE  IInv'
<1> USE DEF queue
<1>1. run[x] \in Started /\ TypeOK
  BY StepsAreStarted DEF IInv, SendClaim, Steps
<1>2. run' = [run EXCEPT ![x] = [run[x] EXCEPT !.step = "claiming", !.since = time]]
  BY <1>1 DEF SendClaim, TypeOK
<1>3. [run[x] EXCEPT !.step = "claiming", !.since = time] \in Started
  BY <1>1 DEF Started, Steps, TypeOK
<1>4. Moved(x, "claiming", run[x].result) /\ run'[x].since = time
  BY <1>1, <1>2, <1>3 DEF Moved, TypeOK, Started
<1>5. /\ run[x].plan = Packet[run[x].review]
      /\ token[run[x].review] > 0
      /\ time < token[run[x].review] + Skew
  BY <1>1, DeployAssumption DEF SendClaim, Attested, Clocks, TypeOK, Started
<1>6. TypeOK'
  BY <1>1, <1>4 DEF TypeOK, Moved, SendClaim
<1>7. Unfinished' /\ AttestationsFollowApproval' /\ ClaimantsAreCurrent'
  BY <1>1, <1>4, <1>5 DEF IInv, TypeOK, Moved, SendClaim, Unfinished,
                          AttestationsFollowApproval, ClaimantsAreCurrent
<1>8. ClaimsAreAttested'
  BY <1>1, <1>4, <1>5 DEF IInv, TypeOK, Moved, SendClaim, ClaimsAreAttested
<1>9. WinnersClaimed'
  BY <1>1, <1>4, DeployAssumption DEF IInv, TypeOK, Moved, SendClaim, WinnersClaimed, Won
<1>10. PostsWon' /\ DeploymentsWon'
  BY <1>1, <1>4 DEF IInv, TypeOK, Moved, SendClaim, PostsWon, DeploymentsWon, Requested,
                    Posts, Deployments
<1>11. OneRequest' /\ RequestsAreTimely'
  BY <1>1, <1>4 DEF IInv, TypeOK, Moved, SendClaim, PostsWon, OneRequest, RequestsAreTimely,
                    Posts, Requested
<1>12. SuccessIsReal'
  BY <1>1, <1>4 DEF IInv, TypeOK, Moved, SendClaim, SuccessIsReal
<1> QED
  BY <1>6, <1>7, <1>8, <1>9, <1>10, <1>11, <1>12 DEF IInv

LEMMA SendPostKeeps ==
  ASSUME IInv, NEW x \in Runs, SendPost(x)
  PROVE  IInv'
<1> USE DEF queue
<1>1. run[x] \in Started /\ TypeOK
  BY StepsAreStarted DEF IInv, SendPost, Steps
<1>2. PICK clock \in Clocks :
        \/ /\ StillDelegated(x, clock)
           /\ posts' = posts \cup {[run |-> x, plan |-> run[x].plan, exp |-> run[x].exp, at |-> time]}
           /\ run' = [run EXCEPT ![x].step = "posting", ![x].since = time]
           /\ UNCHANGED busy
        \/ /\ End(x, "GRANT_EXPIRED_BEFORE_EXECUTION")
           /\ UNCHANGED posts
  BY DEF SendPost
<1>3. x \notin claims /\ run[x].review \in Reviews /\ x # NoRun
  BY <1>1, DeployAssumption DEF IInv, SendPost, WinnersClaimed, Won, Started
<1>4. CASE End(x, "GRANT_EXPIRED_BEFORE_EXECUTION") /\ UNCHANGED posts
  <2>1. "GRANT_EXPIRED_BEFORE_EXECUTION" \in Results
    BY DEF Results, NotPerformed, ApprovalKept
  <2>2. Moved(x, "ended", "GRANT_EXPIRED_BEFORE_EXECUTION") /\ busy' \in [Gateways -> BOOLEAN]
    BY <1>1, <1>4, <2>1, EndMoves DEF SendPost, Steps
  <2> QED
    BY <1>3, <1>4, <2>1, <2>2, Ends DEF SendPost, ApprovalKept
<1>5. CASE /\ StillDelegated(x, clock)
           /\ posts' = posts \cup {[run |-> x, plan |-> run[x].plan, exp |-> run[x].exp, at |-> time]}
           /\ run' = [run EXCEPT ![x].step = "posting", ![x].since = time]
           /\ UNCHANGED busy
  <2> DEFINE m == [run |-> x, plan |-> run[x].plan, exp |-> run[x].exp, at |-> time]
  <2>1. run' = [run EXCEPT ![x] = [run[x] EXCEPT !.step = "posting", !.since = time]]
    BY <1>1, <1>5 DEF TypeOK
  <2>2. [run[x] EXCEPT !.step = "posting", !.since = time] \in Started
    BY <1>1 DEF Started, Steps, TypeOK
  <2>3. Moved(x, "posting", run[x].result)
    BY <1>1, <2>1, <2>2 DEF Moved, TypeOK, Started
  <2>4. m \in Posts /\ m.run = x /\ m.plan = run[x].plan /\ m.exp = run[x].exp /\ m.at = time
    BY <1>1 DEF Posts, Started, TypeOK
  <2>5. posts' = posts \cup {m}
    BY <1>5
  <2>6. m.at < m.exp + Skew
    BY <1>1, <1>5, <2>4, DeployAssumption DEF StillDelegated, Clocks, TypeOK, Posts
  <2>7. m.at < token[run[x].review] + Skew + ClaimTimeout
    BY <1>1, <1>3, <2>4, DeployAssumption
       DEF IInv, ClaimantsAreCurrent, SendPost, InTime, TypeOK, Started
  <2>8. run[x].result = "none" /\ "none" \notin NotPerformed
    BY <1>1 DEF IInv, Unfinished, SendPost, NotPerformed, ApprovalKept
  <2>9. /\ \A n \in posts : n.run # x
        /\ \A d \in deployments : d.run # x
    BY DEF IInv, PostsWon, DeploymentsWon, Requested, SendPost
  <2> HIDE DEF m
  <2>10. TypeOK'
    BY <1>1, <1>5, <2>3, <2>4, <2>5 DEF TypeOK, Moved, SendPost
  <2>11. Unfinished' /\ AttestationsFollowApproval' /\ ClaimantsAreCurrent'
    BY <1>1, <2>3, <2>8 DEF IInv, TypeOK, Moved, SendPost, Unfinished,
                            AttestationsFollowApproval, ClaimantsAreCurrent
  <2>12. ClaimsAreAttested'
    BY <1>1, <1>3, <2>3 DEF IInv, TypeOK, Moved, SendPost, ClaimsAreAttested
  <2>13. WinnersClaimed'
    BY <1>1, <2>3, DeployAssumption DEF IInv, TypeOK, Moved, SendPost, WinnersClaimed, Won
  <2>14. PostsWon'
    BY <1>1, <2>3, <2>4, <2>5, <2>8 DEF IInv, TypeOK, Moved, SendPost, PostsWon, Requested, Posts
  <2>15. DeploymentsWon'
    BY <1>1, <2>3 DEF IInv, TypeOK, Moved, SendPost, DeploymentsWon, Requested, Deployments
  <2>16. OneRequest'
    BY <2>4, <2>5, <2>9 DEF IInv, SendPost, OneRequest
  <2>17. RequestsAreTimely'
    BY <1>1, <2>3, <2>4, <2>5, <2>6, <2>7
       DEF IInv, TypeOK, Moved, SendPost, RequestsAreTimely, Posts, PostsWon, Requested
  <2>18. SuccessIsReal'
    BY <1>1, <2>3 DEF IInv, TypeOK, Moved, SendPost, SuccessIsReal
  <2> QED
    BY <2>10, <2>11, <2>12, <2>13, <2>14, <2>15, <2>16, <2>17, <2>18 DEF IInv
<1> QED
  BY <1>2, <1>4, <1>5

\* What the cloud has deployed for a run is what the approval was about.
LEMMA DeployedIsApproved ==
  ASSUME IInv, NEW d \in deployments
  PROVE  /\ d = [run |-> d.run, plan |-> Packet[run[d.run].review]]
         /\ d.run \in Runs
<1>1. d \in Deployments /\ d.run \in Runs
  BY DEF IInv, TypeOK, Deployments
<1>2. d.plan = run[d.run].plan /\ run[d.run].review \in Reviews /\ winner[run[d.run].review] = d.run
  BY DEF IInv, DeploymentsWon, Requested, Started
<1>3. d.plan = Packet[run[d.run].review]
  BY <1>1, <1>2, DeployAssumption DEF IInv, WinnersClaimed, Won
<1> QED
  BY <1>1, <1>3 DEF Deployments

LEMMA AcknowledgedKeeps ==
  ASSUME IInv, NEW x \in Runs, Acknowledged(x)
  PROVE  IInv'
<1>1. run[x] \in Started /\ TypeOK
  BY StepsAreStarted DEF IInv, Acknowledged, Steps
<1>2. x \notin claims
  BY DEF IInv, Acknowledged, ClaimsAreAttested
<1>3. CASE End(x, "deployment_created")
  <2>1. "deployment_created" \in Results \ NotPerformed
    BY DEF Results, NotPerformed, ApprovalKept
  <2>2. Moved(x, "ended", "deployment_created") /\ busy' \in [Gateways -> BOOLEAN]
    BY <1>1, <1>3, <2>1, EndMoves DEF Acknowledged, Steps
  <2>3. [run |-> x, plan |-> Packet[run[x].review]] \in deployments
    BY DeployedIsApproved DEF Acknowledged
  <2> QED
    BY <1>2, <2>1, <2>2, <2>3, Ends DEF Acknowledged, NotPerformed
<1>4. CASE run' = [run EXCEPT ![x].step = "confirming"] /\ UNCHANGED busy
  <2>1. run' = [run EXCEPT ![x] = [run[x] EXCEPT !.step = "confirming"]]
    BY <1>1, <1>4 DEF TypeOK
  <2>2. [run[x] EXCEPT !.step = "confirming"] \in Started
    BY <1>1 DEF Started, Steps
  <2>3. Moved(x, "confirming", run[x].result)
    BY <1>1, <2>1, <2>2 DEF Moved, TypeOK, Started
  <2> QED
    BY <1>1, <1>4, <2>3, Proceeds DEF Acknowledged, Steps, TypeOK
<1> QED
  BY <1>3, <1>4 DEF Acknowledged

LEMMA ConfirmedKeeps ==
  ASSUME IInv, NEW x \in Runs, Confirmed(x)
  PROVE  IInv'
<1>1. TypeOK /\ run[x].step \in Steps
  BY DEF IInv, Confirmed, Steps
<1>2. "deployment_created" \in Results \ NotPerformed
  BY DEF Results, NotPerformed, ApprovalKept
<1>3. Moved(x, "ended", "deployment_created") /\ busy' \in [Gateways -> BOOLEAN]
  BY <1>1, <1>2, EndMoves DEF Confirmed
<1>4. x \notin claims
  BY DEF IInv, Confirmed, ClaimsAreAttested
<1>5. [run |-> x, plan |-> Packet[run[x].review]] \in deployments
  BY DeployedIsApproved DEF Confirmed
<1> QED
  BY <1>2, <1>3, <1>4, <1>5, Ends DEF Confirmed, NotPerformed

---------------------------------------------------------------------------
(* The queue and the cloud keep the invariant.                             *)

LEMMA ConsumeKeeps ==
  ASSUME IInv, NEW x \in Runs, Consume(x)
  PROVE  IInv'
<1>0. run[x] \in Started /\ x # NoRun
  BY DeployAssumption DEF IInv, Consume, ClaimsAreAttested
<1>1. PICK r \in Reviews : r = run[x].review
  BY <1>0 DEF Started
<1>2. /\ winner[r] = NoRun
      /\ phase' = [phase EXCEPT ![r] = "used"]
      /\ deadline' = [deadline EXCEPT ![r] = 0]
      /\ UNCHANGED <<time, token>>
      /\ winner' = [winner EXCEPT ![r] = x]
      /\ claims' = claims \ {x}
      /\ UNCHANGED <<busy, run, posts, deployments>>
  BY <1>0, <1>1 DEF IInv, Consume, Use, WinnersClaimed
<1>3. Won(x, r)'
  BY <1>0, <1>1, <1>2 DEF IInv, Consume, ClaimsAreAttested, Unfinished, Won, ApprovalKept, ClaimLost
<1>4. TypeOK'
  BY <1>0, <1>1, <1>2 DEF IInv, TypeOK
<1>5. Unfinished' /\ ClaimsAreAttested' /\ ClaimantsAreCurrent' /\ AttestationsFollowApproval'
  BY <1>0, <1>1, <1>2 DEF IInv, TypeOK, Unfinished, ClaimsAreAttested, ClaimantsAreCurrent,
                    AttestationsFollowApproval
<1>6. WinnersClaimed'
  BY <1>0, <1>1, <1>2, <1>3 DEF IInv, TypeOK, WinnersClaimed, Won
<1>7. PostsWon' /\ DeploymentsWon'
  BY <1>0, <1>1, <1>2, DeployAssumption DEF IInv, TypeOK, PostsWon, DeploymentsWon, Requested, Posts,
                                      Deployments, Started
<1>8. OneRequest' /\ SuccessIsReal' /\ RequestsAreTimely'
  BY <1>2 DEF IInv, OneRequest, SuccessIsReal, RequestsAreTimely
<1> QED
  BY <1>4, <1>5, <1>6, <1>7, <1>8 DEF IInv

LEMMA RefuseClaimKeeps ==
  ASSUME IInv, NEW x \in Runs, RefuseClaim(x)
  PROVE  IInv'
<1> USE DEF queue
<1>1. TypeOK' /\ Unfinished' /\ ClaimsAreAttested' /\ ClaimantsAreCurrent'
  BY DEF IInv, TypeOK, RefuseClaim, Unfinished, ClaimsAreAttested, ClaimantsAreCurrent
<1>2. AttestationsFollowApproval' /\ WinnersClaimed'
  BY DEF IInv, RefuseClaim, AttestationsFollowApproval, WinnersClaimed, Won
<1>3. PostsWon' /\ DeploymentsWon' /\ OneRequest' /\ SuccessIsReal' /\ RequestsAreTimely'
  BY DEF IInv, RefuseClaim, PostsWon, DeploymentsWon, Requested, OneRequest, SuccessIsReal,
         RequestsAreTimely
<1> QED
  BY <1>1, <1>2, <1>3 DEF IInv

LEMMA ApproveReviewKeeps ==
  ASSUME IInv, NEW r \in Reviews, ApproveReview(r)
  PROVE  IInv'
<1>1. PICK d \in 0 .. (time + Skew + TokenTTL) : deadline' = [deadline EXCEPT ![r] = d]
  BY DEF ApproveReview, Approve
<1>2. d \in Int /\ deadline'[r] = d
  BY <1>1, DeployAssumption DEF IInv, TypeOK
<1>3. /\ phase[r] = "waiting"
      /\ phase' = [phase EXCEPT ![r] = "approved"]
      /\ token' = [token EXCEPT ![r] = d]
      /\ UNCHANGED <<time, winner, busy, run, claims, posts, deployments>>
  BY <1>2 DEF ApproveReview, Approve
<1>4. token[r] = 0 /\ winner[r] = NoRun
  BY <1>3 DEF IInv, AttestationsFollowApproval, WinnersClaimed
<1>5. TypeOK'
  BY <1>1, <1>2, <1>3 DEF IInv, TypeOK
<1>6. Unfinished' /\ ClaimsAreAttested' /\ AttestationsFollowApproval'
  BY <1>3 DEF IInv, TypeOK, Unfinished, ClaimsAreAttested, AttestationsFollowApproval
<1>7. ClaimantsAreCurrent'
  BY <1>3, <1>4 DEF IInv, TypeOK, ClaimantsAreCurrent
<1>8. WinnersClaimed'
  BY <1>3, <1>4 DEF IInv, TypeOK, WinnersClaimed, Won
<1>9. PostsWon' /\ DeploymentsWon' /\ OneRequest' /\ SuccessIsReal'
  BY <1>3 DEF IInv, PostsWon, DeploymentsWon, Requested, OneRequest, SuccessIsReal
<1>10. RequestsAreTimely'
  <2>1. ASSUME NEW m \in posts
        PROVE  run[m.run].review # r
    BY <1>4, DeployAssumption DEF IInv, TypeOK, PostsWon, Requested, Posts
  <2> QED
    BY <1>3, <2>1 DEF IInv, TypeOK, RequestsAreTimely, PostsWon, Requested, Started
<1> QED
  BY <1>5, <1>6, <1>7, <1>8, <1>9, <1>10 DEF IInv

LEMMA QueueStepKeeps ==
  ASSUME IInv, QueueStep
  PROVE  IInv'
<1>1. /\ time' \in Nat
      /\ deadline' \in [Reviews -> Int]
      /\ phase' \in [Reviews -> {"unknown", "waiting", "approved", "refused", "used", "forgotten"}]
      /\ \A r \in Reviews :
           /\ phase'[r] \in {"unknown", "waiting"} => phase[r] \in {"unknown", "waiting"}
           /\ phase[r] \in {"used", "forgotten"} => phase'[r] \in {"used", "forgotten"}
  BY DEF IInv, TypeOK, QueueStep, Submit, Refuse, Forget, Pass
<1>2. UNCHANGED <<token, winner, busy, run, claims, posts, deployments>>
  BY DEF QueueStep
<1>3. TypeOK'
  BY <1>1, <1>2 DEF IInv, TypeOK
<1>4. Unfinished' /\ ClaimsAreAttested' /\ ClaimantsAreCurrent' /\ AttestationsFollowApproval'
  BY <1>1, <1>2 DEF IInv, Unfinished, ClaimsAreAttested, ClaimantsAreCurrent,
                    AttestationsFollowApproval
<1>5. WinnersClaimed'
  BY <1>1, <1>2 DEF IInv, WinnersClaimed, Won
<1>6. PostsWon' /\ DeploymentsWon' /\ OneRequest' /\ SuccessIsReal' /\ RequestsAreTimely'
  BY <1>2 DEF IInv, PostsWon, DeploymentsWon, Requested, OneRequest, SuccessIsReal,
              RequestsAreTimely
<1> QED
  BY <1>3, <1>4, <1>5, <1>6 DEF IInv

LEMMA CloudDeploysKeeps ==
  ASSUME IInv, NEW m \in posts, CloudDeploys(m)
  PROVE  IInv'
<1> USE DEF queue
<1>1. Created(m) \in Deployments /\ Created(m).run = m.run /\ Created(m).plan = m.plan
  BY DEF IInv, TypeOK, Posts, Deployments, Created
<1>2. /\ deployments' = deployments \cup {Created(m)}
      /\ posts' = posts \ {m}
      /\ UNCHANGED <<time, phase, deadline, token, winner, busy, run, claims>>
  BY DEF CloudDeploys
<1>3. TypeOK'
  BY <1>1, <1>2 DEF IInv, TypeOK
<1>4. Unfinished' /\ ClaimsAreAttested' /\ ClaimantsAreCurrent' /\ AttestationsFollowApproval'
  BY <1>2 DEF IInv, Unfinished, ClaimsAreAttested, ClaimantsAreCurrent, AttestationsFollowApproval
<1>5. WinnersClaimed' /\ PostsWon' /\ RequestsAreTimely' /\ SuccessIsReal'
  BY <1>2 DEF IInv, WinnersClaimed, Won, PostsWon, Requested, RequestsAreTimely, SuccessIsReal
<1>6. DeploymentsWon'
  BY <1>1, <1>2 DEF IInv, PostsWon, DeploymentsWon, Requested
<1>7. OneRequest'
  BY <1>1, <1>2 DEF IInv, OneRequest
<1> QED
  BY <1>3, <1>4, <1>5, <1>6, <1>7 DEF IInv

LEMMA CloudDropsKeeps ==
  ASSUME IInv, NEW m \in posts, CloudDrops(m)
  PROVE  IInv'
<1> USE DEF queue
<1>1. TypeOK' /\ Unfinished' /\ ClaimsAreAttested' /\ ClaimantsAreCurrent'
  BY DEF IInv, TypeOK, CloudDrops, Unfinished, ClaimsAreAttested, ClaimantsAreCurrent
<1>2. AttestationsFollowApproval' /\ WinnersClaimed' /\ PostsWon' /\ DeploymentsWon'
  BY DEF IInv, CloudDrops, AttestationsFollowApproval, WinnersClaimed, Won, PostsWon,
         DeploymentsWon, Requested
<1>3. OneRequest' /\ SuccessIsReal' /\ RequestsAreTimely'
  BY DEF IInv, CloudDrops, OneRequest, SuccessIsReal, RequestsAreTimely
<1> QED
  BY <1>1, <1>2, <1>3 DEF IInv

---------------------------------------------------------------------------
(* The theorems.                                                           *)

LEMMA InitialInvariant == Init => IInv
<1> SUFFICES ASSUME Init
             PROVE  IInv
  OBVIOUS
<1>1. \A x \in Runs : run[x] = Idle /\ run[x].step = "idle" /\ run[x] \notin Started
  BY DEF Init, Idle, Started, Steps
<1>2. TypeOK
  BY DEF Init, TypeOK
<1> QED
  BY <1>1, <1>2 DEF Init, IInv, Unfinished, AttestationsFollowApproval, ClaimsAreAttested,
     ClaimantsAreCurrent, WinnersClaimed, PostsWon, DeploymentsWon, OneRequest, SuccessIsReal,
     RequestsAreTimely

LEMMA NextKeeps ==
  ASSUME IInv, [Next]_vars
  PROVE  IInv'
<1>1. CASE UNCHANGED vars
  BY <1>1 DEF vars, queue, IInv, TypeOK, Unfinished, AttestationsFollowApproval,
     ClaimsAreAttested, ClaimantsAreCurrent, WinnersClaimed, Won, PostsWon, DeploymentsWon,
     Requested, OneRequest, SuccessIsReal, RequestsAreTimely
<1>2. CASE \E x \in Runs : RunStep(x)
  BY <1>2, ReadBodyKeeps, LoadGrantKeeps, RefusedKeeps, SendClaimKeeps, AuthorizationFailsKeeps,
     SendPostKeeps, AcknowledgedKeeps, ConfirmedKeeps, UnconfirmedKeeps DEF RunStep
<1>3. CASE \E x \in Runs : Crash(x) \/ Consume(x) \/ RefuseClaim(x)
  BY <1>3, CrashKeeps, ConsumeKeeps, RefuseClaimKeeps
<1>4. CASE \E x \in Runs, h \in Gateways \cup {Direct} : Start(x, h)
  BY <1>4, StartKeeps
<1>5. CASE \E r \in Reviews : ApproveReview(r)
  BY <1>5, ApproveReviewKeeps
<1>6. CASE \E m \in posts : CloudDeploys(m) \/ CloudDrops(m)
  BY <1>6, CloudDeploysKeeps, CloudDropsKeeps
<1>7. CASE QueueStep
  BY <1>7, QueueStepKeeps
<1> QED
  BY <1>1, <1>2, <1>3, <1>4, <1>5, <1>6, <1>7 DEF Next

\* The inductive invariant of the executor, queue and cloud together (worker-version.ts
\* 132-215): who may claim, who has won an approval, and who may have deployed.
THEOREM InvariantCorrect == Spec => []IInv
<1>1. IInv /\ [Next]_vars => IInv'
  BY NextKeeps
<1> QED
  BY <1>1, InitialInvariant, PTL DEF Spec

\* The state keeps its type.
THEOREM TypeCorrect == Spec => []TypeOK
<1>1. IInv => TypeOK
  BY DEF IInv
<1> QED
  BY <1>1, InvariantCorrect, PTL

\* "Not performed" means that nothing was or will be deployed, and a reported deployment
\* exists and is the one approved, for any number of runs, gateways, losses and crashes.
THEOREM ReportsAreHonest == Spec => []ReportsHonest
<1>1. IInv => ReportsHonest
  BY DEF IInv, TypeOK, PostsWon, DeploymentsWon, Requested, SuccessIsReal, ReportsHonest
<1> QED
  BY <1>1, InvariantCorrect, PTL

\* A refusal before the claim leaves the approval to another call.
THEOREM RefusalsLeaveApproval == Spec => []RefusalsKeepApproval
<1>1. IInv => RefusalsKeepApproval
  <2> SUFFICES ASSUME IInv, NEW x \in Runs, run[x].step = "ended", run[x].result \in ApprovalKept
               PROVE  x \notin claims /\ \A r \in Reviews : winner[r] # x
    BY DEF RefusalsKeepApproval
  <2>1. x \notin claims
    BY DEF IInv, ClaimsAreAttested, ClaimLost, ApprovalKept
  <2>2. ASSUME NEW r \in Reviews, winner[r] = x
        PROVE  FALSE
    <3>1. x # NoRun
      BY DeployAssumption
    <3>2. Won(x, r)
      BY <2>2, <3>1 DEF IInv, WinnersClaimed
    <3> QED
      BY <3>2 DEF Won
  <2> QED
    BY <2>1, <2>2
<1> QED
  BY <1>1, InvariantCorrect, PTL

\* A deployment is requested under a current grant and soon after a current attestation.
THEOREM RequestsTimely == Spec => []RequestsAreTimely
<1>1. IInv => RequestsAreTimely
  BY DEF IInv
<1> QED
  BY <1>1, InvariantCorrect, PTL

\* What a step leaves the ledger with, when it neither uses an approval nor deploys.
LEMMA LedgerStutters ==
  ASSUME IInv, UNCHANGED <<winner, deployments>>,
         \A x \in Runs : run[x] \in Started => run'[x].review = run[x].review
  PROVE  UNCHANGED L!ledgerVars
<1>1. \A d \in deployments : run'[d.run].review = run[d.run].review
  BY DEF IInv, TypeOK, DeploymentsWon, Requested, Deployments
<1>2. \A r \in Reviews : {d \in deployments' : run'[d.run].review = r}
                           = {d \in deployments : run[d.run].review = r}
  BY <1>1
<1> QED
  BY <1>2 DEF L!ledgerVars

LEMMA RunsKeepTheirReview ==
  ASSUME IInv, NEW x \in Runs, RunStep(x) \/ Crash(x)
  PROVE  \A y \in Runs : run[y] \in Started => run'[y].review = run[y].review
<1>1. run[x] \in Started
  BY StepsAreStarted DEF IInv, RunStep, ReadBody, LoadGrant, Refused, SendClaim, AuthorizationFails,
     SendPost, Acknowledged, Confirmed, Unconfirmed, Crash, Steps
<1>2. ASSUME NEW result, End(x, result)
      PROVE  \A y \in Runs : run[y] \in Started => run'[y].review = run[y].review
  BY <1>1, <1>2 DEF IInv, TypeOK, Started, End
<1>3. CASE run' = [run EXCEPT ![x].step = "loading"]
  BY <1>1, <1>3 DEF IInv, TypeOK, Started
<1>4. ASSUME NEW exp, run' = [run EXCEPT ![x].step = "verifying", ![x].exp = exp, ![x].since = time]
      PROVE  \A y \in Runs : run[y] \in Started => run'[y].review = run[y].review
  BY <1>1, <1>4 DEF IInv, TypeOK, Started
<1>5. ASSUME NEW step, run' = [run EXCEPT ![x].step = step, ![x].since = time]
      PROVE  \A y \in Runs : run[y] \in Started => run'[y].review = run[y].review
  BY <1>1, <1>5 DEF IInv, TypeOK, Started
<1>6. CASE run' = [run EXCEPT ![x].step = "confirming"]
  BY <1>1, <1>6 DEF IInv, TypeOK, Started
<1>7. CASE run' = [run EXCEPT ![x].step = "dead", ![x].exp = 0, ![x].since = 0]
  BY <1>1, <1>7 DEF IInv, TypeOK, Started
<1> QED
  BY <1>2, <1>3, <1>4, <1>5, <1>6, <1>7 DEF RunStep, ReadBody, LoadGrant, Refused, SendClaim,
     AuthorizationFails, SendPost, Acknowledged, Confirmed, Unconfirmed, Crash

LEMMA ConsumeSpends ==
  ASSUME IInv, NEW x \in Runs, Consume(x)
  PROVE  \E r \in Reviews : L!Spend(r)
<1>0. run[x] \in Started /\ x # NoRun
  BY DeployAssumption DEF IInv, Consume, ClaimsAreAttested
<1>1. PICK r \in Reviews : r = run[x].review
  BY <1>0 DEF Started
<1>2. /\ winner[r] = NoRun
      /\ winner' = [winner EXCEPT ![r] = x]
      /\ UNCHANGED <<run, deployments>>
  BY <1>1 DEF IInv, Consume, Use, WinnersClaimed
<1>3. \A s \in Reviews : winner'[s] # NoRun <=> winner[s] # NoRun \/ s = r
  BY <1>0, <1>2 DEF IInv, TypeOK
<1>4. {s \in Reviews : winner'[s] # NoRun} = {s \in Reviews : winner[s] # NoRun} \cup {r}
  BY <1>3
<1>5. r \notin {s \in Reviews : winner[s] # NoRun}
  BY <1>2
<1>6. [s \in Reviews |-> {d \in deployments' : run'[d.run].review = s}]
        = [s \in Reviews |-> {d \in deployments : run[d.run].review = s}]
  BY <1>2
<1> QED
  BY <1>4, <1>5, <1>6 DEF L!Spend

LEMMA CloudDeploysDeploys ==
  ASSUME IInv, NEW m \in posts, CloudDeploys(m)
  PROVE  \E r \in Reviews : L!Deploy(r)
<1>1. m.run \in Runs /\ Requested(m.run) /\ m.plan = run[m.run].plan /\ m.run # NoRun
  BY DeployAssumption DEF IInv, TypeOK, Posts, PostsWon
<1>2. PICK r \in Reviews : r = run[m.run].review
  BY <1>1 DEF Requested, Started
<1>3. winner[r] = m.run /\ m.plan = Packet[r]
  BY <1>1, <1>2 DEF Requested, IInv, WinnersClaimed, Won
<1>4. /\ deployments' = deployments \cup {[run |-> m.run, plan |-> Packet[r]]}
      /\ UNCHANGED <<winner, run>>
  BY <1>3 DEF CloudDeploys, Created
<1>5. \A d \in deployments : run[d.run].review # r
  <2> SUFFICES ASSUME NEW d \in deployments, run[d.run].review = r
               PROVE  FALSE
    OBVIOUS
  <2>1. d.run = m.run
    BY <1>3 DEF IInv, DeploymentsWon, Requested
  <2> QED
    BY <2>1 DEF IInv, OneRequest
<1> DEFINE ledger == [s \in Reviews |-> {d \in deployments : run[d.run].review = s}]
           new == [run |-> m.run, plan |-> Packet[r]]
<1>6. ledger[r] = {}
  BY <1>5
<1>7. ledger' = [ledger EXCEPT ![r] = {new}]
  <2>1. new.run = m.run
    OBVIOUS
  <2>2. \A s \in Reviews : {d \in deployments' : run[d.run].review = s}
                             = IF s = r THEN {new} ELSE ledger[s]
    <3> HIDE DEF new
    <3>1. deployments' = deployments \cup {new}
      BY <1>4 DEF new
    <3>2. \A d \in deployments' : run[d.run].review = r <=> d = new
      BY <1>2, <1>5, <2>1, <3>1
    <3>3. {d \in deployments' : run[d.run].review = r} = {new}
      BY <3>1, <3>2
    <3>4. ASSUME NEW s \in Reviews, s # r
          PROVE  {d \in deployments' : run[d.run].review = s} = ledger[s]
      <4>1. ledger[s] = {d \in deployments : run[d.run].review = s}
        OBVIOUS
      <4> HIDE DEF ledger
      <4> QED
        BY <1>2, <2>1, <3>1, <3>4, <4>1
    <3> QED
      BY <3>3, <3>4
  <2>3. ledger' = [s \in Reviews |-> {d \in deployments' : run[d.run].review = s}]
    BY <1>4
  <2>4. ledger' = [s \in Reviews |-> IF s = r THEN {new} ELSE ledger[s]]
    BY <2>2, <2>3
  <2> QED
    BY <2>4
<1>8. {s \in Reviews : winner'[s] # NoRun} = {s \in Reviews : winner[s] # NoRun}
  BY <1>4
<1>9. r \in {s \in Reviews : winner[s] # NoRun}
  BY <1>1, <1>3
<1> QED
  BY <1>1, <1>6, <1>7, <1>8, <1>9 DEF L!Deploy

\* The executor implements the ledger of approvals: over all runs, gateways, crashes, lost
\* and late messages, an approval is used once and yields at most one deployment, of
\* exactly the plan it was given for (worker-version.ts 163-167, 173-179).
THEOREM ExecutorImplementsLedger == Spec => Ledger
<1>1. Init => L!LedgerInit
  BY DEF Init, L!LedgerInit
<1>2. IInv /\ [Next]_vars => [L!LedgerNext]_(L!ledgerVars)
  <2> SUFFICES ASSUME IInv, [Next]_vars
               PROVE  L!LedgerNext \/ UNCHANGED L!ledgerVars
    OBVIOUS
  <2>1. CASE UNCHANGED vars
    BY <2>1 DEF vars, L!ledgerVars
  <2>2. CASE \E x \in Runs : RunStep(x) \/ Crash(x)
    <3>1. PICK x \in Runs : RunStep(x) \/ Crash(x)
      BY <2>2
    <3>2. UNCHANGED <<winner, deployments>>
      BY <3>1 DEF RunStep, ReadBody, LoadGrant, Refused, SendClaim, AuthorizationFails,
         SendPost, Acknowledged, Confirmed, Unconfirmed, Crash
    <3> QED
      BY <3>1, <3>2, RunsKeepTheirReview, LedgerStutters
  <2>3. CASE \E x \in Runs : Consume(x)
    BY <2>3, ConsumeSpends DEF L!LedgerNext
  <2>4. CASE \E m \in posts : CloudDeploys(m)
    BY <2>4, CloudDeploysDeploys DEF L!LedgerNext
  <2>5. CASE \E x \in Runs, h \in Gateways \cup {Direct} : Start(x, h)
    <3>1. PICK x \in Runs, h \in Gateways \cup {Direct} : Start(x, h)
      BY <2>5
    <3>2. run[x] \notin Started
      BY <3>1 DEF Start, Started, Idle, Steps
    <3>3. \A y \in Runs : run[y] \in Started => run'[y].review = run[y].review
      BY <3>1, <3>2 DEF IInv, TypeOK, Start
    <3> QED
      BY <3>1, <3>3, LedgerStutters DEF Start
  <2>6. CASE \/ \E x \in Runs : RefuseClaim(x)
             \/ \E r \in Reviews : ApproveReview(r)
             \/ \E m \in posts : CloudDrops(m)
             \/ QueueStep
    BY <2>6, LedgerStutters DEF RefuseClaim, ApproveReview, CloudDrops, QueueStep
  <2> QED
    BY <2>1, <2>2, <2>3, <2>4, <2>5, <2>6 DEF Next
<1> QED
  BY <1>1, <1>2, InvariantCorrect, PTL DEF Spec, Ledger, L!LedgerSpec

\* What was sent to the cloud and not dropped, carried out or not, for one approval.
SentFor(r) == {m \in posts \cup deployments : run[m.run].review = r}

\* docs/WORKER_DEPLOY_PILOT.md promises at most one execution attempt per consumed review, of
\* the approved plan: at no time are there two requests or deployments for one approval, the
\* late and the carried out together, from whatever runs, hosts, crashes and lost answers; and
\* there is one only for an approval that the queue has spent, on the run that sent it.
THEOREM OneAttemptPerApproval ==
  Spec => [](\A r \in Reviews :
               /\ \A m, n \in SentFor(r) : m = n
               /\ \A m \in SentFor(r) :
                    /\ m.plan = Packet[r]
                    /\ winner[r] = m.run /\ phase[r] \in {"used", "forgotten"})
<1> DEFINE Attempted(r) ==
      /\ \A m, n \in SentFor(r) : m = n
      /\ \A m \in SentFor(r) :
           /\ m.plan = Packet[r]
           /\ winner[r] = m.run /\ phase[r] \in {"used", "forgotten"}
<1>1. ASSUME IInv, NEW r \in Reviews PROVE Attempted(r)
  <2>1. ASSUME NEW m \in SentFor(r)
        PROVE  /\ m.run \in Runs /\ m.plan = Packet[r] /\ winner[r] = m.run
               /\ phase[r] \in {"used", "forgotten"}
    <3>1. /\ m \in posts \/ m \in deployments
          /\ run[m.run].review = r
      BY DEF SentFor
    <3>2. m.run \in Runs /\ m.run # NoRun
      BY <1>1, <3>1, DeployAssumption DEF IInv, TypeOK, Deployments, Posts
    <3>3. Requested(m.run) /\ m.plan = run[m.run].plan
      BY <1>1, <3>1 DEF IInv, PostsWon, DeploymentsWon
    <3>4. winner[r] = m.run
      BY <3>1, <3>3 DEF Requested
    <3>5. Won(m.run, r) /\ phase[r] \in {"used", "forgotten"}
      BY <1>1, <3>2, <3>4 DEF IInv, WinnersClaimed
    <3> QED BY <3>2, <3>3, <3>4, <3>5 DEF Won
  <2>2. ASSUME NEW m \in SentFor(r), NEW n \in SentFor(r) PROVE m = n
    <3>1. m.run = n.run
      BY <2>1
    <3> QED BY <1>1, <3>1 DEF SentFor, IInv, OneRequest
  <2> QED BY <2>1, <2>2
<1>2. IInv => \A r \in Reviews : Attempted(r)
  BY <1>1, Zenon
<1> QED BY <1>2, InvariantCorrect, PTL
=============================================================================
