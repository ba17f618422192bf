# Vizier: a verification development in TLA+

Vizier is a Cloudflare Worker that verifies actions of AI agents against the authority they
were given, holds the risky ones for human review or for dual control, and meters, rate-limits
and records them. Around it are an MCP enforcement proxy, a deployment gate and two SDKs.

This directory models the parts of Vizier that keep state, checks them with TLC on small
instances and proves their main properties with TLAPS for every value of the constants. Source
paths below are relative to the repository, whose Worker lives in `src/`, written here with the
prefix used throughout the project files: `src/src/...`, `src/migrations/...`,
`src/packages/...`.

## 1. The system

### Components, their state and operations

| Component | State | Operations | Hard behaviour |
|---|---|---|---|
| Human reviews and financial reservations (`reviews/api.ts`, `reviews/financial.ts`, migrations 0006, 0007, 0009, `scheduled.ts`) | D1 tables `human_reviews`, `financial_reservations`, `financial_policies` | submit, approve, reject, cancel, consume, attach a transaction, settle, set policy, prune | reads and conditional writes of several requests interleave; triggers couple two tables; two clocks; retention |
| Dual control (`core/quorum.ts`, gates in `transport/http.ts` and `proxy/index.ts`) | KV: a record and a consumption lock per proposal, both with a lifetime | propose, vote, gate, consume | whole-record writes overtake one another; keys lapse; a failed second write |
| API keys and quota (`auth/keys.ts`, `transport/auth.ts`, migrations 0004, 0005) | D1 table `vizier_api_keys` | generate, revoke, authenticate and charge | the month turns between lookup and charge |
| Edge circuit breaker (`core/circuit-breaker.ts`, reset route in `transport/http.ts`) | KV: trip, epoch, budget per epoch, calls per epoch and signature, all with lifetimes | evaluate, reset | lost updates of counters, resets racing evaluations, lapsing keys |
| Verification kernel (`core/verify.ts`, `policies.ts`, `decision.ts`, `receipts.ts`) | none | decide, issue a receipt | interplay of the rules, defaults of missing inputs |
| Signed grants (`core/grants.ts`, `crypto/jws.ts`; keys and mode in `transport/shared.ts`) | the operator's bindings: registered keys, grant mode | mint, verify and bind a grant, rotate keys | three clocks; keys retired under requests in flight; altered authority |
| Sanctions and 50 percent rule (`core/sanctions*.ts`) | KV of custom entries, static lists | add an entry, screen, aggregate ownership | recursive ownership with cycles; entries added and lookups failing under a screening; rounding |
| Data-loss screening, input limits (`core/dlp.ts`, `json-complexity.ts`) | none | match | none besides text |
| HTTP transport (`transport/http.ts`) | none of its own | routes, verification pipeline | concurrent checks before a decision, consumption after it |
| Covenants (`covenants/`) | none: signed tokens | activate, authorize, record outcome | three calls and a deployment by two clocks; lost answers; expiry on the way |
| Audit storage (`storage/audit.ts`) | D1 audit tables | persist, prune | rows written after the reply, or never; deletion by dates some of which the client gives |
| Wallet history and monitor (`reviews/wallet-*.ts`) | D1 monitor row | collect range by range, scan on cron, retry | overlapping scans of one row; a chain that is replaced between two ranges |
| Chat proxy (`proxy/index.ts`) | uses breaker, sanctions and quorum | check, forward, inspect tool calls, spend approvals | several calls of one response, some checked after an approval was spent; votes overwriting a consumption |
| MCP and A2A endpoints (`transport/mcp*.ts`, `a2a.ts`) | none | adapt requests | none |
| MCP enforcement proxy (`packages/mcp-proxy`) | process-local loop history | detect loops, verify, then forward | history shared by calls around awaits; expiry between verdict and forwarding; timeouts of calls that are performed |
| Gated deploy (`packages/gated-deploy`) | a busy flag; the review queue | prepare, claim, deploy, reconcile | lost answers of the queue and of the cloud |
| SDKs, consoles, documents | none that matters | - | - |

### How they interact

A verification request passes through the API-key quota, then the circuit breaker, sanctions
and quorum checks run concurrently, then the kernel decides; an ALLOW on a quorum proposal
consumes the proposal. The chat proxy does the same checks around an upstream call. The review
queue is reached by its own routes: an agent's integration submits, a human decides, the
integration consumes the approval and, for a transfer, attaches the transaction that executed
it. Gated deploy is a client of the queue. All state is in D1 (transactions per statement or
batch, triggers) or KV (one key at a time, no compare-and-set); a request holds what it read
across awaits and nothing else.

### What makes each part correct

* Reviews: one decision and one use per review; the two tables agree; reservations fit the
  owner's budget at the moment they are made, approved and claimed; a claimed amount is freed by
  evidence only; unclaimed ones are freed by time; retention deletes nothing that counts.
* Quorum: stored records are explained by votes; nothing passes on fewer than the required
  approvals; a used proposal is not used again; one that is rejected or used for every reader
  stays so.
* Keys: the monthly quota; no invented usage; revocation is final.
* Breaker: the action budget, the detection of repetitions, a reset that really starts anew.
* Kernel, grants: an ALLOW rests on what the named principal signed, where a grant is carried or
  required; grants expire, but not early; a retired key stops counting, within the guard's timeout
  or, where a guard has none, at the end of the grant; widening an authority
  never loses an ALLOW.
* Gated deploy: one deployment per approval, and of the approved plan; honest reports when claims
  or answers are lost; a gateway that comes free.
* MCP proxy: the bound on repetitions in any window; "not forwarded" means never performed; in
  strict mode nothing goes out but what was allowed under a grant in force.
* Sanctions: no listed name and no one owned by listed ones is cleared; no one else is refused; both
  but for rounding and for lookups that fail.
* Chat proxy: a delivered answer was vetted as a whole; an approval is spent on its own call only.
* Covenants: a deployment runs on a fresh ALLOW and within the covenant's term, whatever the clocks
  show; its outcome is never refused afterwards. Audit: no row goes early.
* Wallet monitor: an observation is true of one history of the chain; a retry that fails spares an
  observation that was there and good when it looked.

The hazards behind these are listed, line by line, in `PROJECT.json`.

## 2. Modules

| Module | What it is |
|---|---|
| `FinancialReviews` | the review queue with its reservations, triggers and retention |
| `ReviewLifecycle` | what the queue promises about one review; the abstract specification |
| `QuorumProposals` | dual control over a key-value store |
| `ApiKeyQuota` | API keys and their monthly quota |
| `EdgeCircuitBreaker` | the circuit breaker of one session |
| `VerificationKernel` | the rules, their aggregation and the verification of a grant, as operators |
| `SignedDelegation` | a grant's life from signing to the guarded action, over the kernel |
| `WorkerDeploy` | the gated deployment of Worker versions, over `ReviewLifecycle` and a cloud |
| `ApprovedDeployments` | what that promises its operator; the abstract specification |
| `ServiceClock` | the wall clock of the five modules below |
| `McpToolProxy` | the MCP enforcement proxy |
| `SanctionsScreening` | screening and the 50 percent rule, against a least fixed point |
| `ChatCompletions` | the chat proxy's inspection of an answer |
| `ActionCovenants` | covenants, their client in the gated deploy, and their audit rows |
| `WalletMonitor` | the observation of a wallet over a growing, forking chain |
| `MC...` | instances for TLC: constants as definitions, symmetry |
| `GatewayProofs` | theorems and proofs about `McpToolProxy`, `ChatCompletions` and `SanctionsScreening` |
| `EvidenceProofs` | the same about `ActionCovenants` and `WalletMonitor` |
| `...Proofs` (others) | the same about the module named |

### FinancialReviews

A handler of the queue reads a row, awaits (OFAC data, a signature, RPC calls) and then issues
one conditional statement or batch. Each is two actions, `SubmitBegin`/`SubmitCommit`,
`DecideBegin`/`DecideCommit`, `ConsumeBegin`/`ConsumeCommit`, `CancelBegin`/`CancelCommit`, with
what was read kept in `task[h]`; `Attach`, `Verified` and `Settle` are the steps of
`reconcileFinancial`, and `Abandon` is any early return or failure between the two. A commit's
guard is the WHERE clause (`Undecided`, `Claimable`, `Cancellable`) together with the triggers
that can abort it (`Admits` for `financial_reserve`, the claim trigger inside `Claimable`,
`Protected` for the retention trigger), evaluated when the write happens; its primed variables
are the columns the statement and the coupling triggers write. `SetPolicy`, `Prune` and `Request` are
the policy route, the daily job and the choice of a route; `Mine` and `Tick` are the chain and
the clocks. Triggers read the database's clock `now`, handlers a Worker's clock `WorkerClock`
within `Skew` of it. Amounts are natural numbers, and SQL's SUM is the constant `Total`, of which
only additivity and monotonicity are assumed. Event tables, evidence columns and read-only
routes are left out.

### QuorumProposals

Records and lock are two keys, each written atomically, each with the time it lapses. A read may
miss what was written less than `Lag` ago: `olderRecs` and `olderLocks` keep what each write has
replaced for that long (`PutRec`, `PutLock`, `StillRead`), and a read returns any of these or the
current value (`ReadOf`; a lock is seen for sure only if every read finds it, `Locked`). Nothing
orders the reads of one request, so that its second look may find less than its first.
`Propose`, `VoteBegin`/`VoteCommit`, `GateVerify` and `GateProxy` (the two gates differ in what
they compare), `ConsumeRead`, `ConsumeCheck`, `PutLock`, `PutRecord` (sent together, so in either
order), `Use`, and `Abandon` for every failure. A vote's new record is computed when it reads and
written later, as the code does. `TimeToLive` is the code's rounding down to whole seconds and
clamping. `uses`, `firstUse`, `voters` and `late` are history; `late` is a request that began when
every read could see the first use.

### ApiKeyQuota

`Begin` takes the month, `Lookup` reads the row, `Charge` is the conditional UPDATE with its CASE
(`UsageAfter`) and WHERE (`Chargeable`, `WithinQuota`), `Refuse` the classification of a failed
UPDATE, `End` the reply or any failure; `Generate`, `Revoke`, `NextMonth`. `strays` counts charges
that moved the row to an earlier month.

### EdgeCircuitBreaker

One action per await of `evaluateEdgeCircuitBreaker`: `Begin`, `ReadTrip`, `ReadEpoch`,
`ReadBudget`, `ReadCalls`, then `PutTrip`, or `PutCalls` and `PutBudget` in either order and
`Pass`; `ResetBegin`, `ResetTrip` and `ResetEpoch` for the reset; `End` for the reply to a reset and for
every failure, at any point. A list of timestamps is a set of numbered stamps. Sessions share no
key, so there is one; its requests carry one set of limits. `counted`, `setBack`, `passed`,
`overlapped`, `old`, `fresh`, `strayed`, `lastReset` and `begun` are history and appear in no guard
except the bounds on `begun` and, for two resets in one millisecond, `lastReset`.

### VerificationKernel and SignedDelegation

The kernel has no state: one operator per rule of `policies.ts`, named as there, each yielding
PASS, REVIEW or FAIL, then `evaluatePolicies`, `aggregateDecision` and `verifyAction`. Absent
optional fields are `NoLimit`, `AnyCurrency`, every target, the empty set or FALSE, as the rules
treat them. `verifyDelegationGrant` is a conjunction of the checks of `grants.ts` in their order:
`SignatureVerifies`, `InForce`, `AudienceMatches`, `Bound`. A token's `by` is the key that made its
signature; `Altered` changes the authority and so has no such key.

`SignedDelegation` is the system around it. `mintDelegationGrant` and `SignElsewhere` sign by the
principal's clock, `Redeploy` changes keys or mode, `Send` presents any signed or altered grant
beside any intent, `Screen` fixes the deployment the request runs under and the outcome of the
screens (the concurrent awaits of `executeVerificationPipeline`), `Decide` is `verifyAction` by the
service's clock, `Spend` the consumption of a proposal after an ALLOW, `Execute` the guard of the
SDK's `authorize` and of the MCP proxy's strict mode, by the guard's clock. A call is `timed` or
not: the MCP proxy gives up after its timeout, `authorize` only if its caller passes a signal.
`Abandon` is every refusal, failure and lost answer. `born`, `retired` and `run` are history: the
service's time of a signing, of a key's last removal and of an execution.

### WorkerDeploy and ApprovedDeployments

`run[x]` is one call of the executor, and its `step` the await it is in: `Start` is the gateway's
admission under its `busy` flag (or a call from `worker-cli.ts`, host `Direct`), `ReadBody` and
`LoadGrant` its way to the executor, `Refused`, `SendClaim` and `AuthorizationFails` the answers of
the verification service and of the local check of the attestation, `SendPost` the won claim with
the second look at the grant's expiry, `Acknowledged`, `Confirmed` and `Unconfirmed` the answers of
the cloud, with the history lookup between them. `Crash` ends a process, and with it its flag.
What a run has sent is in `claims` and `posts`, and both outlive the run: `Consume` and
`CloudDeploys` may happen after it has given up or died, `RefuseClaim` and `CloudDrops` stand for
loss and refusal. The queue is the module `ReviewLifecycle` itself (`ApproveReview`, `QueueStep`),
which `FinancialReviews` is proved to implement; `token` is the expiry written into the attestation
that the agent holds, which no later change of the queue takes back. `winner` is history: who used
an approval. `ApprovedDeployments` knows neither runs in progress nor messages: an approval is
spent, and then deployed at most once.

### McpToolProxy

A call's `stage` is the await it is in: `NotServed`, `ListTools`, `CallTool` are what one POST comes to
before the first wait, `Detect` the synchronous stretch of `checkLocalCircuitBreaker` after the hash
(`Within` is the filter of the history, `Alike` the count), `LoadGrant`, `Judge` and `Decide` the grant,
the service's judgement and the checks on its answer, `Execute`, `UpstreamAnswers` and `UpstreamFails` the
upstream server, which performs what it was sent whether or not the proxy still waits. An answer of
the service may reach the wrong call (`Decide(c, d)`): a lenient proxy takes its decision, a strict
one asks that the receipt prove this call (`Proves`). `Start` is `normalizeOptions`, embedded or from the
command line, and `Crash` takes the history and every open call.

### SanctionsScreening

One request and the denylist that grows under it. `BeginScreening` remembers what was listed,
`FinishScreening` answers by any set of entries a read may have seen, with at most one lookup failing:
a candidate whose lookup fails is blocked (`CandidateBlocked`), an owner's is passed over
(`OwnersFound`). `evaluateSanctions50Rule` is a recursive function over the depth to which owners were
sent. The reference `BlockedBy` knows neither depth nor order: it is the least set with the listed
entities and whoever they own to the threshold. Shares are thousandths of a percent, so that the
rounding to hundredths shows.

### ChatCompletions

`Arrive` to `ModelAnswers` lead to the model's answer; then each tool call of it goes through
`InspectArguments`, `CheckLoop`, `ScreenCall` and, if sensitive, the quorum gate: `ReadProposal` or
`CreateProposal`, then `consumeQuorumProposal` await by await (`ClaimProposal` is its second look at the
record, `ReadLock`, and `WriteLock` and `WriteRecord` in either order). `Lose` is a failure or the end of
the Worker at any await. `BeginVote` and `EndVote` are a vote that writes over whatever the record has
become, `Expire` and `Bar` the passage of time and a new entry of the denylist. `approvals` and `spent`
are history.

### ActionCovenants

Client and service of each run. `Observe` and `Bootstrap` begin a run of the gated deployment;
`Activate`, `Authorize`, `Verify` and `Record` are the service's handlers, `Activated`, `Authorized`,
`Verified`, `Finish`, `Signalled` and `Recorded` the client's next step, and `GiveUp` any failure, after
which the service may still perform the call. `Clock(r)` is the client's clock; `observed`, `started`
and `finished` are read from it and judged by the service's. `Insert`, `InsertFails` and
`pruneAuditMetadata` are the audit rows, which are written after the answer.

### WalletMonitor

`Primary` and `Retry` are cron's, `Admit` the look at the policy, `Anchor` the choice of the last final
block and its hash, `ReadRange` one range of logs, `Confirm` the second look at the hash,
`StoreObservation` and `StoreFailure` the upsert of the row. `Grow` and `Reorganise` are the chain: once,
the blocks from `ForkPoint` on are replaced although they were reported as final. `written` is history.

### MCEnforcementPaths

The five modules above are parts that share nothing but the clock, each too small for a run of its
own. `MCEnforcementPaths` is their sum, not their product: `component` is chosen at the start and a
behaviour is one of that component, with the others' variables at their initial values. Every property
is therefore checked over all behaviours of its component.

## 3. Checks

| Run | Question | Result |
|---|---|---|
| `reviews_safety` | Do the tables agree, does the budget hold, are claims freed by evidence only and does retention spare what counts, when two financial reviews of a wallet, two requests, a changing policy, the chain and retention race? | holds |
| `reviews_lifecycle` | Does the queue implement `ReviewLifecycle`, for financial and ordinary reviews and Worker clocks off by one tick, and is unclaimed budget freed? | holds |
| `reviews_tx_reuse` | Can one transaction settle two reviews? | yes: see findings |
| `quorum_races` | Do racing votes and consumptions, over a store whose reads lag, keep records sound, uses endorsed, late replays refused, and closed proposals closed but for votes computed before? | holds |
| `quorum_single_use` | Is an approved proposal used at most once? | no: see findings |
| `key_quota` | Does the quota hold but for stray charges, is usage never invented, is revocation final? | holds |
| `key_monthly_quota` | Does the monthly quota hold exactly? | no: see findings |
| `circuit_breaker` | Are budget overruns bounded by the overlaps that cause them, repetitions caught, and resets effective? | holds |
| `signed_delegation` | With three clocks, altered grants, key rotation under a request in flight and every rule of the kernel: does an ALLOW rest on what was signed, do grants expire and are they honoured, does a retired key stop, is ALLOW monotone in the authority? | holds |
| `worker_deploy` | With two runs racing for one approval, lost and late messages, crashes and a grant that expires on the way: does the executor implement `ApprovedDeployments`, does it report what happened, does a refusal leave the approval, are requests timely, do gateways come free? | holds |
| `delegation_audience` | Is a grant for another deployment refused? | no: see findings |
| `enforcement_paths` | MCP proxy: is the loop bound kept, are answers honest and forwards vetted? Sanctions: are only the clean cleared and only the blocked refused? Chat proxy: are delivered answers vetted as a whole and approvals spent on their calls? Covenants: are executions authorized and outcomes recordable under clocks that disagree, is retention kept? Monitor: are observations true, and spared by retries? | holds |

`TypeOK` is an invariant of `reviews_safety`; for the other components the types are proved
(section 5) and not checked by a run.

### Bounds

* Reviews: two requests in flight suffice for every race the code has, since each commit is one
  atomic statement: a read by one, the write of another, the write of the first. Two reviews of
  amount 1 under daily limits 1 and 2 make the budget bind. `Retention = 2` and `MaxTime = 5` let a
  review be submitted, claimed, settled and pruned and another one live through it. The unit of
  time stands for the shortest of the code's periods; only their order matters to the guards.
* Quorum: three people (the proposer is on the list as well), two approvals required, two demands
  (one of them with distinct owners). A second is two ticks, so that rounding down loses a tick;
  `MaxTime = 6` exceeds a proposal's lifetime of 5, so records and locks lapse. A read may lag by
  one tick (`Lag`); of a record one overwritten value can be readable at a time (`MaxOlder`), that
  is, the run has no third value within the tick, while the theorems have any number and any delay.
  `MaxUses = 2` allows a second use to show itself. `quorum_single_use` has `Lag = 0`: its
  counterexample owes nothing to late reads.
* Keys: quota 2, three requests (two that fill the month and one left over from the month before),
  three months.
* Breaker: one repetition and two actions allowed, so that three evaluations exhaust either;
  lifetimes of 2 in a clock of 3, so that trip, calls, budget and epoch all lapse while an
  evaluation is in flight; two resets. `EpochTTL` is as long as the budget's, the least for which
  `ResetHolds` is true (see section 5).
* Delegation: calls share no state but what the operator deploys, so one call shows what any number
  does; it meets every signed grant, its altered copies, no grant, eight intents and four
  deployments (two key sets in mode required, an invalid mode, and a registry made unusable by a
  duplicate key id). Skew and drift are 1, so that they can just cancel; a grant lives 2, 3 or, too
  long, 4; with calls at 1 and 2 and a clock to 5, grants are met before their start, in force, in
  the tolerance and expired, and a key is removed before, during and after the request.
* Deploy: one approval and two runs, in one gateway or outside it, since the promise is about runs
  that share an approval and runs of different approvals share nothing but the flag. The plans are
  the approved one, another in the operator's scope and one outside. Timeouts, skew and token
  lifetime are 1 in a clock from 1 to 3: claims and requests arrive before and after their timeout,
  and grant and attestation expire before, during and after the claim.
* Enforcement paths, MCP proxy: two calls that may be identical, one repetition, a window of 1 in a
  clock that stops at 2 (`ShortTime`), so that a repetition is met at the window's edge and after it;
  one crash.
* Sanctions: three entities that may own each other in a circle, shares just below and just above
  what rounds to the threshold; owners sent to depth 0 or to the number of entities; two entries.
* Chat: two requests and one proposal, replies with one sensitive call, two identical ones, and a
  sensitive one before one with a secret.
* Covenants: one run, since runs share only the audit tables, row by row. Client clocks are off by 1
  and by 3, within and beyond the skew of 2; timeouts 1, lifetimes and retention 2, in a clock to 5. As
  deployed: timeout 10 s, skew 300 s, covenant and authorization 300 s, evidence 120 s; what matters of
  these, and is assumed, is `2 * Timeout <= Skew` and `DraftTTL <= Skew`.
* Wallet: two scans, ranges of two blocks and a lookback of three, so that a fork at block 2 falls
  between two ranges and inside one.
* `a1` and `a2` stand for calls, chats and scans, of which each component has two alike: they are
  symmetric.
* `LastSigning`, `MaxGrants`, `MaxDeploys`, `LastSubmit`, `LastProposal`, `LastCall`, `MaxCalls`, `MaxCharges`, `MaxUses`, `MaxOlder`, `MaxEntries`, `Crashes`, `ShortTime`, `LastBlock`,
  `MaxTime` and `MaxMonth` are bounds and appear only in guards.

Quorum, keys, breaker, delegation, deploy and the enforcement paths really stop (the clock ends, ids are used up), so their runs
do not look for deadlock.

### Fairness

`UnclaimedHoldsLapse` needs fairness of the clock only: `WF(Tick)`. Requests need not
arrive, finish or be retried, and the integration need not claim; the property says that budget
comes back nevertheless. `Tick` stays enabled until `MaxTime`, which leaves every lifetime time to
pass. `GatewaysFreed` needs `WF(RunStep(x))`: a run that has been admitted takes its next step. Every
await of a run ends by itself: verification and claim after 10 s and the cloud after 15 s by an
AbortSignal (`worker-version.ts:157`, `:166`, `:175`), the request's body after 45 s by the socket's
timeout (`worker-gateway.ts:80`), and `loadGrant` reads a file. Nothing is assumed of the queue, the
cloud, the clock or the messages.

## 4. Findings

1. `reviews/financial.ts:120` promises that a "globally unique hash prevent[s] cross-review reuse".
   The column is unique among rows that exist. Retention removes a settled review and its hash; a
   review of the same action claimed before that transaction was mined, and never pruned because
   it is still claimed, can then attach the same hash and be settled (`reviews_tx_reuse`).
2. `core/quorum.ts:254` and `proxy/index.ts:747` promise single use of an approved proposal. The
   lock is read and then written: two overlapping requests both pass (`quorum_single_use`). What
   does hold is `ReplayBounded`: a request that begins once every read sees a use is refused, up to
   one second.
3. `auth/keys.ts:156` and `tests/api-keys.test.ts:346` promise a quota that concurrency cannot
   exceed. A request that takes its month before midnight and is charged after the row has moved to
   the new month moves it back and the count restarts (`key_monthly_quota`). What does hold is the
   quota plus one quota for every such request.
4. `docs/DELEGATION_GRANTS.md:145` documents `GRANT_AUDIENCE_MISMATCH` for a grant whose "`aud` is set
   and is not this deployment". The check needs the audience its caller expects, and no caller in
   `src/src` passes one (`ExpectedAudience`), so a grant addressed elsewhere is accepted wherever the
   principal's key is registered (`delegation_audience`).

Also visible, though no document says otherwise: with `cool_off_seconds` above 43200 a budget's
lifetime exceeds that of the reset's epoch, so that a day after a reset the session falls back to
epoch "0" and may find its exhausted budget again; and an evaluation begun before a reset can
store its trip after it.

Met on the way in the later modules, each visible in a definition, none contradicted by a property:

* A failed lookup blocks a candidate and passes over an owner: `core/sanctions.ts:273` speaks of
  failing closed, the 50 percent rule does not (`OwnersFound`; hence `errors = {}` in
  `ClearedSafely`). `Rounded` can lift 49.996 percent to the threshold.
* `addCustomSanctionsEntry` tells domains from IBANs in another order than the extraction of candidates,
  so that an entry added without a type may be stored under one it is not looked up by.
* The MCP proxy's README offers the loop detector, but its command line never configures one
  (`loadConfig`).
* In the chat proxy an approval is spent before the rest of the answer is inspected: when a later call
  is refused, the approval is lost (`ApprovalsAccounted` says exactly when). A request that finds its
  proposal changed between two reads, by a vote, is told `PROPOSAL_ALREADY_CONSUMED`.
* A deployment whose `wrangler` is killed by a signal leaves no outcome (`Signalled`), though it may have
  deployed.
* `accepted_at` and `finished_at` are the client's dates and decide when their rows are deleted;
  `RetentionKept` gives the skew away for them.
* A retry that fails replaces by FAILED an observation stored after it looked
  (`RetrySparesObservation` excepts it).

## 5. Proofs

All theorems are checked by TLAPS; none assumes anything but the named ASSUMEs of the modules and
what the theorem itself states.

* `FinancialReviewsProofs`. `TypeCorrect`, and `TablesAlwaysAgree`, whose invariant is inductive
  with the types: `RowAgrees` relates the columns of a review, `TaskAgrees` relates what a request
  read to what is there. `BudgetHolds` is proved from `ExposureWithinLimit` together with the fact
  that the recorded peak covers the present policy: a reservation is admitted against the policy
  of the moment, and every other step only lets amounts leave `Live`. That a settled reservation
  is never re-admitted by the clock needs `TablesAgree`. `AdmissionsFollowPolicy`,
  `ClaimsNeedEvidence` and `PruningIsSafe` are action properties under the same invariants.
  `QueueImplementsLifecycle` maps initial states to initial states and every step to a step of
  `ReviewLifecycle` or a stutter. Assumptions: `ReviewAssumption`, `SettingsAssumption`,
  `TotalAssumption` (what a sum does), `TimeAssumption` (a settled spend stops counting before
  retention may delete it, 1 day against 7, and requests live at most that long).
* `QuorumProposalsProofs`, for every delay `Lag` of the store's reads. `TypeCorrect`; `RecordsAlwaysSound`
  and `UsesAlwaysEndorsed` from `SoundInv`, which extends soundness to every version a read may return
  and to the records requests are about to write (what is read is a version, `ReadIsVersion`, and what
  is written adds only itself to them, `PutRecAddsOne`), and from `VotersFinite`: the history of voters
  is finite and covers them. `LateReplayBounded` from `LockInv`, which says that a used proposal's lock
  lasts, up to a second, as long as any record a read may return or a request in flight holds; a lock
  that lasts less long was overwritten no later than the first use (`OlderLocksLast`), so no read `Lag`
  after that use returns it. `ClosedStaysClosed` needs no invariant but the types: that every read,
  and every write still to come, finds or leaves the proposal closed is inductive (`ClosedStep`),
  uses in flight included, since they write CONSUMED. What it leaves open is a vote computed before
  the closing: that one does reopen the proposal, and only the lock then stops a replay. Assumption:
  `QuorumAssumption`, of which the lock needs that a second is no more than the store's minimal time
  to live.
* `ApiKeyQuotaProofs`. `TypeCorrect`; `QuotaHoldsButForStrays` from: what the row's present month
  let through is at most what is counted plus a quota per stray; a month the row has yet to reach
  owes only to strays, and one it has left had one full quota more; `UsageNeverPhantom`; `RevocationAlwaysHolds`.
* `EdgeCircuitBreakerProofs`. `TypeCorrect`; `BudgetHoldsButForOverlaps` from
  `counted <= budget + Actions * setBack`; `ResetAlwaysHolds`, under the condition
  `EpochTTL >= BudgetTTL`, from three facts: a reset in flight holds an epoch that nothing uses
  (`EpochInv`), no budget lasts longer than its lifetime from now (`LapseInv`), and every budget a
  request begun after the reset can find is covered by charges made since, or lapses before the
  epoch does (`FreshInv`). The code's lifetimes meet the condition when `cool_off_seconds <= 43200`.
  `LoopsAlwaysCaught` from `LoopInv`, which holds until evaluations overlap or one outlasts the
  window: a call let through is in the store for two windows from its time (`KeptLong`), or is older
  than the window of whoever looks (`Kept`), so that the list an evaluation is about to record has every
  call of its window (`Recorded`). Lists lapse, and that is where two windows of lifetime are needed.
* `SignedDelegationProofs`. Lemmas about the kernel: what each rule can answer, that the decision is
  ALLOW exactly when every rule passes, and what that says of the request (`AllowPermits`). The
  invariant `IInv` strengthens the types by: a signed grant names the id of the key that made it
  and times within the drift (`Genuine`); what a request carries was signed or altered (`Carried`); a verdict is
  what the kernel says of the request under its deployment at its time (`Judged`); what was run met
  the guard (`Ran`); and a request's deployment is in force or its keys are remembered as retired
  since it was sent (`Remembered`), which `RetiredKeysStop` needs for guards with a timeout (those
  without are bounded by the expiry they check). From it follow `AllowedActionsAreDelegated`,
  `GrantsAlwaysExpire`, `GenuineGrantsAreHonoured`, `RetiredKeysAlwaysStop` and, with the lemmas
  alone, `AllowIsAlwaysMonotone`. Assumptions: `KernelAssumption`, `DelegationAssumption`
  (among them that the operator registers a key under the principal who holds it) and
  `NoGrantAssumption`.

* `WorkerDeployProofs`. The invariant `IInv` follows an approval from hand to hand: a claim under way
  was sent for the plan the review is about (`ClaimsAreAttested`), the run that used an approval sent
  that claim and is not before its answer (`WinnersClaimed`), whoever has a request or a deployment
  is such a run and has not reported "not performed" (`PostsWon`, `DeploymentsWon`), and has only
  one of them (`OneRequest`). `ExecutorImplementsLedger` is the refinement: `Consume` is `Spend`,
  `CloudDeploys` is `Deploy`, everything else a stutter. `ReportsAreHonest`, `RefusalsLeaveApproval`
  and `RequestsTimely` follow from the same invariant, and so does `OneAttemptPerApproval`, the pilot
  document's at-most-one attempt: no two requests or deployments for one approval, the late ones and
  those carried out taken together. Assumption: `DeployAssumption`.

* `GatewayProofs`, `McpToolProxy`. `TypeCorrect`; `AnswersAreHonest` and `ForwardsAreVetted` from `ForwardInv`, which
  ties the time a call was handed over to its stage: only a call that is forwarding or done has one,
  and it was written on the verdict that is still there. `LoopsAreBounded` from `LoopInv`: whatever passed
  the detector within the last window is in its history, so that the filtered history counts every
  repetition of the window that ends now; a window that began earlier got no more. Assumption:
  `McpAssumption`, and that there is a signature at all.
* `GatewayProofs`, `ChatCompletions`. `ChatInv` follows an answer through its stages. `Claims` says what each
  stage has made sure of the call it inspects: no secret, then no listed name, then that the
  proposal supplied exists, is for this call and was approved by votes. `PassedInv` says the same of every
  call let pass, and that there is at most one sensitive one: its proposal's lock is
  taken by then, so a second would find it. `StoresInv` says that an approved record was approved by
  its votes, which a vote that writes over it late keeps. `SpentInv` places the call that an approval was spent on.
  `DeliveriesAreVetted` and `ApprovalsAreAccounted` follow, with `ChatTypeCorrect`. Assumption:
  `ChatAssumption`.
* `GatewayProofs`, `SanctionsScreening`. `ScreeningInv` says that an answer is the right one for some set of
  entries between those at the start and those there are. What remains is a fact about the two
  definitions of the 50 percent rule, for any finite graph of owners: the code's recursion by depth and
  the least set `BlockedBy`. A recursive function is taken as a `Chain` of sets, each the `Deemed` of the one
  before; that one exists, that it grows (`ChainGrows`) and that it stops within as many steps as there are
  entities (`ChainStops`, by cardinality) are inductions over the depth, each made by hand from
  the least counterexample (`LeastOf`, from the well-foundedness of `<`). That more owners
  hold no less (`TotalsGrow`) needs the sum of the community modules' fold, which is matched with
  a monotone sum that is shown to exist set by set (`SumsExist`). So the end of a chain to full depth is closed
  under ownership up to the rounding, hence contains `BlockedBy` (`RuleMissesNoOne`), and every chain stays
  inside each closed set (`RuleBlocksRightly`). `RuleIsLeastFixedPoint` says the same without the rounding: to full depth the code
  computes exactly the least fixed point of its own rounded sums. `ClearancesAreSafe` and `BlocksAreRight` follow, with
  `ScreeningTypeCorrect`. Assumption: `ScreeningAssumption`, that entities are finitely many among it.
* `EvidenceProofs`, `ActionCovenants`. The invariant follows one run; that the steps of one run leave the others
  alone is a lemma (`StepsAreLocal`). `StepInv` says what there can be at each step of the client,
  `RequestInv` what a call on its way is about, `MadeInv` what an authorization and a started run
  promise (`Issued`, `Started`), and `RowsInv` that rows are about something made. The argument that
  matters is `OutcomesAreTimely`: an ALLOW is given for an observation that is not in the service's
  future, so a client that got one is ahead by at most the two waits before it; it is given
  within the covenant's term, so the client is behind by less than that term. Both are at most the
  allowed skew, hence no outcome is refused. `ExecutionsAlwaysAuthorized`, `OutcomesAlwaysRecordable`
  and `RetentionAlwaysKept` follow, with `TypeCorrect`. Assumption: `CovenantAssumption`; the offsets
  are any integers.

* `EvidenceProofs`, `WalletMonitor`. `MonitorInv` follows one scan, whatever the others and the chain do: while its
  anchor is on the chain there is, what it has added up is what that chain had sent in the blocks it has
  read (`Reading`); once it has found the anchor again after the last range, what it will store is true of
  one history for good (`Settled`). A range read from a chain that was replaced under the scan may be wrong, and then the
  anchor is not found again, since the replaced blocks do not come back. `Excused` is what a retry saw when it
  looked. `ObservationsAreTrue` and `RetriesSpareObservations` follow, with `MonitorTypeCorrect`. Assumptions:
  `MonitorAssumption`, and `ChainAssumption` on the blocks' contents: `Sent[f][b]` is what the wallet has sent before
  block `b` of history `f`, which never falls and is the same on every history up to the fork.

Only model-checked: `UnclaimedHoldsLapse` and `GatewaysFreed`, since liveness under fairness is out of the
prover's reach. Every other property of a passing run is stated by a theorem. The four refuted properties
are TLC's counterexamples.

## 6. Abstractions, and what is not modelled

* Workers KV is eventually consistent. For dual control a read may lag behind by any given delay,
  after which it sees a write; the platform promises no bound, and beyond the delay nothing is said. The
  breaker, the chat proxy's view of proposals and the sanctions' denylist are still read as they are: across
  locations the breaker counts less, and the chat proxy may find a lock late, which is the case that
  `QuorumProposals` has with either gate.
* A statement or batch of D1 is atomic with its triggers. Cryptography, OFAC data and RPC answers
  are inputs; a refusal by any of them is an early return.
* Milliseconds, seconds, days and months are ticks of one clock per store, with a skew where the
  code mixes two clocks.
* In-memory storage of standalone mode, inline approvals and mismatches of the action's hash
  (quorum), per-request limits that differ within a session (breaker), list and read routes.
* Delegation: a signature verifies under the key that made it and no other. Authorities are compared
  as values; the code compares their canonical text, in which the order of a list counts. Seconds
  and milliseconds are one unit. The risk score, receipt hashes and custom policies (no caller
  passes any) are left out; breaker, sanctions, data-loss screen and quorum are one set of
  objections.
* Deploy: the cloud carries out a request at most once, and an approval is about one plan.
  Verification by the service is an input (its rules are the kernel's); a rollback at the cloud, the gateway's
  authentication are left out.
* MCP proxy: the checks of a POST before the allowlist are one refusal; of a receipt, only whether it
  proves this call under a grant in force. Discovery and unsupported methods keep no state.
* Sanctions: normalisation and type detection are inputs (`ScreenedAs`); equal names in one list of
  shareholders are one holder; the caller's ownership graph is believed, as the code believes it.
* Chat: the loop detector and the screening are one step each with any result; KV is configured and a
  lock does not lapse (it does in `QuorumProposals`). Streamed answers, text and the legacy
  `function_call` are not inspected by the code either.
* Covenants: one evidence requirement and one invalidation rule, as the gated deployment asks for;
  hashes match, since the client sends back what it was given. Verification rows and the counters of
  anonymous calls depend on nothing.
* Wallet: the length of the scanned range is a constant; retried RPC calls and malformed logs are
  `ScanFails`.
* Not modelled: data-loss matching and input limits (regular expressions and counting over text, no
  state), the Worker's MCP and A2A endpoints (stateless adapters over the kernel), the Python SDK (a
  client whose only state is a local loop detector without awaits), consoles, playground and discovery
  documents (static text).

## 7. State of the plan

Done: the review queue and its abstract lifecycle, quorum, keys, breaker, the verification kernel and
signed delegation with the pipeline's order, gated deploy over the abstract queue, the MCP proxy,
sanctions with the ownership rule, the chat proxy, covenants with their client and audit rows, and the
wallet monitor.

What would come next, in this order:

1. The composition of the HTTP pipeline with breaker and quorum as they are, in place of the one
   set of objections in `SignedDelegation` and the single steps in `ChatCompletions`.
2. KV reads that return an older value for the breaker too, as dual control has them: repetitions and
   resets become visible later by the delay, and the budget's overlaps include the writes a read missed.
3. Theorems that carry over what is proved of the parts to those compositions.
