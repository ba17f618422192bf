-------------------------- MODULE ActionCovenants --------------------------
(***************************************************************************)
(* Action covenants (src/src/covenants/lifecycle.ts and its handlers in    *)
(* transport/http.ts), as used by the gated deployment                     *)
(* (packages/gated-deploy/src/index.ts) through the SDK, and the audit     *)
(* rows that are kept of them (storage/audit.ts).                          *)
(*                                                                         *)
(* A run observes a commit, has a covenant on it activated, asks for the   *)
(* authorization, deploys, and has the outcome recorded.  The client and   *)
(* the service have clocks of their own; a call is given up after a while, *)
(* and the service may still perform it.  The rows are written after the   *)
(* answer, or never, and deleted by their own dates.                       *)
(***************************************************************************)
EXTENDS ServiceClock, FiniteSets

CONSTANTS
  Runs,        \* runs of the gated deployment
  Offsets,     \* by how much a client's clock can be ahead of the service's
  Timeout,     \* how long the client waits for an answer
  DraftTTL,    \* COVENANT_TTL_MS
  AuthTTL,     \* DEFAULT_AUTHORIZATION_TTL_SECONDS
  EvidenceAge, \* max_age_seconds of the one evidence requirement
  Skew,        \* DEFAULT_CLOCK_SKEW_MS
  Retention    \* AUDIT_RETENTION_DAYS

\* As deployed: 10 s, 300 s, 300 s, 120 s, 300 s.
ASSUME CovenantAssumption ==
  /\ Offsets \subseteq Int
  /\ {Timeout, DraftTTL, AuthTTL, EvidenceAge, Skew, Retention} \subseteq Nat
  /\ DraftTTL <= Skew
  /\ 2 * Timeout <= Skew

VARIABLES
  run,           \* the client's side of each run
  request,       \* the call of each run on its way to the service
  covenant,      \* the service's side: what it made of each call
  authorization,
  outcome,
  inserts,       \* rows the service has still to write
  rows           \* the audit rows: pairs of a kind and a run

covenantVars == <<run, request, covenant, authorization, outcome, inserts, rows>>

Kinds == {"covenant", "authorization", "outcome"}

Results ==
  {"none", "error", "signalled", "stopped", "deployed", "failed", "outcome_unrecorded"}

CovenantTypeOK ==
  /\ run \in [Runs ->
       [step : {"idle", "activating", "authorizing", "verifying", "executing", "recording",
                "ended"},
        offset : Offsets \cup {0}, dirty : BOOLEAN, observed : Int, since : Int,
        ran : BOOLEAN, started : Int, finished : Int, exit : {0, 1}, result : Results]]
  /\ request \in [Runs -> {"none", "activate", "authorize", "verify", "record"}]
  /\ covenant \in [Runs -> [state : {"none", "refused", "made"}, at : Int]]
  /\ authorization \in [Runs ->
       [state : {"none", "made"}, at : Int, decision : {"ALLOW", "REVIEW", "BLOCK"},
        expires : Int]]
  /\ outcome \in [Runs -> [state : {"none", "refused", "made"}, at : Int]]
  /\ inserts \subseteq Kinds \X Runs
  /\ rows \subseteq Kinds \X Runs

CovenantInit ==
  /\ run = [r \in Runs |->
       [step |-> "idle", offset |-> 0, dirty |-> FALSE, observed |-> 0, since |-> 0,
        ran |-> FALSE, started |-> 0, finished |-> 0, exit |-> 0, result |-> "none"]]
  /\ request = [r \in Runs |-> "none"]
  /\ covenant = [r \in Runs |-> [state |-> "none", at |-> 0]]
  /\ authorization = [r \in Runs |->
       [state |-> "none", at |-> 0, decision |-> "BLOCK", expires |-> 0]]
  /\ outcome = [r \in Runs |-> [state |-> "none", at |-> 0]]
  /\ inserts = {} /\ rows = {}

Clock(r) == now + run[r].offset

Expires(r) == run[r].observed + DraftTTL

\* The client still waits for the answer of the call it made.
Waits(r, step) == run[r].step = step /\ now <= run[r].since + Timeout

RunEnds(r, result) == run' = [run EXCEPT ![r].step = "ended", ![r].result = result]

ServiceUnchanged == UNCHANGED <<covenant, authorization, outcome, inserts, rows>>

\* The service has dealt with r's call.
Answered(r) == request' = [request EXCEPT ![r] = "none"]

---------------------------------------------------------------------------
(* The service.                                                            *)

\* The principal and the hash are the draft's own.
Activate(r) ==
  LET valid == run[r].observed <= now + Skew /\ Expires(r) > now IN
  /\ request[r] = "activate"
  /\ Answered(r)
  /\ covenant' = [covenant EXCEPT ![r] =
       [state |-> IF valid THEN "made" ELSE "refused", at |-> now]]
  /\ inserts' = IF valid THEN inserts \cup {<<"covenant", r>>} ELSE inserts
  /\ UNCHANGED <<run, authorization, outcome, rows>>

\* Mutant: the signals are not looked at.
InvalidatedNever(r) == FALSE

Invalidated(r) == run[r].dirty

\* permitted: the kernel's own policies have no objection (VerificationKernel).
Decision(r, permitted) ==
  IF Expires(r) <= now \/ Invalidated(r) \/ ~permitted THEN "BLOCK"
  ELSE IF run[r].observed \in (now - EvidenceAge)..now THEN "ALLOW"
  ELSE "REVIEW"

Authorize(r, permitted) ==
  /\ request[r] = "authorize"
  /\ Answered(r)
  /\ authorization' = [authorization EXCEPT ![r] =
       [state |-> "made", at |-> now, decision |-> Decision(r, permitted),
        expires |-> IF Expires(r) < now + AuthTTL THEN Expires(r) ELSE now + AuthTTL]]
  /\ inserts' = inserts \cup {<<"authorization", r>>}
  /\ UNCHANGED <<run, covenant, outcome, rows>>

\* Mutant: no allowance for the clocks.
OutcomeTimelyStrict(r) ==
  /\ run[r].started >= authorization[r].at
  /\ run[r].started <= authorization[r].expires
  /\ run[r].finished <= now

\* The action started under the authorization, and has ended.
OutcomeTimely(r) ==
  /\ run[r].started >= authorization[r].at - Skew
  /\ run[r].started <= authorization[r].expires
  /\ run[r].finished <= now + Skew

Record(r) ==
  LET valid == authorization[r].decision = "ALLOW" /\ OutcomeTimely(r) IN
  /\ request[r] = "record"
  /\ Answered(r)
  /\ outcome' = [outcome EXCEPT ![r] = [state |-> IF valid THEN "made" ELSE "refused", at |-> now]]
  /\ inserts' = IF valid THEN inserts \cup {<<"outcome", r>>} ELSE inserts
  /\ UNCHANGED <<run, covenant, authorization, rows>>

\* The bootstrap run asks for a verification instead (VerificationKernel).
Verify(r, permitted) ==
  /\ request[r] = "verify"
  /\ Answered(r)
  /\ authorization' = [authorization EXCEPT ![r].state = "made", ![r].at = now,
                          ![r].decision = IF permitted THEN "ALLOW" ELSE "BLOCK"]
  /\ UNCHANGED <<run, covenant, outcome, inserts, rows>>

---------------------------------------------------------------------------
(* The audit rows.                                                         *)

Insert(row) ==
  /\ row \in inserts
  /\ inserts' = inserts \ {row}
  /\ rows' = rows \cup {row}
  /\ UNCHANGED <<run, request, covenant, authorization, outcome>>

\* A failed insertion is logged, and that is all.
InsertFails(row) ==
  /\ row \in inserts
  /\ inserts' = inserts \ {row}
  /\ UNCHANGED <<run, request, covenant, authorization, outcome, rows>>

\* Mutant: authorizations go with their covenants.
DateOfParent(row) ==
  LET r == row[2] IN
  IF row[1] = "outcome" THEN run[r].finished ELSE run[r].observed

\* accepted_at, issued_at, finished_at: the first and the last are the client's.
DateOf(row) ==
  LET r == row[2] IN
  CASE row[1] = "covenant" -> run[r].observed
    [] row[1] = "authorization" -> authorization[r].at
    [] row[1] = "outcome" -> run[r].finished

pruneAuditMetadata ==
  /\ rows' = {row \in rows : DateOf(row) >= now - Retention}
  /\ UNCHANGED <<run, request, covenant, authorization, outcome, inserts>>

---------------------------------------------------------------------------
(* The client.                                                             *)

CallsService(r, step, kind) ==
  /\ run' = [run EXCEPT ![r].step = step, ![r].since = now]
  /\ request' = [request EXCEPT ![r] = kind]

Observe(r, offset, dirty) ==
  /\ run[r].step = "idle"
  /\ run' = [run EXCEPT ![r].step = "activating", ![r].since = now, ![r].offset = offset,
                        ![r].dirty = dirty, ![r].observed = now + offset]
  /\ request' = [request EXCEPT ![r] = "activate"]
  /\ ServiceUnchanged

\* A bootstrap run refuses a dirty worktree itself.
Bootstrap(r, offset, dirty) ==
  /\ run[r].step = "idle"
  /\ IF dirty
     THEN RunEnds(r, "error") /\ UNCHANGED request
     ELSE /\ run' = [run EXCEPT ![r].step = "verifying", ![r].since = now, ![r].offset = offset,
                                ![r].observed = now + offset]
          /\ request' = [request EXCEPT ![r] = "verify"]
  /\ ServiceUnchanged

Activated(r) ==
  /\ Waits(r, "activating")
  /\ covenant[r].state = "made"
  /\ CallsService(r, "authorizing", "authorize")
  /\ ServiceUnchanged

Deploys(r) ==
  run' = [run EXCEPT ![r].step = "executing", ![r].ran = TRUE, ![r].started = Clock(r)]

\* The SDK takes an ALLOW only while it has not expired by the client's clock.
Authorized(r) ==
  /\ Waits(r, "authorizing")
  /\ authorization[r].state = "made"
  /\ IF authorization[r].decision # "ALLOW" THEN RunEnds(r, "stopped")
     ELSE IF authorization[r].expires <= Clock(r) THEN RunEnds(r, "error")
     ELSE Deploys(r)
  /\ UNCHANGED request
  /\ ServiceUnchanged

Verified(r) ==
  /\ Waits(r, "verifying")
  /\ authorization[r].state = "made"
  /\ IF authorization[r].decision # "ALLOW" THEN RunEnds(r, "stopped") ELSE Deploys(r)
  /\ UNCHANGED request
  /\ ServiceUnchanged

ExitResult(exit) == IF exit = 0 THEN "deployed" ELSE "failed"

Covenanted(r) == covenant[r].state = "made"

\* The deployment ends; only a run under a covenant reports its outcome.
Finish(r, exit) ==
  /\ run[r].step = "executing"
  /\ IF Covenanted(r)
     THEN /\ run' = [run EXCEPT ![r].step = "recording", ![r].finished = Clock(r),
                                ![r].since = now, ![r].exit = exit]
          /\ request' = [request EXCEPT ![r] = "record"]
     ELSE RunEnds(r, ExitResult(exit)) /\ UNCHANGED request
  /\ ServiceUnchanged

\* wrangler is killed by a signal: the run fails without a record.
Signalled(r) ==
  /\ run[r].step = "executing"
  /\ RunEnds(r, "signalled")
  /\ UNCHANGED request
  /\ ServiceUnchanged

Recorded(r) ==
  /\ Waits(r, "recording")
  /\ outcome[r].state = "made"
  /\ RunEnds(r, ExitResult(run[r].exit))
  /\ UNCHANGED request
  /\ ServiceUnchanged

\* The call is refused, fails or takes too long.  The service may yet perform it.
GiveUp(r) ==
  /\ run[r].step \in {"activating", "authorizing", "verifying", "recording"}
  /\ RunEnds(r, IF run[r].step = "recording" THEN "outcome_unrecorded" ELSE "error")
  /\ \/ UNCHANGED request
     \/ Answered(r)
  /\ ServiceUnchanged

---------------------------------------------------------------------------

ServiceStep(r) ==
  \/ Activate(r)
  \/ \E permitted \in BOOLEAN : Authorize(r, permitted)
  \/ \E permitted \in BOOLEAN : Verify(r, permitted)
  \/ Record(r)

ClientStep(r) ==
  \/ \E offset \in Offsets, dirty \in BOOLEAN : Observe(r, offset, dirty)
  \/ \E offset \in Offsets, dirty \in BOOLEAN : Bootstrap(r, offset, dirty)
  \/ Activated(r)
  \/ Authorized(r)
  \/ Verified(r)
  \/ \E exit \in {0, 1} : Finish(r, exit)
  \/ Signalled(r)
  \/ Recorded(r)
  \/ GiveUp(r)

AuditStep ==
  \/ \E row \in inserts : Insert(row)
  \/ \E row \in inserts : InsertFails(row)
  \/ pruneAuditMetadata

CovenantStep ==
  \/ \E r \in Runs : ServiceStep(r)
  \/ \E r \in Runs : ClientStep(r)
  \/ AuditStep

CovenantNext ==
  \/ CovenantStep /\ UNCHANGED now
  \/ Advance /\ UNCHANGED covenantVars

CovenantSpec == CovenantInit /\ ClockInit /\ [][CovenantNext]_<<now, covenantVars>>

---------------------------------------------------------------------------
(* Properties.                                                             *)

\* A deployment under a covenant runs only on an ALLOW given for a clean worktree that was
\* observed no longer ago than the evidence may be old, and starts before the covenant
\* expires, in real time: whatever the client's clock shows, less than DraftTTL after the
\* observation.  A run that says it stopped, or failed but for a signal, never started one;
\* one that says its outcome is known had it recorded.
ExecutionsAuthorized ==
  \A r \in Runs :
    /\ Covenanted(r) /\ run[r].ran =>
         /\ authorization[r].decision = "ALLOW" /\ ~run[r].dirty
         /\ run[r].observed \in (authorization[r].at - EvidenceAge)..authorization[r].at
         /\ run[r].started - run[r].observed < DraftTTL
    /\ run[r].result \in {"stopped", "error"} => ~run[r].ran
    /\ Covenanted(r) /\ run[r].result \in {"deployed", "failed"} => outcome[r].state = "made"

\* Whatever the offset between the clocks, the service never refuses the outcome of a
\* deployment it authorized: clocks too far apart end a run before it deploys anything.
OutcomesRecordable == \A r \in Runs : outcome[r].state # "refused"

\* When the service made what a row is about.
Made(row) ==
  IF row[1] = "covenant" THEN covenant[row[2]].at ELSE authorization[row[2]].at

\* No row is deleted early: what an authorization row is about is older than the retention
\* when it goes, and what the other rows are about, which have the client's dates, is by at
\* most the allowed skew younger.
RetentionKept ==
  [][\A row \in rows \ rows' :
       Made(row) - (IF row[1] = "authorization" THEN 0 ELSE Skew) < now - Retention]_covenantVars
=============================================================================
