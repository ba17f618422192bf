------------------------- MODULE FinancialReviews -------------------------
(***************************************************************************)
(* The human review queue and its financial reservations: the handlers of  *)
(* src/src/reviews/api.ts and financial.ts over two SQLite tables, with    *)
(* the triggers of migrations 0006, 0007 and 0009 and the retention job of *)
(* scheduled.ts.                                                           *)
(*                                                                         *)
(* A handler reads the row once, awaits (the OFAC snapshot, a signature, a *)
(* chain of RPC calls), and then issues one conditional UPDATE or one      *)
(* batch.  What it read is held in `task`; every write re-evaluates its    *)
(* WHERE clause and its triggers against the tables as they then are.      *)
(*                                                                         *)
(* Two clocks are involved.  The triggers read unixepoch() on the database *)
(* (`now`); a handler reads Date.now() on its Worker, which may differ     *)
(* from the database's by at most Skew.                                    *)
(***************************************************************************)
EXTENDS Integers, FiniteSets

CONSTANTS
  Reviews,      \* review ids: random UUIDs, each submitted at most once
  Financial,    \* those whose action is a native-USDC transfer
  Wallets,      \* configured wallets
  Txs,          \* transaction hashes the integration may present
  Handlers,     \* requests the service can have in flight at once
  Wallet,       \* the sender of a financial review's action
  Amount,       \* the amount of a financial review's action
  Matches,      \* the reviews whose exact action a transaction executes
  Total,        \* SQL's SUM(amount) over a set of reservations
  Policies,     \* settings the owner chooses among
  Lifetimes,    \* values of expires_in_seconds
  Outgoing,     \* outgoing totals the wallet-history collector can report
  NoTx,         \* SQL NULL in tx_hash
  NoPolicy,     \* no row in financial_policies
  TokenTTL,     \* lifetime of an approval token (300 s)
  HistoryAge,   \* oldest wallet history the trigger admits (300 s)
  HistoryLead,  \* how far ahead of the database's clock it may be dated (60 s)
  SpendWindow,  \* how long a settled spend counts (86400 s)
  Retention,    \* how long a resolved review is kept (604800 s)
  Skew,         \* greatest distance between a Worker's clock and the database's
  LastSubmit,   \* bound: no submission begins after this time
  MaxTime       \* bound: the clocks stop here

NoTime == 0             \* SQL NULL in a time column
Idle == [kind |-> "idle"]
PolicySettings == [single : Nat, daily : Nat, enabled : BOOLEAN]

ASSUME ReviewAssumption ==
  /\ Financial \subseteq Reviews
  /\ Wallet \in [Financial -> Wallets]
  /\ Amount \in [Financial -> Nat \ {0}]
  /\ Matches \in [Txs -> SUBSET Financial]
  /\ NoTx \notin Txs

ASSUME SettingsAssumption ==
  /\ Policies \subseteq PolicySettings
  /\ NoPolicy \notin PolicySettings
  /\ \A p \in Policies : 0 < p.single /\ p.single <= p.daily
  /\ Outgoing \subseteq Nat

ASSUME TimeAssumption ==
  /\ TokenTTL \in Nat \ {0}
  /\ HistoryAge \in Nat
  /\ HistoryLead \in Nat
  /\ SpendWindow \in Nat
  /\ Skew \in Nat
  /\ LastSubmit \in Nat
  /\ MaxTime \in Nat
  /\ Retention \in Nat
  /\ SpendWindow <= Retention
  /\ Lifetimes \subseteq Nat \ {0}
  /\ \A d \in Lifetimes : d + Skew <= Retention

\* What SUM over the rows of a set amounts to: nothing for no rows, adding a row adds
\* its amount, and a subset never sums to more.
ASSUME TotalAssumption ==
  /\ Total \in [SUBSET Financial -> Nat]
  /\ Total[{}] = 0
  /\ \A S \in SUBSET Financial : \A r \in Financial \ S :
       Total[S \cup {r}] = Total[S] + Amount[r]
  /\ \A S \in SUBSET Financial : \A T \in SUBSET S : Total[T] <= Total[S]

VARIABLES
  now,       \* the database's clock
  \* table human_reviews
  status, created, expires, token, tokenExp, consumed,
  \* table financial_reservations
  hold, txHash, settled,
  policy,    \* table financial_policies
  chain,     \* finalized transactions: block timestamp and success
  task,      \* what each request in flight has read so far
  peak,      \* history: the largest daily limit each wallet has had
  credited   \* history: the reviews each transaction has ever settled

reviewCols == <<status, created, expires, token, tokenExp, consumed>>
holdCols == <<hold, txHash, settled>>
history == <<peak, credited>>
vars == <<now, reviewCols, holdCols, policy, chain, task, history>>

Tasks ==
  {Idle}
  \cup [kind : {"submit"}, review : Reviews, at : Nat, life : Lifetimes]
  \cup [kind : {"decide"}, review : Reviews, at : Nat,
        decision : {"APPROVED", "REJECTED"}]
  \cup [kind : {"consume"}, review : Reviews, at : Nat, token : Nat]
  \cup [kind : {"cancel"}, review : Reviews]
  \cup [kind : {"verify"}, review : Reviews, tx : Txs, claimedAt : Nat]

TypeOK ==
  /\ now \in Nat /\ now > Skew
  /\ status \in [Reviews -> {"ABSENT", "PENDING", "APPROVED", "REJECTED",
                             "CONSUMED", "PRUNED"}]
  /\ created \in [Reviews -> Nat]
  /\ expires \in [Reviews -> Nat]
  /\ token \in [Reviews -> Nat]
  /\ tokenExp \in [Reviews -> Nat]
  /\ consumed \in [Reviews -> Nat]
  /\ hold \in [Reviews -> {"NONE", "RESERVED", "CLAIMED", "SETTLED", "REVERTED"}]
  /\ txHash \in [Reviews -> Txs \cup {NoTx}]
  /\ settled \in [Reviews -> Nat]
  /\ policy \in [Wallets -> Policies \cup {NoPolicy}]
  /\ chain \in [Txs -> [at : Nat, ok : BOOLEAN]]
  /\ task \in [Handlers -> Tasks]
  /\ peak \in [Wallets -> Nat]
  /\ credited \in [Txs -> SUBSET Financial]

Init ==
  /\ now = Skew + 1
  /\ status = [r \in Reviews |-> "ABSENT"]
  /\ created = [r \in Reviews |-> NoTime]
  /\ expires = [r \in Reviews |-> NoTime]
  /\ token = [r \in Reviews |-> NoTime]
  /\ tokenExp = [r \in Reviews |-> NoTime]
  /\ consumed = [r \in Reviews |-> NoTime]
  /\ hold = [r \in Reviews |-> "NONE"]
  /\ txHash = [r \in Reviews |-> NoTx]
  /\ settled = [r \in Reviews |-> NoTime]
  /\ policy = [w \in Wallets |-> NoPolicy]
  /\ chain = [t \in Txs |-> [at |-> NoTime, ok |-> FALSE]]
  /\ task = [h \in Handlers |-> Idle]
  /\ peak = [w \in Wallets |-> 0]
  /\ credited = [t \in Txs |-> {}]

---------------------------------------------------------------------------
(* Helpers: the clauses the statements and the triggers share.             *)

\* What Date.now() may return to a handler.
WorkerClock == {t \in (now - Skew) .. (now + Skew) : t > 0}

SettledWithin(r, d) == settled[r] # NoTime /\ settled[r] + d > now

\* Mutant: reservations count until they are decided, however old they are.
LiveUntilDecided(w) ==
  {r \in Financial :
     /\ Wallet[r] = w
     /\ \/ hold[r] = "CLAIMED"
        \/ (hold[r] = "SETTLED" /\ SettledWithin(r, SpendWindow))
        \/ (hold[r] = "RESERVED" /\ status[r] \in {"PENDING", "APPROVED"})}

\* The rows a wallet's budget query sums.
Live(w) ==
  {r \in Financial :
     /\ Wallet[r] = w
     /\ \/ hold[r] = "CLAIMED"
        \/ (hold[r] = "SETTLED" /\ SettledWithin(r, SpendWindow))
        \/ /\ hold[r] = "RESERVED"
           /\ expires[r] > now
           /\ \/ status[r] = "PENDING"
              \/ (status[r] = "APPROVED" /\ tokenExp[r] > now)}

Enabled(w) == policy[w] # NoPolicy /\ policy[w].enabled

\* Mutant: the budget is checked against this amount alone, as before the trigger.
AdmitsAlone(r, outgoing, observedAt) ==
  LET w == Wallet[r] IN
  /\ now <= observedAt + HistoryAge
  /\ observedAt <= now + HistoryLead
  /\ Enabled(w)
  /\ Amount[r] <= policy[w].single
  /\ Amount[r] + outgoing <= policy[w].daily

\* Trigger financial_reserve: whether the batch may insert review r's reservation.
Admits(r, outgoing, observedAt) ==
  LET w == Wallet[r] IN
  /\ now <= observedAt + HistoryAge
  /\ observedAt <= now + HistoryLead
  /\ Enabled(w)
  /\ Amount[r] <= policy[w].single
  /\ Amount[r] + outgoing + Total[Live(w)] <= policy[w].daily

\* Mutant: approval and claim trust the policy checked at submission.
ClaimableByReservation(r, tokenExpiry) ==
  /\ hold[r] = "RESERVED"
  /\ expires[r] > now
  /\ tokenExpiry > now

\* Trigger financial_claim: whether r may become APPROVED or CONSUMED with the
\* given expiries.
Claimable(r, tokenExpiry) ==
  LET w == Wallet[r] IN
  /\ hold[r] = "RESERVED"
  /\ Enabled(w)
  /\ expires[r] > now
  /\ tokenExpiry > now
  /\ Amount[r] <= policy[w].single
  /\ Total[Live(w)] <= policy[w].daily

\* Whether the row lookup that starts every route finds review r.
Visible(r, at) ==
  /\ status[r] \notin {"ABSENT", "PRUNED"}
  /\ created[r] + Retention > at \/ hold[r] = "CLAIMED" \/ SettledWithin(r, Retention)

\* The WHERE clause of the deciding UPDATE.  Mutant: it trusts the status read earlier.
UndecidedWhenRead(r, fresh) == expires[r] > fresh
Undecided(r, fresh) == status[r] = "PENDING" /\ expires[r] > fresh

\* The WHERE clause of the cancelling UPDATE.  Mutant: it accepts a claimed review.
CancellableEvenClaimed(r) == status[r] \in {"PENDING", "APPROVED", "CONSUMED"}
Cancellable(r) == status[r] \in {"PENDING", "APPROVED"}

Finish(h) == task' = [task EXCEPT ![h] = Idle]

---------------------------------------------------------------------------
(* POST /v1/reviews.  The policy is read before the wallet history is      *)
(* collected; the history is collected before the batch is written.        *)

SubmitBegin(h, r, life) ==
  /\ task[h] = Idle
  /\ now <= LastSubmit
  /\ status[r] = "ABSENT"
  /\ \A k \in Handlers : task[k].kind = "submit" => task[k].review # r
  /\ r \in Financial => Enabled(Wallet[r])
  /\ \E at \in WorkerClock :
       task' = [task EXCEPT ![h] =
                  [kind |-> "submit", review |-> r, at |-> at, life |-> life]]
  /\ UNCHANGED <<now, reviewCols, holdCols, policy, chain, history>>

\* The batch inserts both rows or, when the trigger aborts, neither (see Abandon).
SubmitCommit(h) ==
  LET r == task[h].review IN
  /\ task[h].kind = "submit"
  /\ r \in Financial =>
       \E outgoing \in Outgoing, observedAt \in task[h].at .. (now + Skew) :
         Admits(r, outgoing, observedAt)
  /\ status' = [status EXCEPT ![r] = "PENDING"]
  /\ created' = [created EXCEPT ![r] = task[h].at]
  /\ expires' = [expires EXCEPT ![r] = task[h].at + task[h].life]
  /\ hold' = [hold EXCEPT ![r] = IF r \in Financial THEN "RESERVED" ELSE "NONE"]
  /\ Finish(h)
  /\ UNCHANGED <<now, token, tokenExp, consumed, txHash, settled, policy, chain,
                 history>>

---------------------------------------------------------------------------
(* POST /v1/reviews/{id}/decision, by the reviewer.                        *)

DecideBegin(h, r, decision) ==
  /\ task[h] = Idle
  /\ \E at \in WorkerClock :
       /\ Visible(r, at)
       /\ status[r] = "PENDING"
       /\ expires[r] > at
       /\ task' = [task EXCEPT ![h] =
                     [kind |-> "decide", review |-> r, at |-> at, decision |-> decision]]
  /\ UNCHANGED <<now, reviewCols, holdCols, policy, chain, history>>

\* The attestation is identified by its iat claim, the time the request was read at.
\* A rejection is attested and dated like an approval.
DecideCommit(h) ==
  LET r == task[h].review
      at == task[h].at
      tokenExpiry == IF at + TokenTTL < expires[r] THEN at + TokenTTL ELSE expires[r]
  IN
  /\ task[h].kind = "decide"
  /\ \E fresh \in WorkerClock : fresh >= at /\ Undecided(r, fresh)
  /\ r \in Financial /\ task[h].decision = "APPROVED" => Claimable(r, tokenExpiry)
  /\ status' = [status EXCEPT ![r] = task[h].decision]
  /\ token' = [token EXCEPT ![r] = at]
  /\ tokenExp' = [tokenExp EXCEPT ![r] = tokenExpiry]
  /\ Finish(h)
  /\ UNCHANGED <<now, created, expires, consumed, holdCols, policy, chain, history>>

---------------------------------------------------------------------------
(* POST /v1/reviews/{id}/consume, by the integration.                      *)

\* The presented token equals the stored one and has not expired.
ConsumeBegin(h, r) ==
  /\ task[h] = Idle
  /\ \E at \in WorkerClock :
       /\ Visible(r, at)
       /\ status[r] = "APPROVED"
       /\ tokenExp[r] > at
       /\ task' = [task EXCEPT ![h] =
                     [kind |-> "consume", review |-> r, at |-> at, token |-> token[r]]]
  /\ UNCHANGED <<now, reviewCols, holdCols, policy, chain, history>>

\* The trigger moves the reservation to CLAIMED in the same statement.
ConsumeCommit(h) ==
  LET r == task[h].review IN
  /\ task[h].kind = "consume"
  /\ status[r] = "APPROVED"
  /\ token[r] = task[h].token
  /\ r \in Financial => Claimable(r, tokenExp[r])
  /\ \E consumedAt \in WorkerClock :
       /\ consumedAt >= task[h].at
       /\ tokenExp[r] > consumedAt
       /\ expires[r] > consumedAt
       /\ consumed' = [consumed EXCEPT ![r] = consumedAt]
  /\ status' = [status EXCEPT ![r] = "CONSUMED"]
  /\ hold' = [hold EXCEPT ![r] = IF r \in Financial THEN "CLAIMED" ELSE @]
  /\ Finish(h)
  /\ UNCHANGED <<now, created, expires, token, tokenExp, txHash, settled, policy,
                 chain, history>>

---------------------------------------------------------------------------
(* POST /v1/reviews/{id}/cancel, by the reviewer.                          *)

CancelBegin(h, r) ==
  /\ task[h] = Idle
  /\ \E at \in WorkerClock : Visible(r, at)
  /\ task' = [task EXCEPT ![h] = [kind |-> "cancel", review |-> r]]
  /\ UNCHANGED <<now, reviewCols, holdCols, policy, chain, history>>

\* No condition on expiry: a lapsed review can still be marked REJECTED.  The
\* reservation's row stays RESERVED.
CancelCommit(h) ==
  LET r == task[h].review IN
  /\ task[h].kind = "cancel"
  /\ Cancellable(r)
  /\ status' = [status EXCEPT ![r] = "REJECTED"]
  /\ token' = [token EXCEPT ![r] = NoTime]
  /\ tokenExp' = [tokenExp EXCEPT ![r] = NoTime]
  /\ Finish(h)
  /\ UNCHANGED <<now, created, expires, consumed, holdCols, policy, chain, history>>

---------------------------------------------------------------------------
(* POST /v1/reviews/{id}/transaction, by the integration.                  *)

\* The lookup and the attaching UPDATE.  CONSUMED is final, so nothing the lookup
\* read can change before the UPDATE, which the UNIQUE column guards against the
\* hashes of the rows that still exist.
Attach(h, r, t) ==
  /\ task[h] = Idle
  /\ \E at \in WorkerClock : Visible(r, at)
  /\ status[r] = "CONSUMED"
  /\ hold[r] = "CLAIMED"
  /\ txHash[r] \in {NoTx, t}
  /\ \A s \in Reviews \ {r} : txHash[s] # t
  /\ txHash' = [txHash EXCEPT ![r] = t]
  /\ task' = [task EXCEPT ![h] =
                [kind |-> "verify", review |-> r, tx |-> t, claimedAt |-> consumed[r]]]
  /\ UNCHANGED <<now, reviewCols, hold, settled, policy, chain, history>>

\* Mutant: any final transaction after the claim counts as its outcome.
VerifiedAnyAction(r, t, claimedAt) ==
  chain[t].at # NoTime /\ chain[t].at > claimedAt

\* verifyFinancialOutcome: the chain shows t final, executing r's exact action in a
\* block dated after the claim.
Verified(r, t, claimedAt) ==
  /\ chain[t].at # NoTime
  /\ r \in Matches[t]
  /\ chain[t].at > claimedAt

\* Mutant: a failed transaction is stored under a state that the column does not know.
OutcomeFailed(t) == IF chain[t].ok THEN "SETTLED" ELSE "FAILED"

\* The state that a final transaction resolves its reservation to.
Outcome(t) == IF chain[t].ok THEN "SETTLED" ELSE "REVERTED"

\* The RPC answers (a final receipt never changes) and the resolving UPDATE.
Settle(h) ==
  LET r == task[h].review
      t == task[h].tx
  IN
  /\ task[h].kind = "verify"
  /\ Verified(r, t, task[h].claimedAt)
  /\ hold[r] = "CLAIMED"
  /\ txHash[r] = t
  /\ hold' = [hold EXCEPT ![r] = Outcome(t)]
  /\ settled' = [settled EXCEPT ![r] = chain[t].at]
  /\ credited' = [credited EXCEPT ![t] = @ \cup {r}]
  /\ Finish(h)
  /\ UNCHANGED <<now, reviewCols, txHash, policy, chain, peak>>

---------------------------------------------------------------------------
(* A request in flight ends without writing: a check refuses it, its       *)
(* statement matches no row or its trigger aborts, an RPC is pending or    *)
(* fails, or the Worker dies.  The caller may send it again.               *)

Abandon(h) ==
  /\ task[h] # Idle
  /\ Finish(h)
  /\ UNCHANGED <<now, reviewCols, holdCols, policy, chain, history>>

\* POST /v1/reviews/policies, by the reviewer: one upsert.
SetPolicy(w, p) ==
  /\ policy' = [policy EXCEPT ![w] = p]
  /\ peak' = [peak EXCEPT ![w] = IF p.daily > @ THEN p.daily ELSE @]
  /\ UNCHANGED <<now, reviewCols, holdCols, chain, task, credited>>

---------------------------------------------------------------------------
(* The daily cron: one DELETE, cascading to the reservations.  Trigger     *)
(* financial_preserve aborts the whole statement if it reaches a protected *)
(* row.                                                                    *)

Protected(r) ==
  \/ hold[r] = "CLAIMED"
  \/ (hold[r] = "SETTLED" /\ SettledWithin(r, SpendWindow))

\* Mutant: retention counts from creation alone.
PrunableByAge(scheduled) ==
  {r \in Reviews :
     /\ status[r] \notin {"ABSENT", "PRUNED"}
     /\ created[r] + Retention <= scheduled
     /\ hold[r] # "CLAIMED"}

Prunable(scheduled) ==
  {r \in Reviews :
     /\ status[r] \notin {"ABSENT", "PRUNED"}
     /\ created[r] + Retention <= scheduled
     /\ hold[r] # "CLAIMED"
     /\ ~SettledWithin(r, Retention)}

Prune ==
  \E scheduled \in WorkerClock :
    LET gone == Prunable(scheduled)
        Cleared(col, null) == [r \in Reviews |-> IF r \in gone THEN null ELSE col[r]]
    IN
    /\ gone # {}
    /\ \A r \in gone : ~Protected(r)
    /\ status' = Cleared(status, "PRUNED")
    /\ created' = Cleared(created, NoTime)
    /\ expires' = Cleared(expires, NoTime)
    /\ token' = Cleared(token, NoTime)
    /\ tokenExp' = Cleared(tokenExp, NoTime)
    /\ consumed' = Cleared(consumed, NoTime)
    /\ hold' = Cleared(hold, "NONE")
    /\ txHash' = Cleared(txHash, NoTx)
    /\ settled' = Cleared(settled, NoTime)
    /\ UNCHANGED <<now, policy, chain, task, history>>

---------------------------------------------------------------------------
(* The environment: the chain finalizes a transaction; time passes.        *)

Mine(t, ok) ==
  /\ chain[t].at = NoTime
  /\ chain' = [chain EXCEPT ![t] = [at |-> now, ok |-> ok]]
  /\ UNCHANGED <<now, reviewCols, holdCols, policy, task, history>>

Tick ==
  /\ now < MaxTime
  /\ now' = now + 1
  /\ UNCHANGED <<reviewCols, holdCols, policy, chain, task, history>>

Request(h) ==
  \/ \E r \in Reviews :
       \/ \E life \in Lifetimes : SubmitBegin(h, r, life)
       \/ \E d \in {"APPROVED", "REJECTED"} : DecideBegin(h, r, d)
       \/ ConsumeBegin(h, r)
       \/ CancelBegin(h, r)
       \/ \E t \in Txs : Attach(h, r, t)
  \/ SubmitCommit(h)
  \/ DecideCommit(h)
  \/ ConsumeCommit(h)
  \/ CancelCommit(h)
  \/ Settle(h)
  \/ Abandon(h)

Next ==
  \/ \E h \in Handlers : Request(h)
  \/ \E w \in Wallets, p \in Policies : SetPolicy(w, p)
  \/ \E t \in Txs, ok \in BOOLEAN : Mine(t, ok)
  \/ Prune
  \/ Tick

Spec == Init /\ [][Next]_vars

\* The clock always advances; nobody is obliged to send a request.
FairSpec == Spec /\ WF_vars(Tick)

---------------------------------------------------------------------------
(* Properties.                                                             *)

\* What the columns of one review say together.
RowAgrees(r) ==
  /\ status[r] \in {"ABSENT", "PRUNED"} =>
       /\ expires[r] = NoTime /\ tokenExp[r] = NoTime
       /\ hold[r] = "NONE"
  /\ status[r] \notin {"ABSENT", "PRUNED"} => (hold[r] # "NONE" <=> r \in Financial)
  /\ r \in Financial =>
       (status[r] = "CONSUMED" <=> hold[r] \in {"CLAIMED", "SETTLED", "REVERTED"})
  /\ r \notin Financial => hold[r] = "NONE"
  /\ status[r] = "PENDING" => tokenExp[r] = NoTime
  /\ status[r] = "CONSUMED" <=> consumed[r] # NoTime
  /\ status[r] = "CONSUMED" => consumed[r] < tokenExp[r]
  /\ tokenExp[r] <= expires[r]
  /\ status[r] \notin {"ABSENT", "PRUNED"} => expires[r] + Skew <= created[r] + Retention
  /\ txHash[r] # NoTx => hold[r] \in {"CLAIMED", "SETTLED", "REVERTED"}
  /\ settled[r] # NoTime <=> hold[r] \in {"SETTLED", "REVERTED"}
  /\ settled[r] # NoTime => settled[r] > consumed[r]

\* What a request in flight may rely on: the clock it read is not ahead of any, its
\* fresh id is still unused by others, and the claim whose transaction it verifies is
\* still dated as it read it.
TaskAgrees(h) ==
  LET r == task[h].review IN
  /\ task[h].kind \in {"submit", "decide", "consume"} => task[h].at <= now + Skew
  /\ task[h].kind = "submit" =>
       /\ status[r] = "ABSENT"
       /\ \A k \in Handlers \ {h} : task[k].kind = "submit" => task[k].review # r
  /\ task[h].kind = "verify" =>
       /\ status[r] \in {"CONSUMED", "PRUNED"}
       /\ status[r] = "CONSUMED" => task[h].claimedAt = consumed[r]

\* The two tables never disagree, with each other or with what the requests in
\* flight have read: a financial review is CONSUMED exactly when its reservation has
\* left RESERVED, a transaction hash and a settlement time appear only then, an
\* approval lasts no longer than its request and no request outlives the retention
\* period, a claim is dated before its approval lapsed and a settlement after the
\* claim.
TablesAgree ==
  /\ \A r \in Reviews : RowAgrees(r)
  /\ \A h \in Handlers : TaskAgrees(h)

\* The exposure of a wallet (everything its budget query counts) never exceeds the
\* largest daily limit the owner ever set, whatever requests race, expire or settle.
ExposureWithinLimit == \A w \in Wallets : Total[Live(w)] <= peak[w]

\* Nothing re-enters the budget except by a fresh reservation, and no reservation,
\* approval or claim happens unless the policy of that very moment is enabled and
\* covers it with everything else that is live: lowering or disabling a limit blocks
\* what does not fit, however the request was checked before.
Enters(r) == r \in Live(Wallet[r])' /\ r \notin Live(Wallet[r])
Advances(r) == status'[r] # status[r] /\ status'[r] \in {"APPROVED", "CONSUMED"}
AdmissionFits(r) ==
  /\ Enters(r) => status[r] = "ABSENT"
  /\ Enters(r) \/ Advances(r) =>
       /\ Enabled(Wallet[r])
       /\ Amount[r] <= policy[Wallet[r]].single
       /\ Total[Live(Wallet[r])'] <= policy[Wallet[r]].daily
AdmissionWithinPolicy == [][\A r \in Financial : AdmissionFits(r)]_vars

\* A claimed amount is freed by nothing but a final transaction that executes the
\* claimed action after the claim: not by cancelling, by a timer, by pruning or by
\* attaching another hash.
ResolvesByEvidence(r) ==
  hold[r] = "CLAIMED" =>
    /\ hold'[r] \in {"CLAIMED", "SETTLED", "REVERTED"}
    /\ txHash[r] # NoTx => txHash'[r] = txHash[r]
    /\ hold'[r] # "CLAIMED" =>
         /\ r \in Matches[txHash[r]]
         /\ chain[txHash[r]].at > consumed[r]
         /\ hold'[r] = "SETTLED" <=> chain[txHash[r]].ok
ClaimsResolveByEvidence == [][\A r \in Financial : ResolvesByEvidence(r)]_vars

\* The retention job deletes no review that still holds budget, awaits evidence, can
\* still be decided or claimed, or settled within the retention period.
PrunedSafely(r) ==
  status'[r] = "PRUNED" /\ status[r] # "PRUNED" =>
    /\ r \in Financial => r \notin Live(Wallet[r])
    /\ status[r] \in {"PENDING", "APPROVED"} => expires[r] <= now
    /\ ~SettledWithin(r, Retention)
PruneSparesExposure == [][\A r \in Reviews : PrunedSafely(r)]_vars

\* A reservation nobody claims gives its amount back: by rejection, or because the
\* clock passes its request's or its approval's expiry.
UnclaimedHoldsLapse ==
  \A r \in Financial :
    hold[r] = "RESERVED" /\ r \in Live(Wallet[r]) ~> r \notin Live(Wallet[r]) \/ hold[r] = "CLAIMED"

\* "Immutable attachment and globally unique hash prevent cross-review reuse": no
\* transaction is ever the outcome of two reviews.
TransactionCreditedOnce == \A t \in Txs : Cardinality(credited[t]) <= 1

\* Each review follows the abstract lifecycle.
PhaseOf(s) ==
  CASE s = "ABSENT" -> "unknown"
    [] s = "PENDING" -> "waiting"
    [] s = "APPROVED" -> "approved"
    [] s = "REJECTED" -> "refused"
    [] s = "CONSUMED" -> "used"
    [] s = "PRUNED" -> "forgotten"

Abstract == INSTANCE ReviewLifecycle WITH
  time <- now,
  phase <- [r \in Reviews |-> PhaseOf(status[r])],
  deadline <- [r \in Reviews |-> IF status[r] = "APPROVED" THEN tokenExp[r] ELSE 0]

Lifecycle == Abstract!LifecycleSpec
====
