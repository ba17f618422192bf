---------------------------- MODULE ApiKeyQuota ----------------------------
(***************************************************************************)
(* Tenant API keys: creation, revocation and the monthly quota that every  *)
(* enforcement request draws on (src/src/auth/keys.ts, called by           *)
(* transport/auth.ts), over the table of migrations 0004 and 0005.         *)
(*                                                                         *)
(* A request takes the month from its Worker's clock, awaits the lookup of *)
(* its key, and charges the key with one conditional UPDATE.  By then the  *)
(* month may have changed and other requests may have moved the row to it. *)
(***************************************************************************)
EXTENDS Integers

CONSTANTS
  Keys,       \* key ids: random, each generated at most once
  Requests,   \* requests the service can have in flight at once
  Quota,      \* a key's monthly_quota; none at all when not positive
  MaxCharges, \* bound: no request begins for a key charged this often in a month
  MaxMonth    \* bound: the calendar stops here

ASSUME KeyAssumption ==
  /\ Quota \in [Keys -> Int]
  /\ MaxCharges \in Nat
  /\ MaxMonth \in Nat \ {0}

VARIABLES
  month,    \* the calendar
  \* table vizier_api_keys
  state, usage, period,
  task,     \* what each request in flight has read so far
  charged,  \* history: how many requests of a month a key has let through
  strays    \* history: how many of a key's charges moved it to an earlier month

row == <<state, usage, period>>
history == <<charged, strays>>
vars == <<month, row, task, history>>

Months == 0 .. MaxMonth
Idle == [kind |-> "idle"]
Tasks ==
  {Idle}
  \cup [kind : {"lookup", "charge"}, key : Keys, month : Months]
  \cup [kind : {"refused"}, key : Keys]

TypeOK ==
  /\ month \in Months
  /\ state \in [Keys -> {"ABSENT", "LIVE", "REVOKED"}]
  /\ usage \in [Keys -> Nat]
  /\ period \in [Keys -> Months]
  /\ task \in [Requests -> Tasks]
  /\ charged \in [Keys -> [Months -> Nat]]
  /\ strays \in [Keys -> Nat]

Init ==
  /\ month = 1
  /\ state = [k \in Keys |-> "ABSENT"]
  /\ usage = [k \in Keys |-> 0]
  /\ period = [k \in Keys |-> 0]
  /\ task = [h \in Requests |-> Idle]
  /\ charged = [k \in Keys |-> [m \in Months |-> 0]]
  /\ strays = [k \in Keys |-> 0]

---------------------------------------------------------------------------
(* Helpers.                                                                *)

InsertMonths == {m \in {month - 1, month} : m > 0}

\* Mutant: the comparison admits one request too many.
WithinQuotaOrEqual(k, m) == Quota[k] <= 0 \/ period[k] # m \/ usage[k] <= Quota[k]

\* What the charging UPDATE asks of the row besides being live.
WithinQuota(k, m) == Quota[k] <= 0 \/ period[k] # m \/ usage[k] < Quota[k]

\* Mutant: a row that changes its month keeps its count.
UsageAfterCarried(k, m) == usage[k] + 1
UsageAfter(k, m) == IF period[k] = m THEN usage[k] + 1 ELSE 1

\* Mutant: the key was live when it was looked up, and that is enough.
ChargeableWhenRead(k) == state[k] # "ABSENT"
Chargeable(k) == state[k] = "LIVE"

Become(h, next) == task' = [task EXCEPT ![h] = next]

---------------------------------------------------------------------------
(* Administration, with the master key.                                    *)

\* generateApiKey: one INSERT, whose month may have ended when it arrives.
Generate(k) ==
  /\ state[k] = "ABSENT"
  /\ state' = [state EXCEPT ![k] = "LIVE"]
  /\ \E m \in InsertMonths : period' = [period EXCEPT ![k] = m]
  /\ UNCHANGED <<month, usage, task, history>>

Revoke(k) ==
  /\ state[k] = "LIVE"
  /\ state' = [state EXCEPT ![k] = "REVOKED"]
  /\ UNCHANGED <<month, usage, period, task, history>>

---------------------------------------------------------------------------
(* authenticateKey, drawing on the quota.                                  *)

\* The month is taken when the call begins; the key's hash is computed next.
Begin(h, k) ==
  /\ task[h] = Idle
  /\ charged[k][month] < MaxCharges
  /\ Become(h, [kind |-> "lookup", key |-> k, month |-> month])
  /\ UNCHANGED <<month, row, history>>

\* The key's row is found and not revoked.
Lookup(h) ==
  /\ task[h].kind = "lookup"
  /\ state[task[h].key] = "LIVE"
  /\ Become(h, [task[h] EXCEPT !.kind = "charge"])
  /\ UNCHANGED <<month, row, history>>

\* The conditional UPDATE changes the row: the request is let through.
Charge(h) ==
  LET k == task[h].key
      m == task[h].month
  IN
  /\ task[h].kind = "charge"
  /\ Chargeable(k)
  /\ WithinQuota(k, m)
  /\ usage' = [usage EXCEPT ![k] = UsageAfter(k, m)]
  /\ period' = [period EXCEPT ![k] = m]
  /\ charged' = [charged EXCEPT ![k][m] = @ + 1]
  /\ strays' = [strays EXCEPT ![k] = IF m < period[k] THEN @ + 1 ELSE @]
  /\ Become(h, Idle)
  /\ UNCHANGED <<month, state>>

\* It changes nothing: the row is read once more, for the reason to give.
Refuse(h) ==
  LET k == task[h].key IN
  /\ task[h].kind = "charge"
  /\ ~(Chargeable(k) /\ WithinQuota(k, task[h].month))
  /\ Become(h, [kind |-> "refused", key |-> k])
  /\ UNCHANGED <<month, row, history>>

\* The reply to a request that is not let through, after either read of the row; or
\* the Worker dies.
End(h) ==
  /\ task[h] # Idle
  /\ Become(h, Idle)
  /\ UNCHANGED <<month, row, history>>

NextMonth ==
  /\ month < MaxMonth
  /\ month' = month + 1
  /\ UNCHANGED <<row, task, history>>

Next ==
  \/ \E k \in Keys : Generate(k) \/ Revoke(k) \/ \E h \in Requests : Begin(h, k)
  \/ \E h \in Requests : Lookup(h) \/ Charge(h) \/ Refuse(h) \/ End(h)
  \/ NextMonth

Spec == Init /\ [][Next]_vars

---------------------------------------------------------------------------
(* Properties.                                                             *)

\* A key with a quota lets through no more requests of a month than its quota, and as
\* many again for each request that was so slow that it moved the row back to its own
\* month: without one of those the quota holds exactly, however requests interleave.
MonthlyQuotaButForStrays ==
  \A k \in Keys, m \in Months :
    Quota[k] > 0 => charged[k][m] <= Quota[k] * (strays[k] + 1)

\* The row never runs ahead of the calendar, and never counts more than it has let
\* through in its month: a key is not refused for requests it never served.
NoPhantomUsage ==
  \A k \in Keys : period[k] <= month /\ usage[k] <= charged[k][period[k]]

\* A revoked key is charged for no request again, the ones included that looked it up
\* before it was revoked.
RevokedForGood(k) ==
  state[k] = "REVOKED" =>
    state'[k] = "REVOKED" /\ charged'[k] = charged[k] /\ usage'[k] = usage[k]
RevocationHolds == [][\A k \in Keys : RevokedForGood(k)]_vars

\* "atomically handles high-concurrency requests without exceeding quota": no month
\* sees more than the quota.
MonthlyQuotaHolds ==
  \A k \in Keys, m \in Months : Quota[k] > 0 => charged[k][m] <= Quota[k]
====
