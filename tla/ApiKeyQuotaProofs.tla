------------------------- MODULE ApiKeyQuotaProofs -------------------------
(***************************************************************************)
(* Proofs about ApiKeyQuota for any keys, quotas, number of requests in    *)
(* flight and length of the calendar.                                      *)
(***************************************************************************)
EXTENDS ApiKeyQuota, TLAPS

(* The fields a request in flight carries, by its kind. *)
LEMMA TaskFields ==
  ASSUME TypeOK, NEW h \in Requests
  PROVE  /\ task[h].kind \in {"idle", "lookup", "charge", "refused"}
         /\ task[h].kind # "idle" => task[h].key \in Keys
         /\ task[h].kind \in {"lookup", "charge"} => task[h].month \in Months
         /\ task[h].kind = "lookup" =>
              task[h] = [kind |-> "lookup", key |-> task[h].key, month |-> task[h].month]
BY DEF TypeOK, Tasks, Idle

(* What a charge writes, in terms of the key and month it is for. *)
LEMMA ChargeEffect ==
  ASSUME TypeOK, NEW h \in Requests, Charge(h)
  PROVE  \E k \in Keys, m \in Months :
           /\ Chargeable(k) /\ WithinQuota(k, m)
           /\ usage' = [usage EXCEPT ![k] = IF period[k] = m THEN usage[k] + 1 ELSE 1]
           /\ period' = [period EXCEPT ![k] = m]
           /\ charged' = [charged EXCEPT ![k][m] = @ + 1]
           /\ strays' = [strays EXCEPT ![k] = IF m < period[k] THEN @ + 1 ELSE @]
           /\ task' = [task EXCEPT ![h] = Idle]
           /\ UNCHANGED <<month, state>>
<1>1. task[h].kind = "charge"
  BY DEF Charge
<1>2. PICK k \in Keys, m \in Months : k = task[h].key /\ m = task[h].month
  BY <1>1, TaskFields
<1>3. /\ Chargeable(k) /\ WithinQuota(k, m)
      /\ usage' = [usage EXCEPT ![k] = IF period[k] = m THEN usage[k] + 1 ELSE 1]
      /\ period' = [period EXCEPT ![k] = m]
      /\ charged' = [charged EXCEPT ![k][m] = @ + 1]
      /\ strays' = [strays EXCEPT ![k] = IF m < period[k] THEN @ + 1 ELSE @]
      /\ task' = [task EXCEPT ![h] = Idle]
      /\ UNCHANGED <<month, state>>
  BY <1>2 DEF Charge, UsageAfter, Become
<1> QED BY <1>3

(* Every step keeps the table and the requests in flight within their types. *)
LEMMA TypeStep ==
  ASSUME TypeOK, [Next]_vars
  PROVE  TypeOK'
<1> USE KeyAssumption DEF row, history, Months
<1>1. ASSUME NEW k \in Keys, Generate(k) \/ Revoke(k)
      PROVE  TypeOK'
  <2>1. state' \in [Keys -> {"ABSENT", "LIVE", "REVOKED"}]
    BY <1>1 DEF Generate, Revoke, TypeOK
  <2>2. period' \in [Keys -> Months]
    <3>1. InsertMonths \subseteq Months
      BY DEF InsertMonths, TypeOK
    <3>2. CASE Generate(k)
      BY <3>1, <3>2 DEF Generate, TypeOK
    <3>3. CASE Revoke(k)
      BY <3>3 DEF Revoke, TypeOK
    <3> QED BY <1>1, <3>2, <3>3
  <2> QED BY <1>1, <2>1, <2>2 DEF Generate, Revoke, TypeOK
<1>2. ASSUME NEW k \in Keys, NEW h \in Requests, Begin(h, k)
      PROVE  TypeOK'
  <2>1. [kind |-> "lookup", key |-> k, month |-> month] \in Tasks
    BY DEF Tasks, TypeOK
  <2> QED BY <1>2, <2>1 DEF Begin, Become, TypeOK
<1>3. ASSUME NEW h \in Requests, Lookup(h)
      PROVE  TypeOK'
  <2>1. PICK k \in Keys, m \in Months :
          task[h] = [kind |-> "lookup", key |-> k, month |-> m]
    BY <1>3, TaskFields DEF Lookup
  <2>2. [task[h] EXCEPT !.kind = "charge"] = [kind |-> "charge", key |-> k, month |-> m]
    BY <2>1
  <2>3. [task[h] EXCEPT !.kind = "charge"] \in Tasks
    BY <2>2 DEF Tasks
  <2> QED BY <1>3, <2>3 DEF Lookup, Become, TypeOK
<1>4. ASSUME NEW h \in Requests, Charge(h)
      PROVE  TypeOK'
  <2>1. PICK k \in Keys, m \in Months :
           /\ usage' = [usage EXCEPT ![k] = IF period[k] = m THEN usage[k] + 1 ELSE 1]
           /\ period' = [period EXCEPT ![k] = m]
           /\ charged' = [charged EXCEPT ![k][m] = @ + 1]
           /\ strays' = [strays EXCEPT ![k] = IF m < period[k] THEN @ + 1 ELSE @]
           /\ task' = [task EXCEPT ![h] = Idle]
           /\ UNCHANGED <<month, state>>
    BY <1>4, ChargeEffect
  <2>2. usage' \in [Keys -> Nat] /\ strays' \in [Keys -> Nat] /\ period' \in [Keys -> Months]
    <3>1. usage' \in [Keys -> Nat]
      BY <2>1, SMTT(30) DEF TypeOK
    <3>2. strays' \in [Keys -> Nat]
      BY <2>1, SMTT(30) DEF TypeOK
    <3>3. period' \in [Keys -> Months]
      BY <2>1, SMTT(30) DEF TypeOK
    <3> QED BY <3>1, <3>2, <3>3
  <2>3. charged' \in [Keys -> [Months -> Nat]]
    <3>1. charged[k] \in [Months -> Nat] /\ charged[k][m] + 1 \in Nat
      BY SMTT(30) DEF TypeOK
    <3>3. [charged[k] EXCEPT ![m] = charged[k][m] + 1] \in [Months -> Nat]
      BY <3>1
    <3> DEFINE counts == [Months -> Nat]
    <3>4. [charged[k] EXCEPT ![m] = charged[k][m] + 1] \in counts /\ charged \in [Keys -> counts]
      BY <3>3 DEF TypeOK
    <3>5. charged' = [charged EXCEPT ![k] = [charged[k] EXCEPT ![m] = charged[k][m] + 1]]
      BY <2>1
    <3> HIDE DEF counts
    <3>6. charged' \in [Keys -> counts]
      BY <3>4, <3>5
    <3> QED BY <3>6 DEF counts
  <2>4. task' \in [Requests -> Tasks]
    BY <2>1 DEF TypeOK, Tasks
  <2> QED BY <2>1, <2>2, <2>3, <2>4 DEF TypeOK
<1>5. ASSUME NEW h \in Requests, Refuse(h)
      PROVE  TypeOK'
  <2>1. [kind |-> "refused", key |-> task[h].key] \in Tasks
    BY <1>5, TaskFields DEF Refuse, Tasks
  <2> QED BY <1>5, <2>1 DEF Refuse, Become, TypeOK
<1>6. ASSUME NEW h \in Requests, End(h)
      PROVE  TypeOK'
  BY <1>6 DEF End, Become, TypeOK, Tasks
<1>7. ASSUME NextMonth \/ UNCHANGED vars
      PROVE  TypeOK'
  BY <1>7 DEF NextMonth, vars, TypeOK, Tasks
<1> QED BY <1>1, <1>2, <1>3, <1>4, <1>5, <1>6, <1>7 DEF Next

(* The table holds only keys' rows, and requests only what they read. *)
THEOREM TypeCorrect == Spec => []TypeOK
<1>1. Init => TypeOK
  BY KeyAssumption DEF Init, TypeOK, Tasks, Months
<1>2. TypeOK /\ [Next]_vars => TypeOK'
  BY TypeStep
<1> QED BY <1>1, <1>2, PTL DEF Spec

---------------------------------------------------------------------------
(* The quota but for strays.  While the row stands at a month, that month's *)
(* requests fit in what is now counted and one full quota for each stray;  *)
(* a month the row has yet to reach owes only to strays, and one it has    *)
(* passed has had one full quota more.                                     *)

QuotaFits(k) ==
  Quota[k] > 0 =>
    /\ usage[k] <= Quota[k]
    /\ \A m \in Months :
         /\ m > period[k] => charged[k][m] <= Quota[k] * strays[k]
         /\ m = period[k] => charged[k][m] <= Quota[k] * strays[k] + usage[k]
         /\ m < period[k] => charged[k][m] <= Quota[k] * strays[k] + Quota[k]

Unused(k) == state[k] = "ABSENT" => usage[k] = 0 /\ \A m \in Months : charged[k][m] = 0

QuotaInv == \A k \in Keys : Unused(k) /\ QuotaFits(k)

LEMMA OneMoreQuota ==
  ASSUME NEW q \in Nat, NEW n \in Nat
  PROVE  q * n \in Nat /\ q * (n + 1) = q * n + q
OBVIOUS

LEMMA RowFields ==
  ASSUME TypeOK, NEW k \in Keys
  PROVE  /\ usage[k] \in Nat /\ period[k] \in Int /\ strays[k] \in Nat /\ Quota[k] \in Int
         /\ \A m \in Months : m \in Int /\ charged[k][m] \in Nat
BY KeyAssumption DEF TypeOK, Months

LEMMA QuotaStep ==
  ASSUME TypeOK, QuotaInv, [Next]_vars
  PROVE  QuotaInv'
<1> USE KeyAssumption DEF row, history
<1>1. ASSUME NEW k \in Keys, Generate(k)
      PROVE  QuotaInv'
  <2>1. PICK n \in Months : period' = [period EXCEPT ![k] = n]
    <3>1. InsertMonths \subseteq Months
      BY DEF InsertMonths, TypeOK, Months
    <3> QED BY <1>1, <3>1 DEF Generate
  <2>2. /\ UNCHANGED <<usage, charged, strays>> /\ state[k] = "ABSENT"
        /\ state' = [state EXCEPT ![k] = "LIVE"]
    BY <1>1 DEF Generate
  <2>3. ASSUME NEW q \in Keys, q # k
        PROVE  (Unused(q) /\ QuotaFits(q))'
    <3>1. period'[q] = period[q] /\ state'[q] = state[q]
      BY <2>1, <2>2, <2>3 DEF TypeOK
    <3> QED BY <2>2, <3>1 DEF QuotaInv, Unused, QuotaFits
  <2>4. Unused(k)' /\ QuotaFits(k)'
    <3>1. usage[k] = 0 /\ \A m \in Months : charged[k][m] = 0
      BY <2>2 DEF QuotaInv, Unused
    <3>2. Quota[k] > 0 => Quota[k] * strays[k] \in Nat /\ Quota[k] \in Nat
      BY RowFields, OneMoreQuota
    <3>3. state'[k] # "ABSENT"
      BY <2>2 DEF TypeOK
    <3> QED BY <2>2, <3>1, <3>2, <3>3 DEF Unused, QuotaFits
  <2> QED BY <2>3, <2>4 DEF QuotaInv
<1>2. ASSUME NEW h \in Requests, Charge(h)
      PROVE  QuotaInv'
  <2>1. PICK k \in Keys, n \in Months :
           /\ Chargeable(k) /\ WithinQuota(k, n)
           /\ usage' = [usage EXCEPT ![k] = IF period[k] = n THEN usage[k] + 1 ELSE 1]
           /\ period' = [period EXCEPT ![k] = n]
           /\ charged' = [charged EXCEPT ![k][n] = @ + 1]
           /\ strays' = [strays EXCEPT ![k] = IF n < period[k] THEN @ + 1 ELSE @]
           /\ state' = state
    BY <1>2, ChargeEffect
  <2>2. ASSUME NEW q \in Keys, q # k
        PROVE  (Unused(q) /\ QuotaFits(q))'
    <3>1. /\ usage'[q] = usage[q] /\ period'[q] = period[q] /\ charged'[q] = charged[q]
          /\ strays'[q] = strays[q] /\ state'[q] = state[q]
      BY <2>1, <2>2 DEF TypeOK
    <3> QED BY <3>1 DEF QuotaInv, Unused, QuotaFits
  <2>3. /\ usage'[k] = IF period[k] = n THEN usage[k] + 1 ELSE 1
        /\ period'[k] = n
        /\ strays'[k] = IF n < period[k] THEN strays[k] + 1 ELSE strays[k]
        /\ charged'[k][n] = charged[k][n] + 1
        /\ \A m \in Months \ {n} : charged'[k][m] = charged[k][m]
    BY <2>1 DEF TypeOK
  <2>4. Unused(k)'
    BY <2>1 DEF Chargeable, Unused
  <2>5. ASSUME Quota[k] > 0
        PROVE  QuotaFits(k)'
    <3>1. /\ usage[k] \in Nat /\ period[k] \in Int /\ strays[k] \in Nat /\ Quota[k] \in Nat
          /\ n \in Int /\ \A m \in Months : m \in Int /\ charged[k][m] \in Nat
      BY <2>5, RowFields
    <3>2. PICK owed \in Nat : owed = Quota[k] * strays[k]
      BY <3>1, OneMoreQuota
    <3>3. Quota[k] * (strays[k] + 1) = owed + Quota[k]
      BY <3>1, <3>2, OneMoreQuota
    <3>4. Quota[k] * strays'[k] = IF n < period[k] THEN owed + Quota[k] ELSE owed
      BY <2>3, <3>2, <3>3
    <3>5. usage'[k] <= Quota[k]
      BY <2>1, <2>3, <2>5, <3>1 DEF WithinQuota
    <3>6. /\ usage[k] <= Quota[k]
          /\ \A m \in Months :
               /\ m > period[k] => charged[k][m] <= owed
               /\ m = period[k] => charged[k][m] <= owed + usage[k]
               /\ m < period[k] => charged[k][m] <= owed + Quota[k]
      BY <2>5, <3>2 DEF QuotaInv, QuotaFits
    <3>7. ASSUME NEW m \in Months
          PROVE  /\ m > n => charged'[k][m] <= Quota[k] * strays'[k]
                 /\ m = n => charged'[k][m] <= Quota[k] * strays'[k] + usage'[k]
                 /\ m < n => charged'[k][m] <= Quota[k] * strays'[k] + Quota[k]
      <4>1. CASE n < period[k]
        BY <2>3, <3>1, <3>4, <3>6, <4>1
      <4>2. CASE n = period[k]
        BY <2>3, <3>1, <3>4, <3>6, <4>2
      <4>3. CASE n > period[k]
        BY <2>3, <3>1, <3>4, <3>6, <4>3
      <4> QED BY <3>1, <4>1, <4>2, <4>3
    <3> QED BY <2>3, <3>5, <3>7 DEF QuotaFits
  <2>6. ASSUME ~(Quota[k] > 0)
        PROVE  QuotaFits(k)'
    BY <2>6 DEF QuotaFits
  <2>7. QuotaFits(k)'
    BY <2>5, <2>6
  <2>8. ASSUME NEW q \in Keys
        PROVE  Unused(q)' /\ QuotaFits(q)'
    <3>1. CASE q = k
      BY <2>4, <2>7, <3>1
    <3>2. CASE q # k
      BY <2>2, <3>2
    <3> QED BY <3>1, <3>2
  <2> QED BY <2>8 DEF QuotaInv
<1>3. ASSUME NEW k \in Keys, Revoke(k)
      PROVE  QuotaInv'
  <2>1. /\ UNCHANGED <<usage, period, charged, strays>>
        /\ \A q \in Keys : state'[q] = "ABSENT" => state[q] = "ABSENT"
    BY <1>3 DEF Revoke, TypeOK
  <2>2. ASSUME NEW q \in Keys
        PROVE  Unused(q)' /\ QuotaFits(q)'
    <3>1. Unused(q) /\ QuotaFits(q)
      BY DEF QuotaInv
    <3>2. Unused(q)'
      BY <2>1, <3>1 DEF Unused
    <3>3. QuotaFits(q)'
      BY <2>1, <3>1 DEF QuotaFits
    <3> QED BY <3>2, <3>3
  <2> QED BY <2>2 DEF QuotaInv
<1>4. CASE UNCHANGED <<state, usage, period, charged, strays>>
  BY <1>4 DEF QuotaInv, Unused, QuotaFits
<1>5. ASSUME NEW h \in Requests,
             Lookup(h) \/ Refuse(h) \/ End(h) \/ \E k \in Keys : Begin(h, k)
      PROVE  UNCHANGED <<state, usage, period, charged, strays>>
  BY <1>5 DEF Lookup, Refuse, End, Begin
<1>6. ASSUME NextMonth \/ UNCHANGED vars
      PROVE  UNCHANGED <<state, usage, period, charged, strays>>
  BY <1>6 DEF NextMonth, vars
<1> QED BY <1>1, <1>2, <1>3, <1>4, <1>5, <1>6 DEF Next

(* No month exceeds the quota by more than a quota for each request that    *)
(* was in flight across the end of its month and moved the row back.        *)
THEOREM QuotaHoldsButForStrays == Spec => []MonthlyQuotaButForStrays
<1>1. Init => QuotaInv
  <2> SUFFICES ASSUME Init, NEW k \in Keys PROVE Unused(k) /\ QuotaFits(k)
    BY DEF QuotaInv
  <2>1. /\ state[k] = "ABSENT" /\ usage[k] = 0 /\ strays[k] = 0 /\ period[k] = 0
        /\ \A m \in Months : charged[k][m] = 0
    BY DEF Init
  <2> QED BY <2>1, KeyAssumption DEF Unused, QuotaFits, Months
<1>2. TypeOK /\ QuotaInv /\ [Next]_vars => QuotaInv'
  BY QuotaStep
<1>3. TypeOK /\ QuotaInv => MonthlyQuotaButForStrays
  <2> SUFFICES ASSUME TypeOK, QuotaInv, NEW k \in Keys, NEW m \in Months, Quota[k] > 0
               PROVE  charged[k][m] <= Quota[k] * (strays[k] + 1)
    BY DEF MonthlyQuotaButForStrays
  <2>1. /\ usage[k] \in Nat /\ period[k] \in Int /\ strays[k] \in Nat /\ Quota[k] \in Nat
        /\ m \in Int /\ charged[k][m] \in Nat
    BY RowFields
  <2>2. PICK owed \in Nat : owed = Quota[k] * strays[k]
    BY <2>1, OneMoreQuota
  <2>3. Quota[k] * (strays[k] + 1) = owed + Quota[k]
    BY <2>1, <2>2, OneMoreQuota
  <2>4. /\ usage[k] <= Quota[k]
        /\ m > period[k] => charged[k][m] <= owed
        /\ m = period[k] => charged[k][m] <= owed + usage[k]
        /\ m < period[k] => charged[k][m] <= owed + Quota[k]
    BY <2>2 DEF QuotaInv, QuotaFits
  <2> QED BY <2>1, <2>3, <2>4
<1> QED BY <1>1, <1>2, <1>3, TypeCorrect, PTL DEF Spec

---------------------------------------------------------------------------
(* The count and the calendar.                                             *)

CountInv ==
  /\ NoPhantomUsage
  /\ \A k \in Keys : state[k] = "ABSENT" => usage[k] = 0
  /\ \A h \in Requests : task[h].kind \in {"lookup", "charge"} => task[h].month <= month

LEMMA CountStep ==
  ASSUME TypeOK, CountInv, [Next]_vars
  PROVE  CountInv'
<1> USE KeyAssumption DEF row, history
<1>1. ASSUME NEW k \in Keys, Generate(k)
      PROVE  CountInv'
  <2>1. PICK n \in InsertMonths : period' = [period EXCEPT ![k] = n]
    BY <1>1 DEF Generate
  <2>2. /\ UNCHANGED <<month, usage, charged, task>> /\ state[k] = "ABSENT"
        /\ state' = [state EXCEPT ![k] = "LIVE"]
    BY <1>1 DEF Generate
  <2>3. n \in Months /\ n <= month /\ usage[k] = 0 /\ charged[k][n] \in Nat
    BY <2>2 DEF InsertMonths, TypeOK, Months, CountInv
  <2>4. ASSUME NEW q \in Keys
        PROVE  /\ period'[q] <= month /\ usage'[q] <= charged'[q][period'[q]]
               /\ state'[q] = "ABSENT" => usage'[q] = 0
    BY <2>1, <2>2, <2>3 DEF CountInv, NoPhantomUsage, TypeOK
  <2> QED BY <2>2, <2>4 DEF CountInv, NoPhantomUsage
<1>2. ASSUME NEW h \in Requests, Charge(h)
      PROVE  CountInv'
  <2>1. PICK k \in Keys, n \in Months : k = task[h].key /\ n = task[h].month
    BY <1>2, TaskFields DEF Charge
  <2>2. n <= month
    BY <1>2, <2>1 DEF Charge, CountInv
  <2>3. /\ usage' = [usage EXCEPT ![k] = IF period[k] = n THEN usage[k] + 1 ELSE 1]
        /\ period' = [period EXCEPT ![k] = n]
        /\ charged' = [charged EXCEPT ![k][n] = @ + 1]
        /\ task' = [task EXCEPT ![h] = Idle]
        /\ month' = month /\ state' = state /\ state[k] = "LIVE"
    BY <1>2, <2>1 DEF Charge, Chargeable, UsageAfter, Become
  <2>4. ASSUME NEW q \in Keys, q # k
        PROVE  period'[q] <= month /\ usage'[q] <= charged'[q][period'[q]]
    BY <2>3, <2>4 DEF CountInv, NoPhantomUsage, TypeOK
  <2>5. period'[k] <= month /\ usage'[k] <= charged'[k][period'[k]]
    <3>1. /\ period'[k] = n /\ charged'[k][n] = charged[k][n] + 1
          /\ usage'[k] = IF period[k] = n THEN usage[k] + 1 ELSE 1
      BY <2>3 DEF TypeOK
    <3>2. usage[k] \in Nat /\ charged[k][n] \in Nat
      BY RowFields
    <3>3. usage[k] <= charged[k][period[k]]
      BY DEF CountInv, NoPhantomUsage
    <3> QED BY <2>2, <3>1, <3>2, <3>3
  <2>6. \A q \in Keys : state'[q] = "ABSENT" => usage'[q] = 0
    BY <2>3 DEF CountInv, TypeOK
  <2>7. \A g \in Requests : task'[g].kind \in {"lookup", "charge"} => task'[g].month <= month
    BY <2>3 DEF CountInv, TypeOK, Idle
  <2> QED BY <2>3, <2>4, <2>5, <2>6, <2>7 DEF CountInv, NoPhantomUsage
<1>3. ASSUME NEW k \in Keys, Revoke(k)
      PROVE  CountInv'
  BY <1>3 DEF Revoke, CountInv, NoPhantomUsage, TypeOK
<1>4. ASSUME NEW h \in Requests, NEW k \in Keys, Begin(h, k)
      PROVE  CountInv'
  <2>1. task' = [task EXCEPT ![h] = [kind |-> "lookup", key |-> k, month |-> month]]
        /\ UNCHANGED <<month, state, usage, period, charged>>
    BY <1>4 DEF Begin, Become
  <2>2. \A g \in Requests : task'[g].kind \in {"lookup", "charge"} => task'[g].month <= month
    BY <2>1 DEF CountInv, TypeOK, Months
  <2> QED BY <2>1, <2>2 DEF CountInv, NoPhantomUsage
<1>5. ASSUME NEW h \in Requests, Lookup(h) \/ Refuse(h) \/ End(h)
      PROVE  CountInv'
  <2>1. UNCHANGED <<month, state, usage, period, charged>>
    BY <1>5 DEF Lookup, Refuse, End
  <2>2. PICK n : n = task[h].month
    OBVIOUS
  <2>3. \A g \in Requests : task'[g].kind \in {"lookup", "charge"} => task'[g].month <= month
    <3>1. CASE Lookup(h)
      <4>1. PICK k \in Keys, m \in Months :
              task[h] = [kind |-> "lookup", key |-> k, month |-> m]
        BY <3>1, TaskFields DEF Lookup
      <4>2. task' = [task EXCEPT ![h] = [kind |-> "charge", key |-> k, month |-> m]]
        <5>1. [task[h] EXCEPT !.kind = "charge"] = [kind |-> "charge", key |-> k, month |-> m]
          BY <4>1
        <5> QED BY <3>1, <5>1 DEF Lookup, Become
      <4>3. m <= month
        BY <4>1 DEF CountInv
      <4> QED BY <4>2, <4>3 DEF CountInv, TypeOK
    <3>2. CASE Refuse(h) \/ End(h)
      BY <3>2 DEF Refuse, End, Become, CountInv, TypeOK, Idle
    <3> QED BY <1>5, <3>1, <3>2
  <2> QED BY <2>1, <2>3 DEF CountInv, NoPhantomUsage
<1>6. CASE NextMonth
  <2>1. month' = month + 1 /\ UNCHANGED <<state, usage, period, charged, task>>
    BY <1>6 DEF NextMonth
  <2>2. month \in Int /\ \A k \in Keys : period[k] \in Int
    BY RowFields DEF TypeOK, Months
  <2>3. ASSUME NEW h \in Requests, task[h].kind \in {"lookup", "charge"}
        PROVE  task[h].month \in Int
    <3>1. task[h].month \in Months
      BY <2>3, TaskFields
    <3> QED BY <3>1 DEF Months
  <2> QED BY <2>1, <2>2, <2>3 DEF CountInv, NoPhantomUsage
<1>7. CASE UNCHANGED vars
  BY <1>7 DEF vars, CountInv, NoPhantomUsage
<1> QED BY <1>1, <1>2, <1>3, <1>4, <1>5, <1>6, <1>7 DEF Next

(* A key's row counts only requests it has let through in the row's month.  *)
THEOREM UsageNeverPhantom == Spec => []NoPhantomUsage
<1>1. Init => CountInv
  BY KeyAssumption DEF Init, CountInv, NoPhantomUsage, Months, Idle
<1>2. TypeOK /\ CountInv /\ [Next]_vars => CountInv'
  BY CountStep
<1>3. CountInv => NoPhantomUsage
  BY DEF CountInv
<1> QED BY <1>1, <1>2, <1>3, TypeCorrect, PTL DEF Spec

(* Revocation holds against every request, those in flight included.        *)
THEOREM RevocationAlwaysHolds == Spec => RevocationHolds
<1>1. TypeOK /\ [Next]_vars => [\A k \in Keys : RevokedForGood(k)]_vars
  <2> SUFFICES ASSUME TypeOK, Next, NEW k \in Keys, state[k] = "REVOKED"
               PROVE  state'[k] = "REVOKED" /\ charged'[k] = charged[k] /\ usage'[k] = usage[k]
    BY DEF RevokedForGood
  <2> USE DEF row, history
  <2>1. ASSUME NEW q \in Keys, Generate(q) \/ Revoke(q)
        PROVE  state'[k] = "REVOKED" /\ UNCHANGED <<charged, usage>>
    BY <2>1 DEF Generate, Revoke, TypeOK
  <2>2. ASSUME NEW h \in Requests, Charge(h)
        PROVE  state'[k] = "REVOKED" /\ charged'[k] = charged[k] /\ usage'[k] = usage[k]
    <3>1. task[h].key # k /\ state' = state
      BY <2>2 DEF Charge, Chargeable
    <3>2. usage'[k] = usage[k]
      BY <2>2, <3>1 DEF Charge, TypeOK
    <3>3. charged'[k] = charged[k]
      BY <2>2, <3>1 DEF Charge, TypeOK
    <3> QED BY <3>1, <3>2, <3>3
  <2>3. ASSUME NEW h \in Requests,
               Lookup(h) \/ Refuse(h) \/ End(h) \/ \E q \in Keys : Begin(h, q)
        PROVE  UNCHANGED <<state, charged, usage>>
    BY <2>3 DEF Lookup, Refuse, End, Begin
  <2>4. NextMonth => UNCHANGED <<state, charged, usage>>
    BY DEF NextMonth
  <2> QED BY <2>1, <2>2, <2>3, <2>4 DEF Next
<1> QED BY <1>1, TypeCorrect, PTL DEF Spec, RevocationHolds
====
