---------------------- MODULE EdgeCircuitBreakerProofs ----------------------
(***************************************************************************)
(* Proofs about EdgeCircuitBreaker for any number of requests in flight,   *)
(* any limits and any times to live.                                       *)
(***************************************************************************)
EXTENDS EdgeCircuitBreaker, FiniteSetTheorems, TLAPS

USE DEF trip, epochs, budgets, loops, charges, store, history

LEMMA TimesToLive == BudgetTTL \in Nat /\ LoopTTL \in Nat /\ AtLeast(MinTTL, CoolOff) \in Nat
BY BreakerAssumption DEF BudgetTTL, LoopTTL, AtLeast

(* What the reads of the store return. *)
LEMMA ReadTypes ==
  ASSUME TypeOK
  PROVE  /\ CurrentEpoch \in Times
         /\ \A e \in Times : StoredBudget(e) \in 0 .. Actions
         /\ \A e \in Times, s \in Signatures : StoredCalls(e, s) \in SUBSET Stamps
<1>1. CurrentEpoch \in Times
  BY BreakerAssumption DEF TypeOK, CurrentEpoch, Times
<1>2. ASSUME NEW e \in Times PROVE StoredBudget(e) \in 0 .. Actions
  BY <1>2, BreakerAssumption DEF TypeOK, StoredBudget
<1>3. ASSUME NEW e \in Times, NEW s \in Signatures PROVE StoredCalls(e, s) \in SUBSET Stamps
  BY <1>3 DEF TypeOK, StoredCalls
<1> QED BY <1>1, <1>2, <1>3

(* The fields a request in flight carries, by its kind. *)
LEMMA TaskFields ==
  ASSUME TypeOK, NEW h \in Requests
  PROVE  /\ task[h].kind \in {"idle", "start", "epoch", "budget", "calls", "trip", "record",
                              "reset"}
         /\ task[h].kind \in {"start", "epoch", "budget", "calls", "trip", "record"} =>
              task[h].own \in Stamps
         /\ task[h].kind \in {"start", "epoch", "budget", "calls", "record"} =>
              task[h].sig \in Signatures
         /\ task[h].kind \in {"budget", "calls", "record", "reset"} => task[h].epoch \in Times
         /\ task[h].kind \in {"calls", "record"} => task[h].count \in Counts
         /\ task[h].kind = "start" =>
              task[h] = [kind |-> "start", sig |-> task[h].sig, own |-> task[h].own]
         /\ task[h].kind = "record" =>
              /\ task[h].list \in SUBSET Stamps
              /\ task[h].left \in SUBSET {"calls", "budget"}
              /\ task[h] = [kind |-> "record", sig |-> task[h].sig, own |-> task[h].own,
                            epoch |-> task[h].epoch, count |-> task[h].count,
                            list |-> task[h].list, left |-> task[h].left]
         /\ task[h].kind = "reset" =>
              /\ task[h].left \in SUBSET {"trip", "epoch"}
              /\ task[h] = [kind |-> "reset", epoch |-> task[h].epoch, left |-> task[h].left]
BY DEF TypeOK, Tasks, Idle

(* A request in flight becomes another one of the types there are. *)
LEMMA Becoming ==
  ASSUME TypeOK, NEW h \in Requests, NEW next \in Tasks, Become(h, next)
  PROVE  task' \in [Requests -> Tasks]
BY DEF TypeOK, Become

(* What is left of a record or a reset after one of its writes. *)
Less(request, write) == [request EXCEPT !.left = @ \ {write}]

LEMMA LessLeft ==
  ASSUME TypeOK, NEW h \in Requests, NEW write, task[h].kind \in {"record", "reset"}
  PROVE  Less(task[h], write) \in Tasks
<1>1. CASE task[h].kind = "record"
  <2>0. /\ task[h].sig \in Signatures /\ task[h].own \in Stamps
        /\ task[h].epoch \in Times /\ task[h].count \in Counts
        /\ task[h].list \in SUBSET Stamps /\ task[h].left \in SUBSET {"calls", "budget"}
        /\ task[h] = [kind |-> "record", sig |-> task[h].sig, own |-> task[h].own,
                      epoch |-> task[h].epoch, count |-> task[h].count,
                      list |-> task[h].list, left |-> task[h].left]
    BY <1>1, TaskFields
  <2>1. Less(task[h], write) =
          [kind |-> "record", sig |-> task[h].sig, own |-> task[h].own,
           epoch |-> task[h].epoch, count |-> task[h].count,
           list |-> task[h].list, left |-> task[h].left \ {write}]
    BY <2>0 DEF Less
  <2> QED BY <2>0, <2>1 DEF Tasks
<1>2. CASE task[h].kind = "reset"
  <2>0. /\ task[h].epoch \in Times /\ task[h].left \in SUBSET {"trip", "epoch"}
        /\ task[h] = [kind |-> "reset", epoch |-> task[h].epoch, left |-> task[h].left]
    BY <1>2, TaskFields
  <2>1. Less(task[h], write) =
          [kind |-> "reset", epoch |-> task[h].epoch, left |-> task[h].left \ {write}]
    BY <2>0 DEF Less
  <2> QED BY <2>0, <2>1 DEF Tasks
<1> QED BY <1>1, <1>2

(* Every step keeps the store and the requests in flight within their types. *)
LEMMA TypeStep ==
  ASSUME TypeOK, [Next]_vars
  PROVE  TypeOK'
<1> USE BreakerAssumption
<1>idle. Idle \in Tasks
  BY DEF Tasks
<1>1. ASSUME NEW h \in Requests, NEW s \in Signatures, Begin(h, s)
      PROVE  TypeOK'
  <2>1. [at |-> now, nth |-> begun] \in Stamps
    BY DEF TypeOK, Times, Stamps
  <2>2. [kind |-> "start", sig |-> s, own |-> [at |-> now, nth |-> begun]] \in Tasks
    BY <2>1 DEF Tasks
  <2>3. task' \in [Requests -> Tasks]
    BY <1>1, <2>2, Becoming DEF Begin
  <2>4. overlapped' \in BOOLEAN
    BY <1>1, Zenon DEF Begin
  <2>5. begun' \in 0 .. MaxCalls
    BY <1>1 DEF Begin, TypeOK
  <2> QED BY <1>1, <2>3, <2>4, <2>5 DEF Begin, TypeOK
<1>2. ASSUME NEW h \in Requests, ReadTrip(h)
      PROVE  TypeOK'
  <2>0. /\ task[h].sig \in Signatures /\ task[h].own \in Stamps
        /\ task[h] = [kind |-> "start", sig |-> task[h].sig, own |-> task[h].own]
    BY <1>2, TaskFields DEF ReadTrip
  <2>1. [task[h] EXCEPT !.kind = "epoch"] =
          [kind |-> "epoch", sig |-> task[h].sig, own |-> task[h].own]
    BY <2>0
  <2>2. [task[h] EXCEPT !.kind = "epoch"] \in Tasks
    BY <2>0, <2>1 DEF Tasks
  <2>3. task' \in [Requests -> Tasks]
    BY <1>2, <2>2, <1>idle, Becoming DEF ReadTrip
  <2> QED BY <1>2, <2>3 DEF ReadTrip, TypeOK
<1>3. ASSUME NEW h \in Requests, ReadEpoch(h)
      PROVE  TypeOK'
  <2>1. [kind |-> "budget", sig |-> task[h].sig, own |-> task[h].own,
         epoch |-> CurrentEpoch] \in Tasks
    BY <1>3, TaskFields, ReadTypes DEF ReadEpoch, Tasks
  <2>2. task' \in [Requests -> Tasks]
    BY <1>3, <2>1, Becoming DEF ReadEpoch
  <2> QED BY <1>3, <2>2 DEF ReadEpoch, TypeOK
<1>4. ASSUME NEW h \in Requests, ReadBudget(h)
      PROVE  TypeOK'
  <2>1. [kind |-> "trip", own |-> task[h].own] \in Tasks
    BY <1>4, TaskFields DEF ReadBudget, Tasks
  <2>2. ASSUME ~Exhausted(StoredBudget(task[h].epoch))
        PROVE  StoredBudget(task[h].epoch) \in Counts
    <3>1. task[h].epoch \in Times
      BY <1>4, TaskFields DEF ReadBudget
    <3>2. StoredBudget(task[h].epoch) \in 0 .. Actions
      BY <3>1, ReadTypes
    <3> QED BY <2>2, <3>2 DEF Exhausted, Counts
  <2>3. ASSUME ~Exhausted(StoredBudget(task[h].epoch))
        PROVE  [kind |-> "calls", sig |-> task[h].sig, own |-> task[h].own,
                epoch |-> task[h].epoch, count |-> StoredBudget(task[h].epoch)] \in Tasks
    BY <1>4, <2>2, <2>3, TaskFields DEF ReadBudget, Tasks
  <2>4. task' \in [Requests -> Tasks]
    BY <1>4, <2>1, <2>3, Becoming DEF ReadBudget
  <2> QED BY <1>4, <2>4 DEF ReadBudget, TypeOK
<1>5. ASSUME NEW h \in Requests, ReadCalls(h)
      PROVE  TypeOK'
  <2> DEFINE list == Recent(StoredCalls(task[h].epoch, task[h].sig), task[h].own.at)
  <2>1. /\ task[h].own \in Stamps /\ task[h].sig \in Signatures
        /\ task[h].epoch \in Times /\ task[h].count \in Counts
    BY <1>5, TaskFields DEF ReadCalls
  <2>2. list \cup {task[h].own} \in SUBSET Stamps
    BY <2>1, ReadTypes DEF Recent
  <2>3. [kind |-> "trip", own |-> task[h].own] \in Tasks
    BY <2>1 DEF Tasks
  <2> HIDE DEF list
  <2>4. [kind |-> "record", sig |-> task[h].sig, own |-> task[h].own,
         epoch |-> task[h].epoch, count |-> task[h].count,
         list |-> list \cup {task[h].own}, left |-> {"calls", "budget"}] \in Tasks
    BY <2>1, <2>2 DEF Tasks
  <2>5. task' \in [Requests -> Tasks]
    BY <1>5, <2>3, <2>4, Becoming DEF ReadCalls, list
  <2>6. overlapped' \in BOOLEAN
    BY <1>5, Zenon DEF ReadCalls
  <2> QED BY <1>5, <2>5, <2>6 DEF ReadCalls, TypeOK
<1>6. ASSUME NEW h \in Requests, PutTrip(h)
      PROVE  TypeOK'
  <2>1. task' \in [Requests -> Tasks]
    BY <1>6, <1>idle, Becoming DEF PutTrip
  <2>2. tripAt' \in Nat /\ tripUntil' \in Nat
    <3>1. task[h].own.at \in Nat
      BY <1>6, TaskFields DEF PutTrip, Stamps
    <3>2. now + AtLeast(MinTTL, CoolOff) \in Nat
      BY TimesToLive, SMTT(30) DEF TypeOK, Times
    <3> QED BY <1>6, <3>1, <3>2 DEF PutTrip
  <2> QED BY <1>6, <2>1, <2>2 DEF PutTrip, TypeOK
<1>7. ASSUME NEW h \in Requests, PutCalls(h)
      PROVE  TypeOK'
  <2>1. /\ task[h].epoch \in Times /\ task[h].sig \in Signatures
        /\ task[h].list \in SUBSET Stamps
    BY <1>7, TaskFields DEF PutCalls
  <2>2. task' \in [Requests -> Tasks]
    <3>1. task[h].kind = "record" /\ Become(h, Less(task[h], "calls"))
      BY <1>7 DEF PutCalls, Less
    <3>2. Less(task[h], "calls") \in Tasks
      BY <3>1, LessLeft
    <3> QED BY <3>1, <3>2, Becoming
  <2>3. calls' \in [Times -> [Signatures -> SUBSET Stamps]]
    BY <1>7, <2>1 DEF PutCalls, TypeOK
  <2>4. now + LoopTTL \in Nat
    BY TimesToLive DEF TypeOK, Times
  <2>5. callsUntil' \in [Times -> [Signatures -> Nat]]
    BY <1>7, <2>1, <2>4 DEF PutCalls, TypeOK
  <2> QED BY <1>7, <2>2, <2>3, <2>5 DEF PutCalls, TypeOK
<1>8. ASSUME NEW h \in Requests, PutBudget(h)
      PROVE  TypeOK'
  <2>1. task[h].epoch \in Times /\ task[h].count \in 0 .. Actions - 1
    BY <1>8, TaskFields DEF PutBudget, Counts
  <2>2. task' \in [Requests -> Tasks]
    <3>1. task[h].kind = "record" /\ Become(h, Less(task[h], "budget"))
      BY <1>8 DEF PutBudget, Less
    <3>2. Less(task[h], "budget") \in Tasks
      BY <3>1, LessLeft
    <3> QED BY <3>1, <3>2, Becoming
  <2>3. budget' \in [Times -> 0 .. Actions]
    <3>1. task[h].count + 1 \in 0 .. Actions
      BY <2>1
    <3> QED BY <1>8, <3>1 DEF PutBudget, TypeOK
  <2>4. budgetUntil' \in [Times -> Nat]
    <3>1. now + BudgetTTL \in Nat
      BY TimesToLive DEF TypeOK, Times
    <3> QED BY <1>8, <3>1 DEF PutBudget, TypeOK
  <2>5. counted' \in [Times -> Nat] /\ setBack' \in [Times -> Nat]
    BY <1>8, <2>1 DEF PutBudget, TypeOK
  <2>6. fresh' \in Nat /\ strayed' \in BOOLEAN
    <3>1. fresh' \in Nat
      BY <1>8 DEF PutBudget, TypeOK
    <3>2. strayed' \in BOOLEAN
      BY <1>8, Zenon DEF PutBudget
    <3> QED BY <3>1, <3>2
  <2> QED BY <1>8, <2>2, <2>3, <2>4, <2>5, <2>6 DEF PutBudget, TypeOK
<1>9. ASSUME NEW h \in Requests, Pass(h)
      PROVE  TypeOK'
  <2>1. /\ task[h].epoch \in Times /\ task[h].sig \in Signatures /\ task[h].own \in Stamps
    BY <1>9, TaskFields DEF Pass
  <2>2. task' \in [Requests -> Tasks]
    BY <1>9, <1>idle, Becoming DEF Pass
  <2>3. passed' \in [Times -> [Signatures -> SUBSET Stamps]]
    BY <1>9, <2>1 DEF Pass, TypeOK
  <2> QED BY <1>9, <2>2, <2>3 DEF Pass, TypeOK
<1>10. ASSUME NEW h \in Requests, ResetBegin(h)
       PROVE  TypeOK'
  <2>1. [kind |-> "reset", epoch |-> now, left |-> {"trip", "epoch"}] \in Tasks
    BY DEF TypeOK, Tasks
  <2>2. task' \in [Requests -> Tasks]
    BY <1>10, <2>1, Becoming DEF ResetBegin, EpochOfReset
  <2> QED BY <1>10, <2>2 DEF ResetBegin, TypeOK
<1>11. ASSUME NEW h \in Requests, ResetTrip(h)
       PROVE  TypeOK'
  <2>1. task' \in [Requests -> Tasks]
    <3>1. task[h].kind = "reset" /\ Become(h, Less(task[h], "trip"))
      BY <1>11 DEF ResetTrip, Less
    <3>2. Less(task[h], "trip") \in Tasks
      BY <3>1, LessLeft
    <3> QED BY <3>1, <3>2, Becoming
  <2> QED BY <1>11, <2>1 DEF ResetTrip, TypeOK
<1>12. ASSUME NEW h \in Requests, ResetEpoch(h)
       PROVE  TypeOK'
  <2>1. task' \in [Requests -> Tasks]
    <3>1. task[h].kind = "reset" /\ Become(h, Less(task[h], "epoch"))
      BY <1>12 DEF ResetEpoch, Less
    <3>2. Less(task[h], "epoch") \in Tasks
      BY <3>1, LessLeft
    <3> QED BY <3>1, <3>2, Becoming
  <2>2. epoch' \in Times /\ epochUntil' \in Nat
    <3>1. task[h].epoch \in Times
      BY <1>12, TaskFields DEF ResetEpoch
    <3>2. now + EpochTTL \in Nat
      BY DEF TypeOK, Times
    <3> QED BY <1>12, <3>1, <3>2 DEF ResetEpoch
  <2>3. old' \subseteq Requests
    BY <1>12 DEF ResetEpoch
  <2> QED BY <1>12, <2>1, <2>2, <2>3 DEF ResetEpoch, TypeOK
<1>13. ASSUME NEW h \in Requests, End(h)
       PROVE  TypeOK'
  <2>1. task' \in [Requests -> Tasks]
    BY <1>13, <1>idle, Becoming DEF End
  <2> QED BY <1>13, <2>1 DEF End, TypeOK
<1>14. CASE Tick
  <2>1. now' \in Times
    BY <1>14 DEF Tick, TypeOK, Times
  <2> QED BY <1>14, <2>1 DEF Tick, TypeOK
<1>15. CASE UNCHANGED vars
  BY <1>15 DEF vars, TypeOK
<1> QED BY <1>1, <1>2, <1>3, <1>4, <1>5, <1>6, <1>7, <1>8, <1>9, <1>10, <1>11, <1>12, <1>13,
           <1>14, <1>15 DEF Next

LEMMA InitialType == Init => TypeOK
<1> SUFFICES ASSUME Init PROVE TypeOK
  OBVIOUS
<1>1. 0 \in Times /\ 1 \in Times /\ 0 \in 0 .. Actions /\ 0 \in 0 .. MaxCalls
  BY BreakerAssumption DEF Times
<1>2. task \in [Requests -> Tasks]
  BY DEF Init, Tasks
<1> QED BY <1>1, <1>2 DEF Init, TypeOK

(* The type invariant holds in every behaviour, for any values of the constants. *)
THEOREM TypeCorrect == Spec => []TypeOK
<1> QED BY InitialType, TypeStep, PTL DEF Spec

---------------------------------------------------------------------------
(* The budget.  Since a key was last found lapsed, every charge either     *)
(* moved the counter up or is one of those that took it back by less than  *)
(* the whole budget: that is inductive, and the limit follows.             *)

BudgetInv == \A e \in Times : counted[e] <= budget[e] + Actions * setBack[e]

LEMMA BudgetStep ==
  ASSUME TypeOK, BudgetInv, [Next]_vars
  PROVE  BudgetInv'
<1> SUFFICES ASSUME NEW e \in Times
             PROVE  counted'[e] <= budget'[e] + Actions * setBack'[e]
  BY DEF BudgetInv
<1>1. counted[e] <= budget[e] + Actions * setBack[e]
  BY DEF BudgetInv
<1>2. CASE counted' = counted /\ budget' = budget /\ setBack' = setBack
  BY <1>1, <1>2
<1>3. ASSUME NEW h \in Requests, PutBudget(h)
      PROVE  counted'[e] <= budget'[e] + Actions * setBack'[e]
  <2> DEFINE f == task[h].epoch
             charged == task[h].count + 1
  <2>1. f \in Times /\ charged \in 1 .. Actions
    <3>1. task[h].epoch \in Times /\ task[h].count \in 0 .. Actions - 1
      BY <1>3, TaskFields DEF PutBudget, Counts
    <3> QED BY <3>1, BreakerAssumption
  <2> HIDE DEF f, charged
  <2>2. /\ budget' = [budget EXCEPT ![f] = charged]
        /\ counted' = [counted EXCEPT ![f] =
             IF ~(now < budgetUntil[f]) THEN 1 ELSE counted[f] + 1]
        /\ setBack' = [setBack EXCEPT ![f] =
             IF ~(now < budgetUntil[f]) THEN 0
             ELSE IF charged <= budget[f] THEN setBack[f] + 1 ELSE setBack[f]]
    BY <1>3 DEF PutBudget, f, charged
  <2>3. /\ counted \in [Times -> Nat] /\ setBack \in [Times -> Nat]
        /\ budget \in [Times -> 0 .. Actions]
    BY DEF TypeOK
  <2>4. CASE e # f
    BY <1>1, <2>1, <2>2, <2>3, <2>4
  <2>5. CASE e = f /\ ~(now < budgetUntil[f])
    <3>1. budget'[e] = charged /\ counted'[e] = 1 /\ setBack'[e] = 0
      BY <2>1, <2>2, <2>3, <2>5
    <3> QED BY <2>1, <3>1, BreakerAssumption
  <2>6. CASE e = f /\ now < budgetUntil[f] /\ charged <= budget[f]
    <3>1. budget'[e] = charged /\ counted'[e] = counted[e] + 1 /\ setBack'[e] = setBack[e] + 1
      BY <2>1, <2>2, <2>3, <2>6
    <3>2. Actions * (setBack[e] + 1) = Actions * setBack[e] + Actions
      BY <2>3, BreakerAssumption
    <3>3. /\ counted[e] \in Nat /\ budget[e] \in 0 .. Actions
          /\ Actions * setBack[e] \in Nat
      BY <2>3, BreakerAssumption
    <3> QED BY <1>1, <2>1, <3>1, <3>2, <3>3, BreakerAssumption
  <2>7. CASE e = f /\ now < budgetUntil[f] /\ ~(charged <= budget[f])
    <3>1. budget'[e] = charged /\ counted'[e] = counted[e] + 1 /\ setBack'[e] = setBack[e]
      BY <2>1, <2>2, <2>3, <2>7
    <3>2. /\ counted[e] \in Nat /\ budget[e] \in 0 .. Actions
          /\ Actions * setBack[e] \in Nat
      BY <2>3, BreakerAssumption
    <3> QED BY <1>1, <2>1, <2>7, <3>1, <3>2, BreakerAssumption
  <2> QED BY <2>4, <2>5, <2>6, <2>7
<1> QED
  BY <1>2, <1>3 DEF Next, vars, Begin, ReadTrip, ReadEpoch, ReadBudget, ReadCalls, PutTrip,
     PutCalls, Pass, ResetBegin, ResetTrip, ResetEpoch, End, Tick

(* No epoch's budget is overrun by more than a budget for each charge that took it back. *)
THEOREM BudgetHoldsButForOverlaps == Spec => []BudgetButForOverlaps
<1>1. Init => BudgetInv
  BY BreakerAssumption DEF Init, BudgetInv
<1>2. TypeOK /\ BudgetInv => BudgetButForOverlaps
  <2> SUFFICES ASSUME TypeOK, BudgetInv, NEW e \in Times
               PROVE  counted[e] <= Actions * (setBack[e] + 1)
    BY DEF BudgetButForOverlaps
  <2>1. /\ counted[e] \in Nat /\ budget[e] \in 0 .. Actions /\ setBack[e] \in Nat
        /\ counted[e] <= budget[e] + Actions * setBack[e]
    BY DEF TypeOK, BudgetInv
  <2>2. Actions * (setBack[e] + 1) = Actions * setBack[e] + Actions
    BY <2>1, BreakerAssumption
  <2>3. Actions * setBack[e] \in Nat
    BY <2>1, BreakerAssumption
  <2> QED BY <2>1, <2>2, <2>3, BreakerAssumption
<1> QED BY <1>1, <1>2, TypeCorrect, BudgetStep, PTL DEF Spec

---------------------------------------------------------------------------
(* The reset.  A reset in flight holds an epoch nobody has used; once it   *)
(* is stored, every budget an unfinished or later request can find is one  *)
(* that was charged since, or it lapses before the epoch does.             *)

Carries(h) == task[h].kind \in {"budget", "calls", "record"}
Counting(h) == task[h].kind \in {"calls", "record"}
Pending(h) == task[h].kind = "reset" /\ "epoch" \in task[h].left

Unused(e) ==
  e > 0 /\ e # epoch /\ budget[e] = 0 /\ \A h \in Requests : Carries(h) => task[h].epoch # e

EpochInv ==
  /\ \A e \in Times : e > lastReset => Unused(e)
  /\ \A h \in Requests : Pending(h) => task[h].epoch <= lastReset /\ Unused(task[h].epoch)
  /\ \A h, k \in Requests : Pending(h) /\ Pending(k) /\ h # k => task[h].epoch # task[k].epoch

LapseInv == \A e \in Times : budgetUntil[e] <= now + BudgetTTL

FreshInv ==
  /\ \A h \in Requests : h \notin old /\ Carries(h) => task[h].epoch = epoch \/ now >= epochUntil
  /\ ~strayed =>
       /\ \A e \in Times :
            budget[e] <= fresh \/ (budgetUntil[e] <= epochUntil /\ e # epoch)
       /\ \A h \in Requests : h \notin old /\ Counting(h) => task[h].count <= fresh

(* How a request comes to carry an epoch, a count and a reset. *)
LEMMA Moves ==
  ASSUME TypeOK, [Next]_vars, NEW k \in Requests
  PROVE  /\ Carries(k)' => \/ Carries(k) /\ task'[k].epoch = task[k].epoch
                           \/ ReadEpoch(k) /\ task'[k].epoch = CurrentEpoch
         /\ Counting(k)' => \/ Counting(k) /\ task'[k].count = task[k].count
                            \/ /\ ReadBudget(k)
                               /\ task'[k].count = StoredBudget(task[k].epoch)
         /\ Pending(k)' => \/ Pending(k) /\ task'[k].epoch = task[k].epoch
                           \/ ResetBegin(k) /\ task'[k].epoch = now
<1> USE DEF Carries, Counting, Pending, Become
<1> DEFINE G == /\ Carries(k)' => \/ Carries(k) /\ task'[k].epoch = task[k].epoch
                                  \/ ReadEpoch(k) /\ task'[k].epoch = CurrentEpoch
                /\ Counting(k)' => \/ Counting(k) /\ task'[k].count = task[k].count
                                   \/ /\ ReadBudget(k)
                                      /\ task'[k].count = StoredBudget(task[k].epoch)
                /\ Pending(k)' => \/ Pending(k) /\ task'[k].epoch = task[k].epoch
                                  \/ ResetBegin(k) /\ task'[k].epoch = now
<1>0. task \in [Requests -> Tasks]
  BY DEF TypeOK
<1>1. ASSUME task'[k] = task[k] PROVE G
  BY <1>1
<1> SUFFICES ASSUME task'[k] # task[k] PROVE G
  BY <1>1
<1>2. ASSUME NEW h \in Requests, NEW next, task' = [task EXCEPT ![h] = next]
      PROVE  h = k /\ task'[k] = next
  BY <1>0, <1>2
<1>3. ASSUME NEW h \in Requests, NEW s \in Signatures, Begin(h, s) PROVE G
  <2>1. task'[k] = [kind |-> "start", sig |-> s, own |-> [at |-> now, nth |-> begun]]
    BY <1>3, <1>2 DEF Begin
  <2> QED BY <2>1
<1>4. ASSUME NEW h \in Requests, ReadTrip(h) PROVE G
  <2>1. h = k /\ task'[k] \in {Idle, [task[k] EXCEPT !.kind = "epoch"]}
    BY <1>4, <1>2 DEF ReadTrip
  <2>2. task[k] = [kind |-> "start", sig |-> task[k].sig, own |-> task[k].own]
    BY <1>4, <2>1, TaskFields DEF ReadTrip
  <2>3. task'[k].kind \in {"idle", "epoch"}
    BY <2>1, <2>2 DEF Idle
  <2> QED BY <2>3
<1>5. ASSUME NEW h \in Requests, ReadEpoch(h) PROVE G
  <2>1. /\ ReadEpoch(k)
        /\ task'[k] = [kind |-> "budget", sig |-> task[k].sig, own |-> task[k].own,
                       epoch |-> CurrentEpoch]
    BY <1>5, <1>2 DEF ReadEpoch
  <2> QED BY <2>1
<1>6. ASSUME NEW h \in Requests, ReadBudget(h) PROVE G
  <2>1. /\ ReadBudget(k) /\ task[k].kind = "budget"
        /\ \/ task'[k] = [kind |-> "trip", own |-> task[k].own]
           \/ task'[k] = [kind |-> "calls", sig |-> task[k].sig, own |-> task[k].own,
                          epoch |-> task[k].epoch, count |-> StoredBudget(task[k].epoch)]
    BY <1>6, <1>2 DEF ReadBudget
  <2> QED BY <2>1
<1>7. ASSUME NEW h \in Requests, ReadCalls(h) PROVE G
  <2> DEFINE list == Recent(StoredCalls(task[k].epoch, task[k].sig), task[k].own.at)
  <2>1. /\ task[k].kind = "calls"
        /\ \/ task'[k] = [kind |-> "trip", own |-> task[k].own]
           \/ task'[k] = [kind |-> "record", sig |-> task[k].sig, own |-> task[k].own,
                          epoch |-> task[k].epoch, count |-> task[k].count,
                          list |-> list \cup {task[k].own}, left |-> {"calls", "budget"}]
    BY <1>7, <1>2 DEF ReadCalls
  <2> QED BY <2>1
<1>8. ASSUME NEW h \in Requests, PutCalls(h) \/ PutBudget(h) PROVE G
  <2>1. /\ task[k].kind = "record"
        /\ \E w \in {"calls", "budget"} : task'[k] = [task[k] EXCEPT !.left = @ \ {w}]
    BY <1>8, <1>2 DEF PutCalls, PutBudget
  <2>2. task[k] = [kind |-> "record", sig |-> task[k].sig, own |-> task[k].own,
                   epoch |-> task[k].epoch, count |-> task[k].count,
                   list |-> task[k].list, left |-> task[k].left]
    BY <2>1, TaskFields
  <2>3. /\ task'[k].kind = "record" /\ task'[k].epoch = task[k].epoch
        /\ task'[k].count = task[k].count
    BY <2>1, <2>2
  <2> QED BY <2>1, <2>3
<1>9. ASSUME NEW h \in Requests, PutTrip(h) \/ Pass(h) \/ End(h) PROVE G
  <2>1. task'[k].kind = "idle"
    BY <1>9, <1>2 DEF PutTrip, Pass, End, Idle
  <2> QED BY <2>1
<1>10. ASSUME NEW h \in Requests, ResetBegin(h) PROVE G
  <2>1. /\ ResetBegin(k)
        /\ task'[k] = [kind |-> "reset", epoch |-> now, left |-> {"trip", "epoch"}]
    BY <1>10, <1>2 DEF ResetBegin, EpochOfReset
  <2> QED BY <2>1
<1>11. ASSUME NEW h \in Requests, ResetTrip(h) \/ ResetEpoch(h) PROVE G
  <2>1. /\ task[k].kind = "reset"
        /\ \E w \in {"trip", "epoch"} : task'[k] = [task[k] EXCEPT !.left = @ \ {w}]
    BY <1>11, <1>2 DEF ResetTrip, ResetEpoch
  <2>2. task[k] = [kind |-> "reset", epoch |-> task[k].epoch, left |-> task[k].left]
    BY <2>1, TaskFields
  <2>3. /\ task'[k].kind = "reset" /\ task'[k].epoch = task[k].epoch
        /\ task'[k].left \subseteq task[k].left
    BY <2>1, <2>2
  <2> QED BY <2>1, <2>3
<1>12. CASE Tick \/ UNCHANGED vars
  BY <1>12 DEF Tick, vars
<1> QED BY <1>3, <1>4, <1>5, <1>6, <1>7, <1>8, <1>9, <1>10, <1>11, <1>12 DEF Next

(* Which steps change which part of the store. *)
LEMMA Frame ==
  ASSUME [Next]_vars
  PROVE  /\ \/ epoch' = epoch /\ epochUntil' = epochUntil
            \/ \E h \in Requests : ResetEpoch(h)
         /\ \/ budget' = budget /\ budgetUntil' = budgetUntil
            \/ \E h \in Requests : PutBudget(h)
         /\ \/ lastReset' = lastReset
            \/ \E h \in Requests : ResetBegin(h)
         /\ \/ fresh' = fresh /\ strayed' = strayed
            \/ \E h \in Requests : PutBudget(h) \/ ResetEpoch(h)
         /\ \/ old' = old
            \/ \E h \in Requests : \/ \E s \in Signatures : Begin(h, s)
                                   \/ ResetEpoch(h)
<1> DEFINE Kept == /\ epoch' = epoch /\ epochUntil' = epochUntil
                   /\ budget' = budget /\ budgetUntil' = budgetUntil
                   /\ lastReset' = lastReset
                   /\ fresh' = fresh /\ strayed' = strayed
<1> USE DEF store, trip, epochs, budgets, loops, charges, history
<1>1. ASSUME NEW h \in Requests, NEW s \in Signatures, Begin(h, s)
      PROVE  Kept
  BY <1>1 DEF Begin
<1>2. ASSUME NEW h \in Requests, ReadTrip(h) \/ ReadEpoch(h) \/ ReadBudget(h)
      PROVE  Kept /\ old' = old
  BY <1>2 DEF ReadTrip, ReadEpoch, ReadBudget
<1>3. ASSUME NEW h \in Requests, ReadCalls(h)
      PROVE  Kept /\ old' = old
  BY <1>3 DEF ReadCalls
<1>4. ASSUME NEW h \in Requests, PutTrip(h) \/ PutCalls(h)
      PROVE  Kept /\ old' = old
  BY <1>4 DEF PutTrip, PutCalls
<1>5. ASSUME NEW h \in Requests, PutBudget(h)
      PROVE  /\ epoch' = epoch /\ epochUntil' = epochUntil
             /\ lastReset' = lastReset /\ old' = old
  BY <1>5 DEF PutBudget
<1>6. ASSUME NEW h \in Requests, Pass(h)
      PROVE  Kept /\ old' = old
  BY <1>6 DEF Pass
<1>7. ASSUME NEW h \in Requests, ResetBegin(h)
      PROVE  /\ epoch' = epoch /\ epochUntil' = epochUntil
             /\ budget' = budget /\ budgetUntil' = budgetUntil
             /\ fresh' = fresh /\ strayed' = strayed /\ old' = old
  BY <1>7 DEF ResetBegin
<1>8. ASSUME NEW h \in Requests, ResetTrip(h)
      PROVE  Kept /\ old' = old
  BY <1>8 DEF ResetTrip
<1>9. ASSUME NEW h \in Requests, ResetEpoch(h)
      PROVE  budget' = budget /\ budgetUntil' = budgetUntil /\ lastReset' = lastReset
  BY <1>9 DEF ResetEpoch
<1>10. ASSUME NEW h \in Requests, End(h)
       PROVE  Kept /\ old' = old
  BY <1>10 DEF End
<1>11. Tick => Kept /\ old' = old
  BY DEF Tick
<1>12. UNCHANGED vars => Kept /\ old' = old
  BY DEF vars
<1> HIDE DEF Kept
<1>13. \/ Kept /\ old' = old
       \/ \E h \in Requests : \/ \E s \in Signatures : Begin(h, s)
                              \/ PutBudget(h) \/ ResetBegin(h) \/ ResetEpoch(h)
  <2>1. CASE Next
    BY <2>1, <1>2, <1>3, <1>4, <1>6, <1>8, <1>10, <1>11 DEF Next
  <2> QED BY <2>1, <1>12
<1> HIDE DEF store, trip, epochs, budgets, loops, charges, history
<1> DEFINE Framed ==
         /\ \/ epoch' = epoch /\ epochUntil' = epochUntil
            \/ \E h \in Requests : ResetEpoch(h)
         /\ \/ budget' = budget /\ budgetUntil' = budgetUntil
            \/ \E h \in Requests : PutBudget(h)
         /\ \/ lastReset' = lastReset
            \/ \E h \in Requests : ResetBegin(h)
         /\ \/ fresh' = fresh /\ strayed' = strayed
            \/ \E h \in Requests : PutBudget(h) \/ ResetEpoch(h)
         /\ \/ old' = old
            \/ \E h \in Requests : \/ \E s \in Signatures : Begin(h, s)
                                   \/ ResetEpoch(h)
<1>14. ASSUME Kept, old' = old
       PROVE  Framed
  BY <1>14 DEF Kept
<1>15. ASSUME NEW h \in Requests, NEW s \in Signatures, Begin(h, s)
       PROVE  Framed
  BY <1>15, <1>1 DEF Kept
<1>16. ASSUME NEW h \in Requests, PutBudget(h)
       PROVE  Framed
  BY <1>16, <1>5
<1>17. ASSUME NEW h \in Requests, ResetBegin(h)
       PROVE  Framed
  BY <1>17, <1>7
<1>18. ASSUME NEW h \in Requests, ResetEpoch(h)
       PROVE  Framed
  BY <1>18, <1>9
<1>19. Framed
  <2> HIDE DEF Framed
  <2>1. ASSUME NEW h \in Requests,
               \/ \E s \in Signatures : Begin(h, s)
               \/ PutBudget(h) \/ ResetBegin(h) \/ ResetEpoch(h)
        PROVE  Framed
    <3>1. CASE \E s \in Signatures : Begin(h, s)
      BY <3>1, <1>15
    <3>2. CASE PutBudget(h)
      BY <3>2, <1>16
    <3>3. CASE ResetBegin(h)
      BY <3>3, <1>17
    <3>4. CASE ResetEpoch(h)
      BY <3>4, <1>18
    <3> QED BY <2>1, <3>1, <3>2, <3>3, <3>4
  <2>2. CASE Kept /\ old' = old
    BY <2>2, <1>14
  <2>3. CASE \E h \in Requests : \/ \E s \in Signatures : Begin(h, s)
                                 \/ PutBudget(h) \/ ResetBegin(h) \/ ResetEpoch(h)
    <3>1. PICK h \in Requests : \/ \E s \in Signatures : Begin(h, s)
                               \/ PutBudget(h) \/ ResetBegin(h) \/ ResetEpoch(h)
      BY <2>3, Zenon
    <3> HIDE DEF Kept
    <3> QED BY <3>1, <2>1
  <2> QED BY <1>13, <2>2, <2>3, Zenon
<1> QED BY <1>19

LEMMA ClockForward == ASSUME TypeOK, [Next]_vars PROVE now' \in Nat /\ now \in Nat /\ now <= now'
<1>1. ASSUME NEW h \in Requests,
             \/ \E s \in Signatures : Begin(h, s)
             \/ ReadTrip(h) \/ ReadEpoch(h) \/ ReadBudget(h) \/ ReadCalls(h)
      PROVE  now' = now
  BY <1>1 DEF Begin, ReadTrip, ReadEpoch, ReadBudget, ReadCalls
<1>2. ASSUME NEW h \in Requests,
             PutTrip(h) \/ PutCalls(h) \/ PutBudget(h) \/ Pass(h) \/ End(h)
      PROVE  now' = now
  BY <1>2 DEF PutTrip, PutCalls, PutBudget, Pass, End
<1>3. ASSUME NEW h \in Requests, ResetBegin(h) \/ ResetTrip(h) \/ ResetEpoch(h)
      PROVE  now' = now
  BY <1>3 DEF ResetBegin, ResetTrip, ResetEpoch
<1>4. UNCHANGED vars => now' = now
  BY DEF vars
<1>5. now' = now \/ Tick
  BY <1>1, <1>2, <1>3, <1>4, Zenon DEF Next
<1> QED BY <1>5, SMTT(30) DEF TypeOK, Times, Tick

LEMMA LapseStep ==
  ASSUME TypeOK, LapseInv, [Next]_vars
  PROVE  LapseInv'
<1>1. BudgetTTL \in Nat /\ BudgetTTL' = BudgetTTL
  BY TimesToLive DEF BudgetTTL, AtLeast
<1> SUFFICES ASSUME NEW e \in Times PROVE budgetUntil'[e] <= now' + BudgetTTL
  BY <1>1 DEF LapseInv, Times
<1>2. /\ now \in Nat /\ now' \in Nat /\ now <= now'
      /\ budgetUntil \in [Times -> Nat] /\ budgetUntil[e] <= now + BudgetTTL
  BY ClockForward DEF TypeOK, LapseInv
<1>3. CASE budgetUntil' = budgetUntil
  BY <1>1, <1>2, <1>3
<1>4. ASSUME NEW h \in Requests, PutBudget(h)
      PROVE  budgetUntil'[e] <= now' + BudgetTTL
  <2>1. budgetUntil'[e] \in {budgetUntil[e], now + BudgetTTL}
    BY <1>2, <1>4 DEF PutBudget
  <2> QED BY <1>1, <1>2, <2>1
<1> QED BY <1>3, <1>4, Frame

LEMMA EpochStep ==
  ASSUME TypeOK, EpochInv, [Next]_vars, lastReset <= now
  PROVE  EpochInv' /\ lastReset' <= now'
<1>0. /\ now \in Times /\ Times \subseteq Nat /\ lastReset \in Times /\ epoch \in Times
      /\ budget \in [Times -> 0 .. Actions]
      /\ \A h \in Requests : Carries(h) \/ Pending(h) => task[h].epoch \in Times
  <2>1. ASSUME NEW h \in Requests, Carries(h) \/ Pending(h) PROVE task[h].epoch \in Times
    BY <2>1, TaskFields DEF Carries, Pending
  <2>2. Times \subseteq Nat
    BY DEF Times
  <2> QED BY <2>1, <2>2 DEF TypeOK
<1>1. lastReset' <= now' /\ lastReset <= lastReset' /\ lastReset' \in {lastReset, now}
  <2>1. CASE lastReset' = lastReset
    BY <1>0, <2>1, ClockForward
  <2>2. ASSUME NEW h \in Requests, ResetBegin(h)
        PROVE  lastReset' <= now' /\ lastReset <= lastReset' /\ lastReset' \in {lastReset, now}
    BY <1>0, <2>2, ClockForward DEF ResetBegin
  <2> QED BY <2>1, <2>2, Frame
(* An unused epoch is used by nothing but the reset that stores it. *)
<1>2. ASSUME NEW e \in Times, Unused(e), epoch' # e
      PROVE  Unused(e)'
  <2>1. e > 0 /\ budget[e] = 0 /\ e # epoch
    BY <1>2 DEF Unused
  <2>2. budget'[e] = 0
    <3>1. ASSUME NEW h \in Requests, PutBudget(h) PROVE budget'[e] = 0
      <4>1. task[h].epoch # e /\ task[h].epoch \in Times
        BY <1>0, <1>2, <3>1 DEF Unused, Carries, PutBudget
      <4> QED BY <1>0, <2>1, <3>1, <4>1 DEF PutBudget
    <3> QED BY <2>1, <3>1, Frame
  <2>3. ASSUME NEW k \in Requests, Carries(k)' PROVE task'[k].epoch # e
    <3>1. CASE Carries(k) /\ task'[k].epoch = task[k].epoch
      BY <1>2, <3>1 DEF Unused
    <3>2. CASE task'[k].epoch = CurrentEpoch
      BY <2>1, <3>2 DEF CurrentEpoch
    <3> QED BY <2>3, <3>1, <3>2, Moves
  <2> QED BY <1>2, <2>1, <2>2, <2>3 DEF Unused
(* The epoch that is stored is not after the last reset, and not another reset's. *)
<1>3. epoch' = epoch \/ \E h \in Requests : Pending(h) /\ ResetEpoch(h) /\ epoch' = task[h].epoch
  BY Frame DEF ResetEpoch, Pending
<1>4. ASSUME NEW e \in Times, e > lastReset' PROVE Unused(e)'
  <2>1. Unused(e)
    BY <1>0, <1>1, <1>4 DEF EpochInv
  <2>2. epoch' # e
    <3>1. CASE epoch' = epoch
      BY <2>1, <3>1 DEF Unused
    <3>2. ASSUME NEW h \in Requests, Pending(h), epoch' = task[h].epoch PROVE epoch' # e
      <4>1. task[h].epoch <= lastReset /\ task[h].epoch \in Nat
        BY <1>0, <3>2 DEF EpochInv
      <4> QED BY <1>0, <1>1, <1>4, <3>2, <4>1
    <3> QED BY <1>3, <3>1, <3>2
  <2> QED BY <1>2, <2>1, <2>2
<1>5. ASSUME NEW k \in Requests, Pending(k)'
      PROVE  (task[k].epoch <= lastReset /\ Unused(task[k].epoch))'
  <2>1. CASE Pending(k) /\ task'[k].epoch = task[k].epoch
    <3>1. task[k].epoch \in Times /\ task[k].epoch <= lastReset /\ Unused(task[k].epoch)
      BY <1>0, <2>1 DEF EpochInv
    <3>2. epoch' # task[k].epoch
      <4>1. CASE epoch' = epoch
        BY <3>1, <4>1 DEF Unused
      <4>2. ASSUME NEW h \in Requests, Pending(h), ResetEpoch(h), epoch' = task[h].epoch
            PROVE  epoch' # task[k].epoch
        <5>1. h # k
          <6>1. ASSUME h = k PROVE FALSE
            <7>1. task' = [task EXCEPT ![k] = [task[k] EXCEPT !.left = @ \ {"epoch"}]]
              BY <4>2, <6>1 DEF ResetEpoch, Become
            <7>2. task'[k] = [task[k] EXCEPT !.left = @ \ {"epoch"}]
              BY <7>1 DEF TypeOK
            <7>3. task[k] = [kind |-> "reset", epoch |-> task[k].epoch, left |-> task[k].left]
              BY <2>1, TaskFields DEF Pending
            <7>4. task'[k].left = task[k].left \ {"epoch"}
              BY <7>2, <7>3
            <7> QED BY <1>5, <7>4 DEF Pending
          <6> QED BY <6>1
        <5> QED BY <2>1, <4>2, <5>1 DEF EpochInv
      <4> QED BY <1>3, <4>1, <4>2
    <3>3. PICK e \in Times : e = task[k].epoch
      BY <3>1
    <3>4. Unused(e)'
      BY <1>2, <3>1, <3>2, <3>3
    <3>5. task'[k].epoch = e
      BY <2>1, <3>3
    <3>6. Unused(task[k].epoch)'
      BY <3>4, <3>5 DEF Unused
    <3>7. task'[k].epoch <= lastReset'
      <4>1. e <= lastReset /\ e \in Nat /\ lastReset \in Nat /\ lastReset' \in Nat
        BY <1>0, <1>1, <3>1, <3>3
      <4> QED BY <1>1, <3>5, <4>1
    <3> QED BY <3>6, <3>7
  <2>2. CASE ResetBegin(k) /\ task'[k].epoch = now
    <3>1. now > lastReset /\ lastReset' = now /\ epoch' = epoch
      BY <1>0, <2>2 DEF ResetBegin
    <3>2. Unused(now)
      BY <1>0, <3>1 DEF EpochInv
    <3>3. epoch' # now
      BY <3>1, <3>2 DEF Unused
    <3>4. PICK e \in Times : e = now
      BY <1>0
    <3>5. Unused(e)'
      BY <1>2, <3>2, <3>3, <3>4
    <3>6. Unused(task[k].epoch)'
      BY <2>2, <3>4, <3>5 DEF Unused
    <3>7. task'[k].epoch <= lastReset'
      BY <1>0, <2>2, <3>1
    <3> QED BY <3>6, <3>7
  <2> QED BY <1>5, <2>1, <2>2, Moves
<1>6. ASSUME NEW h \in Requests, NEW k \in Requests, Pending(h)', Pending(k)', h # k
      PROVE  task'[h].epoch # task'[k].epoch
  <2>1. ASSUME NEW j \in Requests, Pending(j)
        PROVE  task[j].epoch \in Nat /\ task[j].epoch <= lastReset
    BY <1>0, <2>1 DEF EpochInv
  <2>2. ASSUME NEW j \in Requests, ResetBegin(j)
        PROVE  lastReset < now /\ \A i \in Requests : i # j => ~ResetBegin(i)
    <3>1. ASSUME NEW i \in Requests, i # j, ResetBegin(i) PROVE FALSE
      <4>1. task' = [task EXCEPT ![j] = [kind |-> "reset", epoch |-> now, left |-> {"trip", "epoch"}]]
        BY <2>2 DEF ResetBegin, Become, EpochOfReset
      <4>2. task' = [task EXCEPT ![i] = [kind |-> "reset", epoch |-> now, left |-> {"trip", "epoch"}]]
        BY <3>1 DEF ResetBegin, Become, EpochOfReset
      <4>3. task'[i] = task[i] /\ task[i].kind = "idle"
        BY <3>1, <4>1 DEF TypeOK, ResetBegin, Idle
      <4>4. task'[i].kind = "reset"
        BY <4>2 DEF TypeOK
      <4> QED BY <4>3, <4>4
    <3> QED BY <2>2, <3>1 DEF ResetBegin
  <2>3. \/ Pending(h) /\ task'[h].epoch = task[h].epoch
        \/ ResetBegin(h) /\ task'[h].epoch = now
    BY <1>6, Moves
  <2>4. \/ Pending(k) /\ task'[k].epoch = task[k].epoch
        \/ ResetBegin(k) /\ task'[k].epoch = now
    BY <1>6, Moves
  <2>5. Pending(h) /\ Pending(k) => task[h].epoch # task[k].epoch
    BY <1>6 DEF EpochInv
  <2> QED BY <1>0, <1>6, <2>1, <2>2, <2>3, <2>4, <2>5
<1>7. (\A e \in Times : e > lastReset => Unused(e))'
  BY <1>4 DEF Times
<1>8. (\A h \in Requests : Pending(h) => task[h].epoch <= lastReset /\ Unused(task[h].epoch))'
  BY <1>5
<1>9. (\A h, k \in Requests : Pending(h) /\ Pending(k) /\ h # k => task[h].epoch # task[k].epoch)'
  BY <1>6
<1> QED BY <1>1, <1>7, <1>8, <1>9 DEF EpochInv

LEMMA FreshStep ==
  ASSUME EpochTTL >= BudgetTTL, TypeOK, EpochInv, LapseInv, FreshInv, [Next]_vars
  PROVE  FreshInv'
<1>0. /\ now \in Nat /\ now' \in Nat /\ now <= now' /\ epochUntil \in Nat /\ fresh \in Nat
      /\ budget \in [Times -> 0 .. Actions] /\ budgetUntil \in [Times -> Nat]
      /\ task \in [Requests -> Tasks] /\ BudgetTTL \in Nat
      /\ Actions \in Nat \ {0} /\ EpochTTL \in Nat
  BY ClockForward, TimesToLive, BreakerAssumption DEF TypeOK
(* The write of a new epoch: every budget that can be found later was charged later. *)
<1>1. ASSUME NEW h \in Requests, ResetEpoch(h)
      PROVE  FreshInv'
  <2>1. /\ Pending(h) /\ epoch' = task[h].epoch /\ epochUntil' = now + EpochTTL
        /\ fresh' = 0 /\ budget' = budget /\ budgetUntil' = budgetUntil
        /\ old' = {k \in Requests : Evaluating(k)}
    BY <1>1 DEF ResetEpoch, Pending
  <2>2. ASSUME NEW e \in Times
        PROVE  budget'[e] <= fresh' \/ (budgetUntil'[e] <= epochUntil' /\ e # epoch')
    <3>1. budgetUntil[e] <= epochUntil'
      BY <1>0, <2>1 DEF LapseInv
    <3>2. e = epoch' => budget[e] = 0
      BY <2>1 DEF EpochInv, Unused
    <3> QED BY <2>1, <3>1, <3>2
  <2>3. ASSUME NEW k \in Requests, Carries(k)' PROVE k \in old'
    <3>1. Carries(k)
      BY <1>1, <2>3, Moves, <1>0 DEF ReadEpoch, ResetEpoch, Carries, Become
    <3> QED BY <2>1, <3>1 DEF Carries, Evaluating
  <2>4. \A k \in Requests : Counting(k)' => Carries(k)'
    BY DEF Counting, Carries
  <2> QED BY <2>2, <2>3, <2>4 DEF FreshInv
<1> SUFFICES ASSUME \A h \in Requests : ~ResetEpoch(h)
             PROVE  FreshInv'
  BY <1>1
<1>2. /\ epoch' = epoch /\ epochUntil' = epochUntil
      /\ fresh' \in Nat /\ fresh <= fresh' /\ (strayed => strayed')
  <2>1. epoch' = epoch /\ epochUntil' = epochUntil
    BY Frame
  <2>2. CASE fresh' = fresh /\ strayed' = strayed
    BY <1>0, <2>1, <2>2
  <2>3. ASSUME NEW h \in Requests, PutBudget(h)
        PROVE  fresh' = fresh + 1 /\ (strayed => strayed')
    BY <2>3 DEF PutBudget
  <2> QED BY <1>0, <2>1, <2>2, <2>3, Frame
<1>3. ASSUME NEW k \in Requests, k \notin old', Carries(k)' PROVE k \notin old
  <2>1. CASE old' = old
    BY <1>3, <2>1
  <2>2. ASSUME NEW h \in Requests, NEW s \in Signatures, Begin(h, s) PROVE k \notin old
    <3>1. k # h
      <4>1. task'[h].kind = "start"
        BY <1>0, <2>2 DEF Begin, Become
      <4> QED BY <1>3, <4>1 DEF Carries
    <3> QED BY <1>3, <2>2, <3>1 DEF Begin
  <2> QED BY <2>1, <2>2, Frame
<1>4. ASSUME NEW k \in Requests, k \notin old', Carries(k)'
      PROVE  task'[k].epoch = epoch' \/ now' >= epochUntil'
  <2>1. CASE Carries(k) /\ task'[k].epoch = task[k].epoch
    BY <1>0, <1>2, <1>3, <1>4, <2>1 DEF FreshInv
  <2>2. CASE task'[k].epoch = CurrentEpoch
    BY <1>0, <1>2, <2>2 DEF CurrentEpoch
  <2> QED BY <1>4, <2>1, <2>2, Moves
<1>5. ASSUME ~strayed', NEW e \in Times
      PROVE  budget'[e] <= fresh' \/ (budgetUntil'[e] <= epochUntil' /\ e # epoch')
  <2>1. budget[e] <= fresh \/ (budgetUntil[e] <= epochUntil /\ e # epoch)
    BY <1>2, <1>5 DEF FreshInv
  <2>2. CASE budget' = budget /\ budgetUntil' = budgetUntil
    BY <1>0, <1>2, <2>1, <2>2
  <2>3. ASSUME NEW h \in Requests, PutBudget(h)
        PROVE  budget'[e] <= fresh' \/ (budgetUntil'[e] <= epochUntil' /\ e # epoch')
    <3>1. Counting(h) /\ h \notin old /\ ~strayed /\ fresh' = fresh + 1
      BY <1>5, <2>3 DEF PutBudget, Counting
    <3>2. task[h].count <= fresh /\ task[h].count \in 0 .. Actions - 1 /\ task[h].epoch \in Times
      BY <3>1, TaskFields DEF FreshInv, Counting, Counts
    <3>3. CASE e = task[h].epoch
      <4>1. budget'[e] = task[h].count + 1
        BY <1>0, <2>3, <3>2, <3>3 DEF PutBudget
      <4> QED BY <1>0, <3>1, <3>2, <4>1
    <3>4. CASE e # task[h].epoch
      <4>1. budget'[e] = budget[e] /\ budgetUntil'[e] = budgetUntil[e]
        BY <1>0, <2>3, <3>2, <3>4 DEF PutBudget
      <4> QED BY <1>0, <1>2, <2>1, <4>1
    <3> QED BY <3>3, <3>4
  <2> QED BY <2>2, <2>3, Frame
<1>6. ASSUME ~strayed', NEW k \in Requests, k \notin old', Counting(k)'
      PROVE  task'[k].count <= fresh'
  <2>1. k \notin old /\ ~strayed
    BY <1>2, <1>3, <1>6 DEF Counting, Carries
  <2>2. CASE Counting(k) /\ task'[k].count = task[k].count
    <3>1. task[k].count <= fresh /\ task[k].count \in 0 .. Actions - 1
      BY <2>1, <2>2, TaskFields DEF FreshInv, Counting, Counts
    <3> QED BY <1>0, <1>2, <2>2, <3>1
  <2>3. CASE ReadBudget(k) /\ task'[k].count = StoredBudget(task[k].epoch)
    <3>1. Carries(k) /\ task[k].epoch \in Times
      BY <2>3, TaskFields DEF ReadBudget, Carries
    <3>2. StoredBudget(task[k].epoch) <= fresh
      BY <1>0, <2>1, <3>1 DEF FreshInv, StoredBudget
    <3>3. StoredBudget(task[k].epoch) \in 0 .. Actions
      BY <3>1, ReadTypes
    <3> QED BY <1>0, <1>2, <2>3, <3>2, <3>3
  <2> QED BY <1>6, <2>2, <2>3, Moves
<1>7. (\A k \in Requests : k \notin old /\ Carries(k) => task[k].epoch = epoch \/ now >= epochUntil)'
  BY <1>4
<1>8. ASSUME ~strayed'
      PROVE  (\A k \in Requests : k \notin old /\ Counting(k) => task[k].count <= fresh)'
  BY <1>6, <1>8
<1> QED BY <1>5, <1>7, <1>8 DEF FreshInv, Times

(* Once a reset has moved the epoch, a request that begins later is tripped for an    *)
(* exhausted budget only by actions charged since; with epochs that outlive budgets.  *)
THEOREM ResetAlwaysHolds ==
  ASSUME EpochTTL >= BudgetTTL
  PROVE  Spec => ResetHolds
<1> DEFINE ResetInv == EpochInv /\ LapseInv /\ FreshInv /\ lastReset <= now
<1>1. Init => ResetInv
  <2> SUFFICES ASSUME Init PROVE ResetInv
    OBVIOUS
  <2>1. BudgetTTL \in Nat /\ Times \subseteq Nat
    BY TimesToLive DEF Times
  <2>2. EpochInv
    BY <2>1 DEF Init, EpochInv, Unused, Pending, Carries, Idle
  <2>3. LapseInv
    BY <2>1 DEF Init, LapseInv
  <2>4. FreshInv
    BY <2>1 DEF Init, FreshInv, Carries, Counting, Idle
  <2> QED BY <2>2, <2>3, <2>4 DEF Init
<1>2. TypeOK /\ ResetInv /\ [Next]_vars => ResetInv'
  BY EpochStep, LapseStep, FreshStep
<1>3. TypeOK /\ ResetInv /\ [Next]_vars => [\A h \in Requests : TripIsEarned(h)]_vars
  <2> SUFFICES ASSUME TypeOK, ResetInv, Next, NEW h \in Requests,
                      task[h].kind = "budget", task'[h].kind = "trip", h \notin old, ~strayed
               PROVE  fresh >= Actions
    BY DEF TripIsEarned
  <2>0. task \in [Requests -> Tasks] /\ task' # task
    BY DEF TypeOK
  <2>1. ReadBudget(h)
    <3>1. ASSUME NEW k \in Requests, NEW next, Become(k, next) PROVE k = h /\ task'[h] = next
      BY <2>0, <3>1 DEF Become
    <3>2. ASSUME NEW k \in Requests, \/ \E s \in Signatures : Begin(k, s)
                                     \/ ResetBegin(k)
          PROVE  FALSE
      <4>1. task[k] = Idle /\ \E next : Become(k, next)
        BY <3>2 DEF Begin, ResetBegin
      <4>2. k = h
        BY <3>1, <4>1
      <4> QED BY <4>1, <4>2 DEF Idle
    <3>3. ASSUME NEW k \in Requests, ReadTrip(k) \/ ReadEpoch(k) \/ ReadCalls(k) PROVE FALSE
      BY <3>1, <3>3 DEF ReadTrip, ReadEpoch, ReadCalls
    <3>4. ASSUME NEW k \in Requests, PutTrip(k) \/ PutCalls(k) \/ PutBudget(k) \/ Pass(k)
          PROVE  FALSE
      BY <3>1, <3>4 DEF PutTrip, PutCalls, PutBudget, Pass
    <3>5. ASSUME NEW k \in Requests, ResetTrip(k) \/ ResetEpoch(k) PROVE FALSE
      <4>1. CASE ResetTrip(k)
        BY <3>1, <4>1 DEF ResetTrip
      <4>2. CASE ResetEpoch(k)
        BY <3>1, <4>2 DEF ResetEpoch
      <4> QED BY <3>5, <4>1, <4>2
    <3>6. ASSUME NEW k \in Requests, End(k) PROVE FALSE
      BY <3>1, <3>6 DEF End, Idle
    <3>7. ~Tick
      BY <2>0 DEF Tick
    <3>8. \E k \in Requests : ReadBudget(k)
      BY <3>2, <3>3, <3>4, <3>5, <3>6, <3>7 DEF Next
    <3> QED BY <3>1, <3>8 DEF ReadBudget
  <2>2. Exhausted(StoredBudget(task[h].epoch))
    <3>1. ~Exhausted(StoredBudget(task[h].epoch)) => task'[h].kind = "calls"
      BY <2>0, <2>1 DEF ReadBudget, Become
    <3> QED BY <3>1
  <2>3. Carries(h) /\ task[h].epoch \in Times
    BY TaskFields DEF Carries
  <2>4. /\ StoredBudget(task[h].epoch) >= Actions /\ Actions \in Nat \ {0} /\ now \in Nat
        /\ budget[task[h].epoch] \in 0 .. Actions /\ budgetUntil[task[h].epoch] \in Nat
        /\ epochUntil \in Nat /\ fresh \in Nat
    BY <2>2, <2>3, BreakerAssumption, SMTT(30) DEF Exhausted, TypeOK, Times
  <2>5. now < budgetUntil[task[h].epoch] /\ budget[task[h].epoch] >= Actions
    BY <2>4 DEF StoredBudget
  <2> QED BY <2>3, <2>4, <2>5 DEF FreshInv
<1> QED BY <1>1, <1>2, <1>3, TypeCorrect, PTL DEF Spec, ResetHolds
---------------------------------------------------------------------------
(* Repeated calls.  As long as evaluations follow one another and none     *)
(* outlasts a window, the list a call finds holds every call let through   *)
(* within its window, and the list it writes is what it then adds.         *)

\* Evaluations follow one another, and have begun by now.
Alone ==
  /\ \A h, k \in Requests : Evaluating(h) /\ Evaluating(k) => h = k
  /\ \A h \in Requests : Evaluating(h) => task[h].own.at <= now

\* A call let through stays in the store for two windows, or is older than the
\* window of any evaluation that begins from this time on.
KeptFor(at) ==
  \A e \in Times, s \in Signatures : \A c \in passed[e][s] :
    /\ c.at <= at
    /\ c \in calls[e][s] \/ c.at + Window < at
Kept ==
  /\ KeptFor(now)
  /\ \A h \in Requests : Evaluating(h) => KeptFor(task[h].own.at)

KeptLong ==
  \A e \in Times, s \in Signatures :
    /\ IsFiniteSet(calls[e][s])
    /\ \A c \in passed[e][s] : c.at + 2 * Window <= callsUntil[e][s]

\* The list a call is about to record holds every call of its window, no more than
\* are allowed, and once written it is what the store has.
Recorded(h) ==
  LET own == task[h].own
      e == task[h].epoch
      s == task[h].sig
      list == task[h].list
  IN
  /\ own \in list /\ IsFiniteSet(list) /\ Cardinality(list) <= Repeats
  /\ \A c \in passed[e][s] : own.at <= c.at + Window => c \in list
  /\ "calls" \notin task[h].left =>
       calls[e][s] = list /\ own.at + 2 * Window <= callsUntil[e][s]

FewInWindow ==
  \A e \in Times, s \in Signatures : \A c \in passed[e][s] :
    Cardinality({d \in Recent(passed[e][s], c.at) : d.at <= c.at}) <= Repeats

LoopInv ==
  overlapped \/
    /\ Alone
    /\ Kept
    /\ KeptLong
    /\ \A h \in Requests : task[h].kind = "record" => Recorded(h)
    /\ FewInWindow

(* How a request comes to evaluate a call and to record it. *)
LEMMA CallMoves ==
  ASSUME TypeOK, [Next]_vars, NEW k \in Requests
  PROVE  /\ Evaluating(k)' => \/ Evaluating(k) /\ task'[k].own = task[k].own
                              \/ /\ \E s \in Signatures : Begin(k, s)
                                 /\ task'[k].own.at = now
         /\ task'[k].kind = "record" =>
              \/ /\ task[k].kind = "record"
                 /\ task'[k].sig = task[k].sig /\ task'[k].own = task[k].own
                 /\ task'[k].epoch = task[k].epoch /\ task'[k].list = task[k].list
                 /\ "calls" \notin task'[k].left => "calls" \notin task[k].left \/ PutCalls(k)
              \/ /\ ReadCalls(k)
                 /\ task'[k] = [kind |-> "record", sig |-> task[k].sig, own |-> task[k].own,
                                epoch |-> task[k].epoch, count |-> task[k].count,
                                list |-> Recent(StoredCalls(task[k].epoch, task[k].sig),
                                                task[k].own.at) \cup {task[k].own},
                                left |-> {"calls", "budget"}]
<1> USE DEF Evaluating, Become
<1> DEFINE G == /\ Evaluating(k)' => \/ Evaluating(k) /\ task'[k].own = task[k].own
                                     \/ /\ \E s \in Signatures : Begin(k, s)
                                        /\ task'[k].own.at = now
                /\ task'[k].kind = "record" =>
                     \/ /\ task[k].kind = "record"
                        /\ task'[k].sig = task[k].sig /\ task'[k].own = task[k].own
                        /\ task'[k].epoch = task[k].epoch /\ task'[k].list = task[k].list
                        /\ "calls" \notin task'[k].left =>
                             "calls" \notin task[k].left \/ PutCalls(k)
                     \/ /\ ReadCalls(k)
                        /\ task'[k] = [kind |-> "record", sig |-> task[k].sig,
                                       own |-> task[k].own, epoch |-> task[k].epoch,
                                       count |-> task[k].count,
                                       list |-> Recent(StoredCalls(task[k].epoch, task[k].sig),
                                                       task[k].own.at) \cup {task[k].own},
                                       left |-> {"calls", "budget"}]
<1>0. task \in [Requests -> Tasks]
  BY DEF TypeOK
<1>1. ASSUME task'[k] = task[k] PROVE G
  BY <1>1
<1> SUFFICES ASSUME task'[k] # task[k] PROVE G
  BY <1>1
<1>2. ASSUME NEW h \in Requests, NEW next, task' = [task EXCEPT ![h] = next]
      PROVE  h = k /\ task'[k] = next
  BY <1>0, <1>2
<1>3. ASSUME NEW h \in Requests, NEW s \in Signatures, Begin(h, s) PROVE G
  <2>1. /\ \E t \in Signatures : Begin(k, t)
        /\ task'[k] = [kind |-> "start", sig |-> s, own |-> [at |-> now, nth |-> begun]]
    <3>1. task' = [task EXCEPT ![h] =
                     [kind |-> "start", sig |-> s, own |-> [at |-> now, nth |-> begun]]]
      BY <1>3 DEF Begin
    <3>2. h = k
      BY <3>1, <1>2
    <3> QED BY <1>3, <3>1, <3>2, <1>2
  <2>2. task'[k].kind = "start" /\ task'[k].own.at = now
    BY <2>1
  <2> QED BY <2>1, <2>2
<1>4. ASSUME NEW h \in Requests, ReadTrip(h) PROVE G
  <2>1. /\ task[k].kind = "start" /\ task'[k] \in {Idle, [task[k] EXCEPT !.kind = "epoch"]}
    BY <1>4, <1>2 DEF ReadTrip
  <2>2. task[k] = [kind |-> "start", sig |-> task[k].sig, own |-> task[k].own]
    BY <2>1, TaskFields
  <2>3. task'[k].kind = "idle" \/ (task'[k].kind = "epoch" /\ task'[k].own = task[k].own)
    BY <2>1, <2>2 DEF Idle
  <2> QED BY <2>1, <2>3
<1>5. ASSUME NEW h \in Requests, ReadEpoch(h) PROVE G
  <2>1. /\ task[k].kind = "epoch"
        /\ task'[k] = [kind |-> "budget", sig |-> task[k].sig, own |-> task[k].own,
                       epoch |-> CurrentEpoch]
    BY <1>5, <1>2 DEF ReadEpoch
  <2> QED BY <2>1
<1>6. ASSUME NEW h \in Requests, ReadBudget(h) PROVE G
  <2>1. /\ task[k].kind = "budget"
        /\ \/ task'[k] = [kind |-> "trip", own |-> task[k].own]
           \/ task'[k] = [kind |-> "calls", sig |-> task[k].sig, own |-> task[k].own,
                          epoch |-> task[k].epoch, count |-> StoredBudget(task[k].epoch)]
    BY <1>6, <1>2 DEF ReadBudget
  <2>2. task'[k].kind \in {"trip", "calls"} /\ task'[k].own = task[k].own
    BY <2>1
  <2> QED BY <2>1, <2>2
<1>7. ASSUME NEW h \in Requests, ReadCalls(h) PROVE G
  <2> DEFINE list == Recent(StoredCalls(task[k].epoch, task[k].sig), task[k].own.at)
  <2> HIDE DEF list
  <2>1. /\ ReadCalls(k) /\ task[k].kind = "calls"
        /\ \/ task'[k] = [kind |-> "trip", own |-> task[k].own]
           \/ task'[k] = [kind |-> "record", sig |-> task[k].sig, own |-> task[k].own,
                          epoch |-> task[k].epoch, count |-> task[k].count,
                          list |-> list \cup {task[k].own}, left |-> {"calls", "budget"}]
    BY <1>7, <1>2 DEF ReadCalls, list
  <2>2. task'[k].kind \in {"trip", "record"} /\ task'[k].own = task[k].own
    BY <2>1
  <2> QED BY <2>1, <2>2 DEF list
<1>8. ASSUME NEW h \in Requests, PutCalls(h) \/ PutBudget(h) PROVE G
  <2>1. /\ task[k].kind = "record"
        /\ \/ PutCalls(k) /\ task'[k] = [task[k] EXCEPT !.left = @ \ {"calls"}]
           \/ task'[k] = [task[k] EXCEPT !.left = @ \ {"budget"}]
    BY <1>8, <1>2 DEF PutCalls, PutBudget
  <2>2. task[k] = [kind |-> "record", sig |-> task[k].sig, own |-> task[k].own,
                   epoch |-> task[k].epoch, count |-> task[k].count,
                   list |-> task[k].list, left |-> task[k].left]
    BY <2>1, TaskFields
  <2>3. /\ task'[k].kind = "record" /\ task'[k].sig = task[k].sig
        /\ task'[k].own = task[k].own
        /\ task'[k].epoch = task[k].epoch /\ task'[k].list = task[k].list
        /\ PutCalls(k) \/ task'[k].left = task[k].left \ {"budget"}
    BY <2>1, <2>2
  <2> QED BY <2>1, <2>3
<1>9. ASSUME NEW h \in Requests, PutTrip(h) \/ Pass(h) \/ End(h) PROVE G
  <2>1. task'[k].kind = "idle"
    BY <1>9, <1>2 DEF PutTrip, Pass, End, Idle
  <2> QED BY <2>1
<1>10. ASSUME NEW h \in Requests, ResetBegin(h) PROVE G
  <2>1. task'[k].kind = "reset"
    BY <1>10, <1>2 DEF ResetBegin
  <2> QED BY <2>1
<1>11. ASSUME NEW h \in Requests, ResetTrip(h) \/ ResetEpoch(h) PROVE G
  <2>1. /\ task[k].kind = "reset"
        /\ \E w \in {"trip", "epoch"} : task'[k] = [task[k] EXCEPT !.left = @ \ {w}]
    BY <1>11, <1>2 DEF ResetTrip, ResetEpoch
  <2>2. task[k] = [kind |-> "reset", epoch |-> task[k].epoch, left |-> task[k].left]
    BY <2>1, TaskFields
  <2>3. task'[k].kind = "reset"
    BY <2>1, <2>2
  <2> QED BY <2>3
<1>12. CASE Tick \/ UNCHANGED vars
  BY <1>12 DEF Tick, vars
<1> HIDE DEF G
<1> QED BY <1>3, <1>4, <1>5, <1>6, <1>7, <1>8, <1>9, <1>10, <1>11, <1>12 DEF Next, G

(* Which steps change the calls in the store and those let through. *)
LEMMA CallsFrame ==
  ASSUME [Next]_vars
  PROVE  /\ \/ calls' = calls /\ callsUntil' = callsUntil
            \/ \E h \in Requests : PutCalls(h)
         /\ passed' = passed \/ \E h \in Requests : Pass(h)
         /\ overlapped => overlapped'
<1> DEFINE Still == /\ calls' = calls /\ callsUntil' = callsUntil
                    /\ passed' = passed
                    /\ overlapped => overlapped'
<1>1. ASSUME NEW h \in Requests, NEW s \in Signatures, Begin(h, s) PROVE Still
  BY <1>1 DEF Begin
<1>2. ASSUME NEW h \in Requests, ReadTrip(h) \/ ReadEpoch(h) \/ ReadBudget(h) PROVE Still
  BY <1>2 DEF ReadTrip, ReadEpoch, ReadBudget
<1>3. ASSUME NEW h \in Requests, ReadCalls(h) PROVE Still
  BY <1>3 DEF ReadCalls
<1>4. ASSUME NEW h \in Requests, PutTrip(h) \/ PutBudget(h) \/ End(h) PROVE Still
  BY <1>4 DEF PutTrip, PutBudget, End
<1>5. ASSUME NEW h \in Requests, ResetBegin(h) \/ ResetTrip(h) \/ ResetEpoch(h) PROVE Still
  BY <1>5 DEF ResetBegin, ResetTrip, ResetEpoch
<1>6. ASSUME Tick \/ UNCHANGED vars PROVE Still
  BY <1>6 DEF Tick, vars
<1>7. ASSUME NEW h \in Requests, PutCalls(h) PROVE passed' = passed /\ overlapped' = overlapped
  BY <1>7 DEF PutCalls
<1>8. ASSUME NEW h \in Requests, Pass(h)
      PROVE  calls' = calls /\ callsUntil' = callsUntil /\ overlapped' = overlapped
  BY <1>8 DEF Pass
<1>9. Still \/ \E h \in Requests : PutCalls(h) \/ Pass(h)
  <2> HIDE DEF Still
  <2>1. CASE Next
    BY <2>1, <1>1, <1>2, <1>3, <1>4, <1>5, <1>6 DEF Next
  <2> QED BY <2>1, <1>6
<1> QED BY <1>7, <1>8, <1>9

(* A value written under two keys. *)
LEMMA Written ==
  ASSUME NEW R, NEW f \in [Times -> [Signatures -> R]], NEW d \in Times, NEW r \in Signatures,
         NEW v, NEW g, g = [f EXCEPT ![d][r] = v]
  PROVE  \A e \in Times, s \in Signatures :
           g[e][s] = IF e = d /\ s = r THEN v ELSE f[e][s]
<1> SUFFICES ASSUME NEW e \in Times, NEW s \in Signatures
             PROVE  g[e][s] = IF e = d /\ s = r THEN v ELSE f[e][s]
  OBVIOUS
<1>1. CASE e # d
  BY <1>1
<1>2. CASE e = d
  <2>1. g[d] = [f[d] EXCEPT ![r] = v]
    OBVIOUS
  <2>2. f[d] \in [Signatures -> R]
    OBVIOUS
  <2> QED BY <1>2, <2>1, <2>2
<1> QED BY <1>1, <1>2

LEMMA LoopStep ==
  ASSUME TypeOK, LoopInv, [Next]_vars
  PROVE  LoopInv'
<1> SUFFICES ASSUME ~overlapped'
             PROVE  /\ Alone' /\ Kept' /\ KeptLong' /\ FewInWindow'
                    /\ \A h \in Requests : (task[h].kind = "record" => Recorded(h))'
  BY DEF LoopInv
<1>0. /\ now \in Nat /\ now' \in Nat /\ now <= now'
      /\ LoopTTL \in Nat /\ Window \in Nat /\ 2 * Window <= LoopTTL
      /\ task \in [Requests -> Tasks]
      /\ calls \in [Times -> [Signatures -> SUBSET Stamps]]
      /\ callsUntil \in [Times -> [Signatures -> Nat]]
      /\ passed \in [Times -> [Signatures -> SUBSET Stamps]]
  BY ClockForward, TimesToLive, BreakerAssumption DEF TypeOK, LoopTTL, AtLeast
<1>1. /\ ~overlapped /\ Alone /\ Kept /\ KeptLong /\ FewInWindow
      /\ \A h \in Requests : task[h].kind = "record" => Recorded(h)
  BY CallsFrame DEF LoopInv
<1>2. ASSUME NEW k \in Requests, Evaluating(k)
      PROVE  task[k].own \in Stamps /\ task[k].own.at \in Nat /\ task[k].own.at <= now
  <2>1. task[k].own \in Stamps
    BY <1>2, TaskFields DEF Evaluating
  <2> QED BY <1>1, <1>2, <2>1 DEF Alone, Stamps
<1>3. ASSUME NEW k \in Requests, NEW s \in Signatures, Begin(k, s), NEW h \in Requests
      PROVE  ~Evaluating(h)
  BY <1>3 DEF Begin
<1>4. Alone'
  <2>1. ASSUME NEW h \in Requests, NEW k \in Requests, Evaluating(h)', Evaluating(k)', h # k
        PROVE  FALSE
    <3>1. ASSUME NEW s \in Signatures, Begin(h, s) PROVE FALSE
      <4>1. ~Evaluating(k)
        BY <1>3, <3>1
      <4>2. PICK t \in Signatures : Begin(k, t)
        BY <2>1, <4>1, CallMoves
      <4>3. task[h] = Idle /\ task'[h] = task[h]
        BY <1>0, <2>1, <3>1, <4>2 DEF Begin, Become
      <4> QED BY <2>1, <4>3 DEF Evaluating, Idle
    <3>2. ASSUME NEW s \in Signatures, Begin(k, s) PROVE FALSE
      <4>1. ~Evaluating(h)
        BY <1>3, <3>2
      <4>2. PICK t \in Signatures : Begin(h, t)
        BY <2>1, <4>1, CallMoves
      <4> QED BY <3>1, <4>2
    <3> QED BY <1>1, <2>1, <3>1, <3>2, CallMoves DEF Alone
  <2>2. ASSUME NEW h \in Requests, Evaluating(h)' PROVE task'[h].own.at <= now'
    <3>1. CASE task'[h].own.at = now
      BY <1>0, <3>1
    <3>2. CASE Evaluating(h) /\ task'[h].own = task[h].own
      <4>1. task[h].own.at \in Nat /\ task[h].own.at <= now
        BY <1>2, <3>2
      <4> QED BY <1>0, <3>2, <4>1
    <3> QED BY <2>2, <3>1, <3>2, CallMoves
  <2> QED BY <2>1, <2>2 DEF Alone
<1>5. ASSUME NEW h \in Requests, PutCalls(h)
      PROVE  /\ Evaluating(h) /\ Recorded(h)
             /\ task[h].epoch \in Times /\ task[h].sig \in Signatures
             /\ task[h].list \in SUBSET Stamps
             /\ passed' = passed /\ now' = now
             /\ \A e \in Times, s \in Signatures :
                  /\ calls'[e][s] = IF e = task[h].epoch /\ s = task[h].sig
                                    THEN task[h].list ELSE calls[e][s]
                  /\ callsUntil'[e][s] = IF e = task[h].epoch /\ s = task[h].sig
                                         THEN now + LoopTTL ELSE callsUntil[e][s]
  <2>1. /\ Evaluating(h) /\ Recorded(h)
        /\ task[h].epoch \in Times /\ task[h].sig \in Signatures
        /\ task[h].list \in SUBSET Stamps
    BY <1>1, <1>5, TaskFields DEF PutCalls, Evaluating
  <2>2. /\ calls' = [calls EXCEPT ![task[h].epoch][task[h].sig] = task[h].list]
        /\ callsUntil' = [callsUntil EXCEPT ![task[h].epoch][task[h].sig] = now + LoopTTL]
        /\ passed' = passed /\ now' = now
    BY <1>5 DEF PutCalls
  <2>3. \A e \in Times, s \in Signatures :
          calls'[e][s] = IF e = task[h].epoch /\ s = task[h].sig
                         THEN task[h].list ELSE calls[e][s]
    BY <1>0, <2>1, <2>2, Written
  <2>4. \A e \in Times, s \in Signatures :
          callsUntil'[e][s] = IF e = task[h].epoch /\ s = task[h].sig
                              THEN now + LoopTTL ELSE callsUntil[e][s]
    BY <1>0, <2>1, <2>2, Written
  <2> QED BY <2>1, <2>2, <2>3, <2>4
<1>6. ASSUME NEW h \in Requests, Pass(h)
      PROVE  /\ Evaluating(h) /\ ~Evaluating(h)' /\ Recorded(h) /\ "calls" \notin task[h].left
             /\ task[h].epoch \in Times /\ task[h].sig \in Signatures
             /\ calls' = calls /\ callsUntil' = callsUntil /\ now' = now
             /\ \A e \in Times, s \in Signatures :
                  passed'[e][s] = IF e = task[h].epoch /\ s = task[h].sig
                                  THEN passed[e][s] \cup {task[h].own} ELSE passed[e][s]
  <2>1. task'[h].kind = "idle"
    BY <1>0, <1>6 DEF Pass, Become, Idle
  <2>2. task[h].kind = "record" /\ task[h].left = {}
    BY <1>6 DEF Pass
  <2>3. /\ task[h].epoch \in Times /\ task[h].sig \in Signatures
        /\ Evaluating(h) /\ ~Evaluating(h)' /\ Recorded(h)
    BY <1>1, <2>1, <2>2, TaskFields DEF Evaluating
  <2>4. /\ passed' = [passed EXCEPT ![task[h].epoch][task[h].sig] =
                        passed[task[h].epoch][task[h].sig] \cup {task[h].own}]
        /\ calls' = calls /\ callsUntil' = callsUntil /\ now' = now
    BY <1>6 DEF Pass
  <2>5. \A e \in Times, s \in Signatures :
          passed'[e][s] = IF e = task[h].epoch /\ s = task[h].sig
                          THEN passed[task[h].epoch][task[h].sig] \cup {task[h].own}
                          ELSE passed[e][s]
    BY <1>0, <2>3, <2>4, Written
  <2> QED BY <2>2, <2>3, <2>4, <2>5
<1>7. ASSUME NEW at \in Nat, KeptFor(at), at <= now,
             \A h \in Requests : PutCalls(h) => at = task[h].own.at,
             \A h \in Requests : Pass(h) => at = now
      PROVE  KeptFor(at)'
  <2> SUFFICES ASSUME NEW e \in Times, NEW s \in Signatures, NEW c \in passed'[e][s]
               PROVE  c.at <= at /\ (c \in calls'[e][s] \/ c.at + Window < at)
    BY DEF KeptFor
  <2>1. c \in passed[e][s] => c.at <= at /\ (c \in calls[e][s] \/ c.at + Window < at)
    BY <1>7 DEF KeptFor
  <2>2. CASE calls' = calls /\ passed' = passed
    BY <2>1, <2>2
  <2>3. ASSUME NEW h \in Requests, PutCalls(h)
        PROVE  c \in calls'[e][s] \/ c.at + Window < at
    <3>1. c \in passed[e][s] /\ c.at \in Nat
      <4>1. c \in passed[e][s] /\ passed[e][s] \in SUBSET Stamps
        BY <1>0, <1>5, <2>3
      <4> QED BY <4>1 DEF Stamps
    <3>2. CASE e = task[h].epoch /\ s = task[h].sig
      <4>1. calls'[e][s] = task[h].list
        BY <1>0, <1>5, <2>3, <3>2
      <4>2. task[h].own.at <= c.at + Window => c \in task[h].list
        BY <1>5, <2>3, <3>1, <3>2 DEF Recorded
      <4> QED BY <1>0, <1>7, <2>3, <3>1, <4>1, <4>2
    <3>3. CASE ~(e = task[h].epoch /\ s = task[h].sig)
      <4>1. calls'[e][s] = calls[e][s]
        BY <1>0, <1>5, <2>3, <3>3
      <4> QED BY <2>1, <3>1, <4>1
    <3> QED BY <3>2, <3>3
  <2>4. ASSUME NEW h \in Requests, Pass(h)
        PROVE  c.at <= at /\ (c \in calls'[e][s] \/ c.at + Window < at)
    <3>1. CASE c \in passed[e][s]
      BY <1>6, <2>1, <2>4, <3>1
    <3>2. CASE c \notin passed[e][s]
      <4>1. c = task[h].own /\ e = task[h].epoch /\ s = task[h].sig
        <5>1. passed'[e][s] = IF e = task[h].epoch /\ s = task[h].sig
                              THEN passed[e][s] \cup {task[h].own} ELSE passed[e][s]
          BY <1>6, <2>4
        <5> QED BY <3>2, <5>1
      <4>2. c \in calls[e][s]
        BY <1>6, <2>4, <4>1 DEF Recorded
      <4> QED BY <1>2, <1>6, <1>7, <2>4, <4>1, <4>2
    <3> QED BY <3>1, <3>2
  <2>5. ASSUME NEW h \in Requests, PutCalls(h) PROVE c.at <= at
    BY <1>5, <2>1, <2>5
  <2> QED BY <2>2, <2>3, <2>4, <2>5, CallsFrame
<1>8. ASSUME NEW h \in Requests, PutCalls(h) \/ Pass(h), NEW k \in Requests, PutCalls(k) \/ Pass(k)
      PROVE  h = k /\ (PutCalls(h) => ~Pass(k))
  <2>1. h = k
    BY <1>1, <1>5, <1>6, <1>8 DEF Alone
  <2> QED BY <2>1 DEF PutCalls, Pass
<1>9. KeptFor(now)'
  <2>1. KeptFor(now) /\ passed' \in [Times -> [Signatures -> SUBSET Stamps]]
    BY <1>1, TypeStep DEF Kept, TypeOK
  <2>2. ASSUME NEW at \in Nat, at <= now', KeptFor(at)' PROVE KeptFor(now)'
    <3> SUFFICES ASSUME NEW e \in Times, NEW s \in Signatures, NEW c \in passed'[e][s]
                 PROVE  c.at <= now' /\ (c \in calls'[e][s] \/ c.at + Window < now')
      BY DEF KeptFor
    <3>1. c.at <= at /\ (c \in calls'[e][s] \/ c.at + Window < at)
      BY <2>2 DEF KeptFor
    <3>2. c.at \in Nat
      BY <2>1 DEF Stamps
    <3> QED BY <1>0, <2>2, <3>1, <3>2
  <2>3. ASSUME NEW h \in Requests, PutCalls(h) PROVE KeptFor(now)'
    <3>1. PICK at \in Nat : at = task[h].own.at /\ at <= now
      BY <1>2, <1>5, <2>3
    <3>2. KeptFor(at)
      BY <1>1, <1>5, <2>3, <3>1 DEF Kept
    <3>3. KeptFor(at)'
      BY <1>7, <1>8, <2>3, <3>1, <3>2
    <3> QED BY <1>0, <2>2, <3>1, <3>3
  <2>4. ASSUME \A h \in Requests : ~PutCalls(h) PROVE KeptFor(now)'
    <3>1. PICK at \in Nat : at = now
      BY <1>0
    <3>2. KeptFor(at)
      BY <2>1, <3>1
    <3>3. KeptFor(at)'
      BY <1>7, <2>4, <3>1, <3>2
    <3> QED BY <1>0, <2>2, <3>1, <3>3
  <2> QED BY <2>3, <2>4
<1>10. ASSUME NEW k \in Requests, Evaluating(k)' PROVE KeptFor(task[k].own.at)'
  <2>1. CASE task'[k].own.at = now
    <3>1. (\E s \in Signatures : Begin(k, s)) \/ Evaluating(k)
      BY <1>10, CallMoves
    <3>2. CASE now' = now
      BY <1>9, <2>1, <3>2 DEF KeptFor
    <3>3. CASE now' # now
      <4>1. PICK at \in Nat : at = now
        BY <1>0
      <4>2. KeptFor(at)
        BY <1>1, <4>1 DEF Kept
      <4>3. KeptFor(at)'
        BY <1>5, <1>6, <1>7, <3>3, <4>1, <4>2
      <4> QED BY <2>1, <4>1, <4>3 DEF KeptFor
    <3> QED BY <3>2, <3>3
  <2>2. CASE Evaluating(k) /\ task'[k].own = task[k].own
    <3>1. PICK at \in Nat : at = task[k].own.at /\ at <= now
      BY <1>2, <2>2
    <3>2. KeptFor(at)
      BY <1>1, <2>2, <3>1 DEF Kept
    <3>3. \A h \in Requests : PutCalls(h) => at = task[h].own.at
      BY <1>1, <1>5, <2>2, <3>1 DEF Alone
    <3>4. \A h \in Requests : ~Pass(h)
      BY <1>1, <1>6, <1>10, <2>2 DEF Alone
    <3>5. KeptFor(at)'
      BY <1>7, <3>1, <3>2, <3>3, <3>4
    <3> QED BY <2>2, <3>1, <3>5 DEF KeptFor
  <2> QED BY <1>10, <2>1, <2>2, CallMoves
<1>11. Kept'
  BY <1>9, <1>10 DEF Kept
<1>12. KeptLong'
  <2> SUFFICES ASSUME NEW e \in Times, NEW s \in Signatures
               PROVE  /\ IsFiniteSet(calls'[e][s])
                      /\ \A c \in passed'[e][s] : c.at + 2 * Window <= callsUntil'[e][s]
    BY DEF KeptLong
  <2>1. /\ IsFiniteSet(calls[e][s])
        /\ \A c \in passed[e][s] : c.at \in Nat /\ c.at <= now
                                   /\ c.at + 2 * Window <= callsUntil[e][s]
    <3>1. passed[e][s] \in SUBSET Stamps
      BY <1>0
    <3> QED BY <1>1, <3>1 DEF KeptLong, Kept, KeptFor, Stamps
  <2>2. ASSUME NEW h \in Requests, PutCalls(h)
        PROVE  /\ IsFiniteSet(calls'[e][s])
               /\ \A c \in passed'[e][s] : c.at + 2 * Window <= callsUntil'[e][s]
    <3>1. IsFiniteSet(task[h].list)
      BY <1>5, <2>2 DEF Recorded
    <3>2. calls'[e][s] = task[h].list \/ calls'[e][s] = calls[e][s]
      BY <1>5, <2>2
    <3>3. callsUntil'[e][s] = now + LoopTTL \/ callsUntil'[e][s] = callsUntil[e][s]
      BY <1>5, <2>2
    <3>4. passed'[e][s] = passed[e][s]
      BY <1>5, <2>2
    <3> QED BY <1>0, <2>1, <3>1, <3>2, <3>3, <3>4
  <2>3. ASSUME NEW h \in Requests, Pass(h)
        PROVE  /\ IsFiniteSet(calls'[e][s])
               /\ \A c \in passed'[e][s] : c.at + 2 * Window <= callsUntil'[e][s]
    <3>1. calls'[e][s] = calls[e][s] /\ callsUntil'[e][s] = callsUntil[e][s]
      BY <1>6, <2>3
    <3>2. CASE e = task[h].epoch /\ s = task[h].sig
      <4>1. passed'[e][s] = passed[e][s] \cup {task[h].own}
        BY <1>6, <2>3, <3>2
      <4>2. task[h].own.at + 2 * Window <= callsUntil[e][s]
        BY <1>6, <2>3, <3>2 DEF Recorded
      <4>3. ASSUME NEW c \in passed'[e][s] PROVE c.at + 2 * Window <= callsUntil'[e][s]
        BY <2>1, <3>1, <4>1, <4>2
      <4> QED BY <2>1, <3>1, <4>3
    <3>3. CASE ~(e = task[h].epoch /\ s = task[h].sig)
      <4>1. passed'[e][s] = IF e = task[h].epoch /\ s = task[h].sig
                            THEN passed[e][s] \cup {task[h].own} ELSE passed[e][s]
        BY <1>6, <2>3
      <4>2. passed'[e][s] = passed[e][s]
        BY <3>3, <4>1
      <4> QED BY <2>1, <3>1, <4>2
    <3> QED BY <3>2, <3>3
  <2>4. CASE calls' = calls /\ callsUntil' = callsUntil /\ passed' = passed
    BY <2>1, <2>4
  <2> QED BY <2>2, <2>3, <2>4, CallsFrame
<1>13. ASSUME NEW h \in Requests, task'[h].kind = "record" PROVE Recorded(h)'
  <2>0. Evaluating(h)'
    BY <1>13 DEF Evaluating
  <2>1. \A k \in Requests : ~Pass(k)
    <3>1. ASSUME NEW k \in Requests, Pass(k) PROVE FALSE
      <4>1. task[k].kind = "record" /\ task[k].left = {} /\ k # h
        BY <1>6, <2>0, <3>1 DEF Pass
      <4>2. ~Evaluating(h) /\ \A s \in Signatures : ~Begin(h, s)
        <5>1. ~Evaluating(h)
          BY <1>1, <1>6, <3>1, <4>1 DEF Alone
        <5> QED BY <1>3, <1>6, <3>1, <5>1
      <4> QED BY <2>0, <4>2, CallMoves
    <3> QED BY <3>1
  <2>2. passed' = passed
    BY <2>1, CallsFrame
  <2>3. CASE /\ task[h].kind = "record"
             /\ task'[h].sig = task[h].sig /\ task'[h].own = task[h].own
             /\ task'[h].epoch = task[h].epoch /\ task'[h].list = task[h].list
             /\ "calls" \notin task'[h].left => "calls" \notin task[h].left \/ PutCalls(h)
    <3>1. /\ Recorded(h) /\ task[h].epoch \in Times /\ task[h].sig \in Signatures
          /\ Evaluating(h) /\ task[h].own \in Stamps
      BY <1>1, <2>3, TaskFields DEF Evaluating
    <3>2. ASSUME "calls" \notin task'[h].left
          PROVE  /\ calls'[task[h].epoch][task[h].sig] = task[h].list
                 /\ task[h].own.at + 2 * Window <= callsUntil'[task[h].epoch][task[h].sig]
      <4>1. CASE PutCalls(h)
        <5>1. calls'[task[h].epoch][task[h].sig] = task[h].list
          BY <1>5, <4>1
        <5>2. callsUntil'[task[h].epoch][task[h].sig] = now + LoopTTL
          BY <1>5, <4>1
        <5>3. task[h].own.at \in Nat /\ task[h].own.at <= now
          BY <1>2, <3>1
        <5> QED BY <1>0, <5>1, <5>2, <5>3
      <4>2. CASE ~PutCalls(h)
        <5>1. \A k \in Requests : ~PutCalls(k)
          BY <1>1, <1>5, <3>1, <4>2 DEF Alone
        <5>2. calls' = calls /\ callsUntil' = callsUntil
          BY <5>1, CallsFrame
        <5> QED BY <2>3, <3>1, <3>2, <4>2, <5>2 DEF Recorded
      <4> QED BY <4>1, <4>2
    <3> QED BY <2>2, <2>3, <3>1, <3>2 DEF Recorded
  <2>4. CASE /\ ReadCalls(h)
             /\ task'[h] = [kind |-> "record", sig |-> task[h].sig, own |-> task[h].own,
                            epoch |-> task[h].epoch, count |-> task[h].count,
                            list |-> Recent(StoredCalls(task[h].epoch, task[h].sig),
                                            task[h].own.at) \cup {task[h].own},
                            left |-> {"calls", "budget"}]
    <3> DEFINE own == task[h].own
               e == task[h].epoch
               s == task[h].sig
               list == Recent(StoredCalls(e, s), own.at)
    <3>1. /\ task[h].kind = "calls" /\ now < own.at + Window
          /\ own \in Stamps /\ own.at \in Nat /\ e \in Times /\ s \in Signatures
      <4>1. task[h].kind = "calls" /\ own \in Stamps /\ e \in Times /\ s \in Signatures
        BY <2>4, TaskFields DEF ReadCalls
      <4>2. ~(now >= own.at + Window)
        BY <2>4 DEF ReadCalls
      <4>3. own.at \in Nat
        BY <4>1 DEF Stamps
      <4> QED BY <1>0, <4>1, <4>2, <4>3
    <3>2. list \subseteq calls[e][s] /\ IsFiniteSet(list)
      <4>1. list \subseteq calls[e][s]
        BY DEF Recent, StoredCalls
      <4>2. IsFiniteSet(calls[e][s])
        BY <1>1, <3>1 DEF KeptLong
      <4> QED BY <4>1, <4>2, FS_Subset
    <3>3. ~(Cardinality(list) >= Repeats)
      <4>1. Cardinality(list) >= Repeats => task'[h] = [kind |-> "trip", own |-> own]
        BY <1>0, <2>4 DEF ReadCalls, Become
      <4> QED BY <1>13, <4>1
    <3>4. IsFiniteSet(list \cup {own}) /\ Cardinality(list \cup {own}) <= Repeats
      <4>1. /\ IsFiniteSet(list \cup {own}) /\ Cardinality(list) \in Nat
            /\ Cardinality(list \cup {own}) \in {Cardinality(list), Cardinality(list) + 1}
        BY <3>2, FS_AddElement, FS_CardinalityType
      <4> QED BY <3>3, <4>1, BreakerAssumption
    <3>5. ASSUME NEW c \in passed[e][s], own.at <= c.at + Window PROVE c \in list
      <4>1. c.at \in Nat
        BY <1>0, <3>1 DEF Stamps
      <4>2. c \in calls[e][s]
        <5>1. Evaluating(h)
          BY <3>1 DEF Evaluating
        <5>2. c \in calls[e][s] \/ c.at + Window < own.at
          BY <1>1, <3>1, <5>1 DEF Kept, KeptFor
        <5> QED BY <1>0, <3>1, <3>5, <4>1, <5>2
      <4>3. now < callsUntil[e][s]
        <5>1. c.at + 2 * Window <= callsUntil[e][s] /\ callsUntil[e][s] \in Nat
          BY <1>0, <1>1, <3>1 DEF KeptLong
        <5> QED BY <1>0, <3>1, <3>5, <4>1, <5>1
      <4>4. c.at >= own.at - Window
        BY <1>0, <3>1, <3>5, <4>1
      <4> QED BY <4>2, <4>3, <4>4 DEF Recent, StoredCalls
    <3>6. /\ task'[h].own = own /\ task'[h].epoch = e /\ task'[h].sig = s
          /\ task'[h].list = list \cup {own} /\ task'[h].left = {"calls", "budget"}
      BY <2>4
    <3> HIDE DEF list, own, e, s
    <3> QED BY <2>2, <3>4, <3>5, <3>6 DEF Recorded
  <2> QED BY <1>13, <2>3, <2>4, CallMoves
<1>14. FewInWindow'
  <2> SUFFICES ASSUME NEW e \in Times, NEW s \in Signatures, NEW c \in passed'[e][s]
               PROVE  Cardinality({d \in Recent(passed'[e][s], c.at) : d.at <= c.at}) <= Repeats
    BY DEF FewInWindow
  <2>1. c \in passed[e][s] =>
          Cardinality({d \in Recent(passed[e][s], c.at) : d.at <= c.at}) <= Repeats
    BY <1>1 DEF FewInWindow
  <2>2. CASE passed' = passed
    BY <2>1, <2>2
  <2>3. ASSUME NEW h \in Requests, Pass(h)
        PROVE  Cardinality({d \in Recent(passed'[e][s], c.at) : d.at <= c.at}) <= Repeats
    <3>0. passed'[e][s] = IF e = task[h].epoch /\ s = task[h].sig
                          THEN passed[e][s] \cup {task[h].own} ELSE passed[e][s]
      <4>1. \A f \in Times, q \in Signatures :
              passed'[f][q] = IF f = task[h].epoch /\ q = task[h].sig
                              THEN passed[f][q] \cup {task[h].own} ELSE passed[f][q]
        BY <1>6, <2>3
      <4> QED BY <4>1
    <3>1. CASE ~(e = task[h].epoch /\ s = task[h].sig)
      <4>1. passed'[e][s] = passed[e][s]
        BY <3>0, <3>1
      <4> QED BY <2>1, <4>1
    <3>2. CASE e = task[h].epoch /\ s = task[h].sig
      <4> DEFINE own == task[h].own
                 window == {d \in Recent(passed'[e][s], c.at) : d.at <= c.at}
      <4>1. passed'[e][s] = passed[e][s] \cup {own}
        BY <3>0, <3>2
      <4>2. /\ own \in Stamps /\ own.at \in Nat
            /\ \A d \in passed[e][s] : d.at \in Nat /\ d.at <= own.at
        <5>1. Evaluating(h) /\ KeptFor(own.at) /\ own \in Stamps
          BY <1>1, <1>2, <1>6, <2>3 DEF Kept
        <5>2. passed[e][s] \in SUBSET Stamps
          BY <1>0
        <5> QED BY <5>1, <5>2 DEF KeptFor, Stamps
      <4>3. c.at \in Nat /\ c.at <= own.at
        BY <4>1, <4>2
      <4>4. CASE c.at = own.at
        <5>1. /\ own \in task[h].list /\ IsFiniteSet(task[h].list)
              /\ Cardinality(task[h].list) <= Repeats
              /\ \A d \in passed[e][s] : own.at <= d.at + Window => d \in task[h].list
          BY <1>6, <2>3, <3>2 DEF Recorded
        <5>2. window \subseteq task[h].list
          <6> SUFFICES ASSUME NEW d \in window PROVE d \in task[h].list
            OBVIOUS
          <6>1. d \in passed[e][s] \cup {own} /\ d.at >= own.at - Window
            BY <4>1, <4>4 DEF Recent
          <6> QED BY <1>0, <4>2, <5>1, <6>1
        <5>3. Cardinality(window) <= Cardinality(task[h].list)
          BY <5>1, <5>2, FS_Subset
        <5>4. Cardinality(window) \in Nat /\ Cardinality(task[h].list) \in Nat
          BY <5>1, <5>2, FS_Subset, FS_CardinalityType
        <5> QED BY <5>1, <5>3, <5>4, BreakerAssumption
      <4>5. CASE c.at # own.at
        <5>1. c \in passed[e][s] /\ ~(own.at <= c.at)
          BY <4>1, <4>2, <4>3, <4>5
        <5>2. window = {d \in Recent(passed[e][s], c.at) : d.at <= c.at}
          BY <4>1, <5>1 DEF Recent
        <5> QED BY <2>1, <5>1, <5>2
      <4> QED BY <4>4, <4>5
    <3> QED BY <3>1, <3>2
  <2> QED BY <2>2, <2>3, CallsFrame
<1> QED BY <1>4, <1>11, <1>12, <1>13, <1>14

(* An agent whose calls follow one another gets no more than the allowed repetitions *)
(* of a call in any window of an epoch, for any limits and any times to live.        *)
THEOREM LoopsAlwaysCaught == Spec => []LoopsCaught
<1>1. Init => LoopInv
  <2> SUFFICES ASSUME Init PROVE LoopInv
    OBVIOUS
  <2>1. \A h \in Requests : ~Evaluating(h) /\ task[h].kind = "idle"
    BY DEF Init, Evaluating, Idle
  <2>2. \A e \in Times, s \in Signatures : passed[e][s] = {} /\ calls[e][s] = {}
    BY DEF Init
  <2>3. Alone /\ Kept /\ FewInWindow
    BY <2>1, <2>2 DEF Alone, Kept, KeptFor, FewInWindow
  <2>4. KeptLong
    BY <2>2, FS_EmptySet DEF KeptLong
  <2> QED BY <2>1, <2>3, <2>4 DEF LoopInv
<1>2. LoopInv => LoopsCaught
  BY DEF LoopInv, FewInWindow, LoopsCaught
<1> QED BY <1>1, <1>2, TypeCorrect, LoopStep, PTL DEF Spec
====
