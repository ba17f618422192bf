------------------------- MODULE EdgeCircuitBreaker -------------------------
(***************************************************************************)
(* The circuit breaker of one agent session (src/src/core/circuit-breaker  *)
(* .ts): a budget of actions, a detector of repeated calls, the trip that  *)
(* blocks the session for a while, and the operator's reset, which moves   *)
(* the session to a new epoch.  All of it is kept in a key-value store     *)
(* without transactions; sessions share no key.                            *)
(*                                                                         *)
(* An evaluation reads the trip, the epoch, the budget and the calls, one  *)
(* await each, and then writes whole values built from what it read.       *)
(***************************************************************************)
EXTENDS Integers, FiniteSets

CONSTANTS
  Signatures,  \* hashes of an action's type, target and parameters
  Requests,    \* requests the service can have in flight at once
  Repeats,     \* max_repeated_calls of the session's authority
  Window,      \* time_window_seconds
  CoolOff,     \* cool_off_seconds
  Actions,     \* max_session_actions
  MinTTL,      \* shortest time to live the store accepts (60 s)
  BudgetFloor, \* shortest time to live of a budget (3600 s)
  EpochTTL,    \* time to live of an epoch (86400 s)
  MaxCalls,    \* bound: how many evaluations begin
  LastCall,    \* bound: no evaluation and no reset begins after this time
  MaxTime      \* bound: the clock stops here

ASSUME BreakerAssumption ==
  /\ Repeats \in Nat \ {0}
  /\ Window \in Nat
  /\ CoolOff \in Nat \ {0}
  /\ Actions \in Nat \ {0}
  /\ MinTTL \in Nat
  /\ BudgetFloor \in Nat
  /\ EpochTTL \in Nat
  /\ MaxCalls \in Nat
  /\ LastCall \in Nat
  /\ MaxTime \in Nat \ {0}

Times == 0 .. MaxTime

VARIABLES
  now,                 \* the clock
  tripAt, tripUntil,   \* key cb:tripped:<session>, and when it lapses
  epoch, epochUntil,   \* key cb:epoch:<session>
  budget, budgetUntil, \* keys cb:budget:<session>:<epoch>
  calls, callsUntil,   \* keys cb:loop:<session>:<epoch>:<signature>
  task,                \* what each request in flight has read and still has to write
  counted,    \* history: how often an epoch's budget was charged since it last lapsed
  setBack,    \* history: how many of those charges took the budget back
  passed,     \* history: the calls let through
  overlapped, \* history: whether an evaluation began during another or outlasted a window
  old,        \* history: the requests that began before the last reset moved the epoch
  fresh,      \* history: how often any budget was charged since then
  strayed,    \* history: whether an old request charged one since then
  lastReset,  \* history: when the last reset began
  begun       \* history: how many evaluations have begun

trip == <<tripAt, tripUntil>>
epochs == <<epoch, epochUntil>>
budgets == <<budget, budgetUntil>>
loops == <<calls, callsUntil>>
charges == <<counted, setBack, fresh, strayed>>
store == <<trip, epochs, budgets, loops>>
history == <<charges, passed, overlapped, old, lastReset, begun>>
vars == <<now, store, task, history>>

\* A timestamp in the list of calls: the nth evaluation, begun at that time.
Stamps == [at : Nat, nth : Nat]
Counts == 0 .. Actions - 1

Idle == [kind |-> "idle"]
Tasks ==
  {Idle}
  \cup [kind : {"start", "epoch"}, sig : Signatures, own : Stamps]
  \cup [kind : {"budget"}, sig : Signatures, own : Stamps, epoch : Times]
  \cup [kind : {"calls"}, sig : Signatures, own : Stamps, epoch : Times, count : Counts]
  \cup [kind : {"trip"}, own : Stamps]
  \cup [kind : {"record"}, sig : Signatures, own : Stamps, epoch : Times, count : Counts,
        list : SUBSET Stamps, left : SUBSET {"calls", "budget"}]
  \cup [kind : {"reset"}, epoch : Times, left : SUBSET {"trip", "epoch"}]

TypeOK ==
  /\ now \in Times
  /\ tripAt \in Nat /\ tripUntil \in Nat
  /\ epoch \in Times /\ epochUntil \in Nat
  /\ budget \in [Times -> 0 .. Actions] /\ budgetUntil \in [Times -> Nat]
  /\ calls \in [Times -> [Signatures -> SUBSET Stamps]]
  /\ callsUntil \in [Times -> [Signatures -> Nat]]
  /\ task \in [Requests -> Tasks]
  /\ counted \in [Times -> Nat] /\ setBack \in [Times -> Nat]
  /\ passed \in [Times -> [Signatures -> SUBSET Stamps]]
  /\ overlapped \in BOOLEAN
  /\ old \subseteq Requests
  /\ fresh \in Nat /\ strayed \in BOOLEAN
  /\ lastReset \in Times
  /\ begun \in 0 .. MaxCalls

Init ==
  /\ now = 1
  /\ tripAt = 0 /\ tripUntil = 0
  /\ epoch = 0 /\ epochUntil = 0
  /\ budget = [e \in Times |-> 0] /\ budgetUntil = [e \in Times |-> 0]
  /\ calls = [e \in Times |-> [s \in Signatures |-> {}]]
  /\ callsUntil = [e \in Times |-> [s \in Signatures |-> 0]]
  /\ task = [h \in Requests |-> Idle]
  /\ counted = [e \in Times |-> 0] /\ setBack = [e \in Times |-> 0]
  /\ passed = [e \in Times |-> [s \in Signatures |-> {}]]
  /\ overlapped = FALSE
  /\ old = {}
  /\ fresh = 0 /\ strayed = FALSE
  /\ lastReset = 0
  /\ begun = 0

---------------------------------------------------------------------------
(* Helpers.                                                                *)

AtLeast(floor, ttl) == IF ttl > floor THEN ttl ELSE floor

\* What a read of a key finds.
Tripped(at) == now < tripUntil /\ at - tripAt < CoolOff
CurrentEpoch == IF now < epochUntil THEN epoch ELSE 0
StoredBudget(e) == IF now < budgetUntil[e] THEN budget[e] ELSE 0
StoredCalls(e, s) == IF now < callsUntil[e][s] THEN calls[e][s] ELSE {}

\* Mutant: the budget's limit itself is let through.
ExhaustedLate(count) == count > Actions
Exhausted(count) == count >= Actions

\* The calls the detector still counts at a time.
Recent(list, at) == {c \in list : c.at >= at - Window}

\* Mutant: the store forgets the calls before the window has passed.
LoopTTLFloor == MinTTL
LoopTTL == AtLeast(MinTTL, 2 * Window)
BudgetTTL == AtLeast(BudgetFloor, 2 * CoolOff)

\* Mutant: a reset goes on counting in the epoch there is.
EpochOfResetSame == CurrentEpoch
EpochOfReset == now

Evaluating(h) == task[h].kind \notin {"idle", "reset"}
Become(h, next) == task' = [task EXCEPT ![h] = next]

---------------------------------------------------------------------------
(* evaluateEdgeCircuitBreaker, for a call with signature s.                *)

Begin(h, s) ==
  /\ task[h] = Idle
  /\ now <= LastCall
  /\ begun < MaxCalls
  /\ begun' = begun + 1
  /\ Become(h, [kind |-> "start", sig |-> s, own |-> [at |-> now, nth |-> begun]])
  /\ overlapped' = (overlapped \/ \E k \in Requests : Evaluating(k))
  /\ old' = old \ {h}
  /\ UNCHANGED <<now, store, charges, passed, lastReset>>

ReadTrip(h) ==
  /\ task[h].kind = "start"
  /\ Become(h, IF Tripped(task[h].own.at) THEN Idle ELSE [task[h] EXCEPT !.kind = "epoch"])
  /\ UNCHANGED <<now, store, history>>

ReadEpoch(h) ==
  /\ task[h].kind = "epoch"
  /\ Become(h, [kind |-> "budget", sig |-> task[h].sig, own |-> task[h].own,
                epoch |-> CurrentEpoch])
  /\ UNCHANGED <<now, store, history>>

ReadBudget(h) ==
  LET count == StoredBudget(task[h].epoch) IN
  /\ task[h].kind = "budget"
  /\ Become(h,
       IF Exhausted(count) THEN [kind |-> "trip", own |-> task[h].own]
       ELSE [kind |-> "calls", sig |-> task[h].sig, own |-> task[h].own,
             epoch |-> task[h].epoch, count |-> count])
  /\ UNCHANGED <<now, store, history>>

ReadCalls(h) ==
  LET own == task[h].own
      list == Recent(StoredCalls(task[h].epoch, task[h].sig), own.at)
  IN
  /\ task[h].kind = "calls"
  /\ Become(h,
       IF Cardinality(list) >= Repeats THEN [kind |-> "trip", own |-> own]
       ELSE [kind |-> "record", sig |-> task[h].sig, own |-> own, epoch |-> task[h].epoch,
             count |-> task[h].count, list |-> list \cup {own},
             left |-> {"calls", "budget"}])
  /\ overlapped' = (overlapped \/ now >= own.at + Window)
  /\ UNCHANGED <<now, store, charges, passed, old, lastReset, begun>>

\* The action is blocked once the trip is stored.
PutTrip(h) ==
  /\ task[h].kind = "trip"
  /\ tripAt' = task[h].own.at
  /\ tripUntil' = now + AtLeast(MinTTL, CoolOff)
  /\ Become(h, Idle)
  /\ UNCHANGED <<now, epochs, budgets, loops, history>>

PutCalls(h) ==
  LET e == task[h].epoch
      s == task[h].sig
  IN
  /\ task[h].kind = "record"
  /\ "calls" \in task[h].left
  /\ calls' = [calls EXCEPT ![e][s] = task[h].list]
  /\ callsUntil' = [callsUntil EXCEPT ![e][s] = now + LoopTTL]
  /\ Become(h, [task[h] EXCEPT !.left = @ \ {"calls"}])
  /\ UNCHANGED <<now, trip, epochs, budgets, history>>

PutBudget(h) ==
  LET e == task[h].epoch
      charged == task[h].count + 1
      lapsed == ~(now < budgetUntil[e])
  IN
  /\ task[h].kind = "record"
  /\ "budget" \in task[h].left
  /\ budget' = [budget EXCEPT ![e] = charged]
  /\ budgetUntil' = [budgetUntil EXCEPT ![e] = now + BudgetTTL]
  /\ counted' = [counted EXCEPT ![e] = IF lapsed THEN 1 ELSE @ + 1]
  /\ setBack' = [setBack EXCEPT ![e] = IF lapsed THEN 0
                                       ELSE IF charged <= budget[e] THEN @ + 1
                                       ELSE @]
  /\ fresh' = fresh + 1
  /\ strayed' = (strayed \/ h \in old)
  /\ Become(h, [task[h] EXCEPT !.left = @ \ {"budget"}])
  /\ UNCHANGED <<now, trip, epochs, loops, passed, overlapped, old, lastReset, begun>>

\* Both writes have returned: the breaker lets the action through.
Pass(h) ==
  /\ task[h].kind = "record"
  /\ task[h].left = {}
  /\ passed' = [passed EXCEPT ![task[h].epoch][task[h].sig] = @ \cup {task[h].own}]
  /\ Become(h, Idle)
  /\ UNCHANGED <<now, store, charges, overlapped, old, lastReset, begun>>

---------------------------------------------------------------------------
(* resetEdgeCircuitBreaker: a deletion and a write, sent together.  No two *)
(* resets of a session begin in the same millisecond.                      *)

ResetBegin(h) ==
  /\ task[h] = Idle
  /\ lastReset < now /\ now <= LastCall
  /\ lastReset' = now
  /\ Become(h, [kind |-> "reset", epoch |-> EpochOfReset, left |-> {"trip", "epoch"}])
  /\ UNCHANGED <<now, store, charges, passed, overlapped, old, begun>>

ResetTrip(h) ==
  /\ task[h].kind = "reset"
  /\ "trip" \in task[h].left
  /\ tripUntil' = 0
  /\ Become(h, [task[h] EXCEPT !.left = @ \ {"trip"}])
  /\ UNCHANGED <<now, tripAt, epochs, budgets, loops, history>>

ResetEpoch(h) ==
  /\ task[h].kind = "reset"
  /\ "epoch" \in task[h].left
  /\ epoch' = task[h].epoch
  /\ epochUntil' = now + EpochTTL
  /\ Become(h, [task[h] EXCEPT !.left = @ \ {"epoch"}])
  /\ old' = {k \in Requests : Evaluating(k)}
  /\ fresh' = 0
  /\ strayed' = FALSE
  /\ UNCHANGED <<now, trip, budgets, loops, counted, setBack, passed, overlapped, lastReset, begun>>

\* The reset has been answered; or the store fails or the Worker dies, between any
\* two steps of a request, and an action being evaluated is blocked.  A write still
\* under way when the other one fails keeps its request in flight.
End(h) ==
  /\ task[h] # Idle
  /\ Become(h, Idle)
  /\ UNCHANGED <<now, store, history>>

Tick ==
  /\ now < MaxTime
  /\ now' = now + 1
  /\ UNCHANGED <<store, task, history>>

Next ==
  \/ \E h \in Requests :
       \/ \E s \in Signatures : Begin(h, s)
       \/ ReadTrip(h) \/ ReadEpoch(h) \/ ReadBudget(h) \/ ReadCalls(h)
       \/ PutTrip(h) \/ PutCalls(h) \/ PutBudget(h) \/ Pass(h)
       \/ ResetBegin(h) \/ ResetTrip(h) \/ ResetEpoch(h)
       \/ End(h)
  \/ Tick

Spec == Init /\ [][Next]_vars

---------------------------------------------------------------------------
(* Properties.                                                             *)

\* However evaluations overlap, an epoch's budget is charged no more often than it
\* allows, and as often again for each charge that was so slow that it took the
\* budget back.
BudgetButForOverlaps ==
  \A e \in Times : counted[e] <= Actions * (setBack[e] + 1)

\* An agent that begins no call before the last one is settled, within a window, gets
\* no more than the allowed repetitions of a call in any window of an epoch, whatever
\* lapses, fails or is reset in between.
LoopsCaught ==
  overlapped \/
    \A e \in Times, s \in Signatures : \A c \in passed[e][s] :
      Cardinality({d \in Recent(passed[e][s], c.at) : d.at <= c.at}) <= Repeats

\* After a reset a session starts anew: a request that begins once the epoch has
\* moved finds the budget exhausted only if that many actions have been charged
\* since, as long as no request that began before has charged one.
TripIsEarned(h) ==
  task[h].kind = "budget" /\ task'[h].kind = "trip" /\ h \notin old /\ ~strayed =>
    fresh >= Actions
ResetHolds == [][\A h \in Requests : TripIsEarned(h)]_vars
====
