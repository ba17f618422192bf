-------------------------- MODULE ReviewLifecycle --------------------------
(***************************************************************************)
(* What a review promises to the people around it, with no tables, clocks  *)
(* of several machines or requests in flight: a request is decided once,   *)
(* an approval is good until its deadline and for one use, a refusal is    *)
(* final, and a used approval stays used until the review is forgotten.    *)
(* The review queue implements this (FinancialReviews!Lifecycle).          *)
(***************************************************************************)
EXTENDS Integers

CONSTANTS Reviews, TokenTTL, Skew

VARIABLES time, phase, deadline

lifecycleVars == <<time, phase, deadline>>

LifecycleInit ==
  /\ time \in Nat
  /\ phase = [r \in Reviews |-> "unknown"]
  /\ deadline = [r \in Reviews |-> 0]

Submit(r) ==
  /\ phase[r] = "unknown"
  /\ phase' = [phase EXCEPT ![r] = "waiting"]
  /\ UNCHANGED <<time, deadline>>

\* An approval's deadline lies at most one token lifetime ahead.
Approve(r) ==
  /\ phase[r] = "waiting"
  /\ phase' = [phase EXCEPT ![r] = "approved"]
  /\ \E d \in 0 .. (time + Skew + TokenTTL) : deadline' = [deadline EXCEPT ![r] = d]
  /\ UNCHANGED time

Refuse(r) ==
  /\ phase[r] \in {"waiting", "approved"}
  /\ phase' = [phase EXCEPT ![r] = "refused"]
  /\ deadline' = [deadline EXCEPT ![r] = 0]
  /\ UNCHANGED time

\* A use is timely up to the error of the clock that judges it.
Use(r) ==
  /\ phase[r] = "approved"
  /\ time - Skew < deadline[r]
  /\ phase' = [phase EXCEPT ![r] = "used"]
  /\ deadline' = [deadline EXCEPT ![r] = 0]
  /\ UNCHANGED time

Forget ==
  \E gone \in SUBSET {r \in Reviews : phase[r] # "unknown"} :
    /\ phase' = [r \in Reviews |-> IF r \in gone THEN "forgotten" ELSE phase[r]]
    /\ deadline' = [r \in Reviews |-> IF r \in gone THEN 0 ELSE deadline[r]]
    /\ UNCHANGED time

Pass ==
  /\ time' = time + 1
  /\ UNCHANGED <<phase, deadline>>

LifecycleNext ==
  \/ \E r \in Reviews : Submit(r) \/ Approve(r) \/ Refuse(r) \/ Use(r)
  \/ Forget
  \/ Pass

LifecycleSpec == LifecycleInit /\ [][LifecycleNext]_lifecycleVars
====
