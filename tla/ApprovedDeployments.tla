------------------------ MODULE ApprovedDeployments ------------------------
(***************************************************************************)
(* What the gated deployment promises its operator, with no executors,     *)
(* timeouts or messages: an approval is spent once, and one spent approval *)
(* is good for at most one deployment, of exactly the plan it approved     *)
(* (docs/WORKER_DEPLOY_PILOT.md: at-most-one execution attempt per         *)
(* consumed review).  WorkerDeploy!Ledger says that the executor           *)
(* implements this.                                                        *)
(***************************************************************************)
CONSTANTS Reviews, Packet, Attempts

VARIABLES spent, ledger

ledgerVars == <<spent, ledger>>

LedgerInit ==
  /\ spent = {}
  /\ ledger = [r \in Reviews |-> {}]

Spend(r) ==
  /\ r \notin spent
  /\ spent' = spent \cup {r}
  /\ UNCHANGED ledger

Deploy(r) ==
  /\ r \in spent
  /\ ledger[r] = {}
  /\ \E a \in Attempts : ledger' = [ledger EXCEPT ![r] = {[run |-> a, plan |-> Packet[r]]}]
  /\ UNCHANGED spent

LedgerNext == \E r \in Reviews : Spend(r) \/ Deploy(r)

LedgerSpec == LedgerInit /\ [][LedgerNext]_ledgerVars
=============================================================================
