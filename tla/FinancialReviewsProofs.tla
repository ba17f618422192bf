---------------------- MODULE FinancialReviewsProofs ----------------------
(***************************************************************************)
(* Proofs about FinancialReviews for every set of reviews, wallets and     *)
(* transactions, every number of requests in flight and every setting of   *)
(* the clocks, the windows and the budgets.                                *)
(***************************************************************************)
EXTENDS FinancialReviews, TLAPS

(* The fields a request in flight carries, by its kind. *)
LEMMA TaskFields ==
  ASSUME TypeOK, NEW h \in Handlers
  PROVE  /\ task[h] \in Tasks
         /\ task[h].kind # "idle" => task[h].review \in Reviews
         /\ task[h].kind \in {"idle", "submit", "decide", "consume", "cancel", "verify"}
         /\ task[h].kind = "idle" => task[h] = Idle
         /\ task[h].kind = "submit" => task[h].at \in Nat /\ task[h].life \in Lifetimes
         /\ task[h].kind = "decide" =>
              task[h].at \in Nat /\ task[h].decision \in {"APPROVED", "REJECTED"}
         /\ task[h].kind = "consume" => task[h].at \in Nat /\ task[h].token \in Nat
         /\ task[h].kind = "verify" => task[h].tx \in Txs /\ task[h].claimedAt \in Nat
BY DEF TypeOK, Tasks, Idle

(* A Worker's reading of the clock is a positive number near the database's. *)
LEMMA WorkerClockFact ==
  ASSUME TypeOK, NEW t \in WorkerClock
  PROVE  t \in Nat /\ t > 0 /\ now - Skew <= t /\ t <= now + Skew
BY TimeAssumption DEF TypeOK, WorkerClock

(* Ending a request keeps the table of requests in flight well-formed. *)
LEMMA FinishType ==
  ASSUME TypeOK, NEW h \in Handlers, Finish(h)
  PROVE  task' \in [Handlers -> Tasks]
BY DEF TypeOK, Finish, Tasks, Idle

(* Every step keeps the tables, the policies, the chain and the requests in *)
(* flight within their types.                                              *)
LEMMA TypeStep ==
  ASSUME TypeOK, [Next]_vars
  PROVE  TypeOK'
<1> USE ReviewAssumption, SettingsAssumption, TimeAssumption DEF NoTime, reviewCols, holdCols, history
<1>1. ASSUME NEW h \in Handlers, NEW r \in Reviews, NEW life \in Lifetimes,
             SubmitBegin(h, r, life)
      PROVE  TypeOK'
  <2>1. \A at \in WorkerClock : [kind |-> "submit", review |-> r, at |-> at, life |-> life] \in Tasks
    BY WorkerClockFact DEF Tasks
  <2>2. task' \in [Handlers -> Tasks]
    BY <1>1, <2>1 DEF SubmitBegin, TypeOK
  <2> QED BY <1>1, <2>2 DEF SubmitBegin, TypeOK
<1>2. ASSUME NEW h \in Handlers, SubmitCommit(h)
      PROVE  TypeOK'
  <2>1. task' \in [Handlers -> Tasks]
    BY <1>2, FinishType DEF SubmitCommit
  <2>2. task[h].review \in Reviews /\ task[h].at \in Nat /\ task[h].life \in Nat
    BY <1>2, TaskFields DEF SubmitCommit, Idle
  <2> QED BY <1>2, <2>1, <2>2 DEF SubmitCommit, TypeOK
<1>3. ASSUME NEW h \in Handlers, NEW r \in Reviews,
             NEW d \in {"APPROVED", "REJECTED"}, DecideBegin(h, r, d)
      PROVE  TypeOK'
  <2>1. \A at \in WorkerClock :
          [kind |-> "decide", review |-> r, at |-> at, decision |-> d] \in Tasks
    BY WorkerClockFact DEF Tasks
  <2>2. task' \in [Handlers -> Tasks]
    BY <1>3, <2>1 DEF DecideBegin, TypeOK
  <2> QED BY <1>3, <2>2 DEF DecideBegin, TypeOK
<1>4. ASSUME NEW h \in Handlers, DecideCommit(h)
      PROVE  TypeOK'
  <2>1. task' \in [Handlers -> Tasks]
    BY <1>4, FinishType DEF DecideCommit
  <2>2. /\ task[h].review \in Reviews /\ task[h].at \in Nat
        /\ task[h].decision \in {"APPROVED", "REJECTED"}
    BY <1>4, TaskFields DEF DecideCommit, Idle
  <2>3. expires[task[h].review] \in Nat
    BY <2>2 DEF TypeOK
  <2> QED BY <1>4, <2>1, <2>2, <2>3 DEF DecideCommit, TypeOK
<1>5. ASSUME NEW h \in Handlers, NEW r \in Reviews, ConsumeBegin(h, r)
      PROVE  TypeOK'
  <2>1. \A at \in WorkerClock :
          [kind |-> "consume", review |-> r, at |-> at, token |-> token[r]] \in Tasks
    BY WorkerClockFact DEF Tasks, TypeOK
  <2>2. task' \in [Handlers -> Tasks]
    BY <1>5, <2>1 DEF ConsumeBegin, TypeOK
  <2> QED BY <1>5, <2>2 DEF ConsumeBegin, TypeOK
<1>6. ASSUME NEW h \in Handlers, ConsumeCommit(h)
      PROVE  TypeOK'
  <2>1. task' \in [Handlers -> Tasks]
    BY <1>6, FinishType DEF ConsumeCommit
  <2>2. task[h].review \in Reviews
    BY <1>6, TaskFields DEF ConsumeCommit, Idle
  <2>3. consumed' \in [Reviews -> Nat]
    BY <1>6, <2>2, WorkerClockFact DEF ConsumeCommit, TypeOK
  <2> QED BY <1>6, <2>1, <2>2, <2>3 DEF ConsumeCommit, TypeOK
<1>7. ASSUME NEW h \in Handlers, NEW r \in Reviews, CancelBegin(h, r)
      PROVE  TypeOK'
  <2>1. [kind |-> "cancel", review |-> r] \in Tasks
    BY DEF Tasks
  <2>2. task' \in [Handlers -> Tasks]
    BY <1>7, <2>1 DEF CancelBegin, TypeOK
  <2> QED BY <1>7, <2>2 DEF CancelBegin, TypeOK
<1>8. ASSUME NEW h \in Handlers, CancelCommit(h)
      PROVE  TypeOK'
  <2>1. task' \in [Handlers -> Tasks]
    BY <1>8, FinishType DEF CancelCommit
  <2> QED BY <1>8, <2>1 DEF CancelCommit, TypeOK
<1>9. ASSUME NEW h \in Handlers, NEW r \in Reviews, NEW t \in Txs, Attach(h, r, t)
      PROVE  TypeOK'
  <2>1. [kind |-> "verify", review |-> r, tx |-> t, claimedAt |-> consumed[r]] \in Tasks
    BY DEF Tasks, TypeOK
  <2>2. task' \in [Handlers -> Tasks]
    BY <1>9, <2>1 DEF Attach, TypeOK
  <2> QED BY <1>9, <2>2 DEF Attach, TypeOK
<1>10. ASSUME NEW h \in Handlers, Settle(h)
       PROVE  TypeOK'
  <2>1. task' \in [Handlers -> Tasks]
    BY <1>10, FinishType DEF Settle
  <2>2. task[h].review \in Reviews /\ task[h].tx \in Txs
    BY <1>10, TaskFields DEF Settle
  <2>3. chain[task[h].tx].at \in Nat /\ task[h].review \in Financial
    BY <1>10, <2>2 DEF Settle, Verified, TypeOK
  <2> QED BY <1>10, <2>1, <2>2, <2>3 DEF Settle, Outcome, TypeOK
<1>11. ASSUME NEW h \in Handlers, Abandon(h)
       PROVE  TypeOK'
  BY <1>11, FinishType DEF Abandon, TypeOK
<1>12. ASSUME NEW w \in Wallets, NEW p \in Policies, SetPolicy(w, p)
       PROVE  TypeOK'
  <2>1. p.daily \in Nat
    BY DEF PolicySettings
  <2> QED BY <1>12, <2>1 DEF SetPolicy, TypeOK
<1>13. ASSUME NEW t \in Txs, NEW ok \in BOOLEAN, Mine(t, ok)
       PROVE  TypeOK'
  BY <1>13 DEF Mine, TypeOK
<1>14. ASSUME Prune
       PROVE  TypeOK'
  BY <1>14 DEF Prune, TypeOK
<1>15. ASSUME Tick
       PROVE  TypeOK'
  BY <1>15 DEF Tick, TypeOK
<1>16. ASSUME UNCHANGED vars
       PROVE  TypeOK'
  BY <1>16 DEF vars, TypeOK
<1> QED
  BY <1>1, <1>2, <1>3, <1>4, <1>5, <1>6, <1>7, <1>8, <1>9, <1>10, <1>11, <1>12,
     <1>13, <1>14, <1>15, <1>16 DEF Next, Request

(* Whatever requests race, expire or crash, the tables hold only rows of    *)
(* their schema and the requests in flight are those the handlers make.     *)
THEOREM TypeCorrect == Spec => []TypeOK
<1>1. Init => TypeOK
  BY ReviewAssumption, TimeAssumption
  DEF Init, TypeOK, Tasks, NoTime
<1>2. TypeOK /\ [Next]_vars => TypeOK'
  BY TypeStep
<1> QED BY <1>1, <1>2, PTL DEF Spec

---------------------------------------------------------------------------

(* What changes one review's row leaves the others' rows agreeing. *)
LEMMA OtherRows ==
  ASSUME NEW r \in Reviews, RowAgrees(r),
         status'[r] = status[r], created'[r] = created[r], expires'[r] = expires[r],
         tokenExp'[r] = tokenExp[r], consumed'[r] = consumed[r], hold'[r] = hold[r],
         txHash'[r] = txHash[r], settled'[r] = settled[r]
  PROVE  RowAgrees(r)'
BY DEF RowAgrees

(* A request that keeps what it read keeps relying on it, as long as the    *)
(* reviews move only forward: no id is submitted again, no claim is undone. *)
LEMMA TasksKeepAgreeing ==
  ASSUME TypeOK, TypeOK', NEW h \in Handlers, now' >= now,
         \A k \in Handlers : TaskAgrees(k),
         task[h].kind = "submit" => status'[task[h].review] = "ABSENT",
         task[h].kind = "verify" =>
           /\ status'[task[h].review] \in {"CONSUMED", "PRUNED"}
           /\ status'[task[h].review] = "CONSUMED" =>
                consumed'[task[h].review] = task[h].claimedAt,
         task'[h] = task[h],
         \A k \in Handlers : task'[k].kind = "submit" => task'[k] = task[k]
  PROVE  TaskAgrees(h)'
<1>1. task[h].kind \in {"submit", "decide", "consume"} => task[h].at \in Nat
  BY TaskFields
<1> QED BY <1>1, TimeAssumption DEF TaskAgrees, TypeOK

(* A request that has ended relies on nothing. *)
LEMMA FinishedAgrees ==
  ASSUME NEW h \in Handlers, task'[h] = Idle
  PROVE  TaskAgrees(h)'
BY DEF TaskAgrees, Idle

(* A commit by h that touches review r alone keeps the tables agreeing when  *)
(* r's new row agrees and nobody else in flight relies on r's old one.       *)
LEMMA CommitAgrees ==
  ASSUME TypeOK, TypeOK', TablesAgree, NEW h \in Handlers, NEW r \in Reviews, Finish(h),
         now' = now, RowAgrees(r)',
         \A s \in Reviews \ {r} :
           /\ status'[s] = status[s] /\ created'[s] = created[s]
           /\ expires'[s] = expires[s] /\ tokenExp'[s] = tokenExp[s]
           /\ consumed'[s] = consumed[s] /\ hold'[s] = hold[s]
           /\ txHash'[s] = txHash[s] /\ settled'[s] = settled[s],
         \A k \in Handlers \ {h} :
           task[k].review = r =>
             /\ task[k].kind = "submit" => status'[r] = "ABSENT"
             /\ task[k].kind = "verify" => status'[r] = status[r] /\ consumed'[r] = consumed[r]
  PROVE  TablesAgree'
<1>1. \A s \in Reviews : RowAgrees(s)'
  <2>1. ASSUME NEW s \in Reviews, s # r PROVE RowAgrees(s)'
    BY <2>1, OtherRows DEF TablesAgree
  <2> QED BY <2>1
<1>2. ASSUME NEW k \in Handlers PROVE TaskAgrees(k)'
  <2>1. CASE k = h
    BY <2>1, FinishedAgrees DEF Finish, TypeOK
  <2>2. CASE k # h
    <3>1. task'[k] = task[k]
      BY <2>2 DEF Finish, TypeOK
    <3>2. \A j \in Handlers : task'[j].kind = "submit" => task'[j] = task[j]
      BY DEF Finish, TypeOK, Idle
    <3>3. \A j \in Handlers : TaskAgrees(j)
      BY DEF TablesAgree
    <3>4. TaskAgrees(k)
      BY <3>3
    <3>5. task[k].kind = "submit" => status'[task[k].review] = "ABSENT"
      BY <3>4, <2>2, TaskFields DEF TaskAgrees
    <3>6. task[k].kind = "verify" =>
            /\ status'[task[k].review] \in {"CONSUMED", "PRUNED"}
            /\ status'[task[k].review] = "CONSUMED" =>
                 consumed'[task[k].review] = task[k].claimedAt
      BY <3>4, <2>2, TaskFields DEF TaskAgrees
    <3>7. now' >= now
      BY TimeAssumption DEF TypeOK
    <3> QED BY <3>1, <3>2, <3>3, <3>5, <3>6, <3>7, TasksKeepAgreeing
  <2> QED BY <2>1, <2>2
<1> QED BY <1>1, <1>2 DEF TablesAgree

(* Starting a request, which writes nothing but `task`, keeps the tables     *)
(* agreeing when what it read can be relied on.                              *)
LEMMA BeginAgrees ==
  ASSUME TypeOK, TypeOK', TablesAgree, NEW h \in Handlers, task[h] = Idle,
         NEW new \in Tasks, task' = [task EXCEPT ![h] = new],
         UNCHANGED <<now, status, created, expires, tokenExp, consumed, hold, settled>>,
         \A r \in Reviews : RowAgrees(r)', TaskAgrees(h)',
         new.kind = "submit" =>
           \A k \in Handlers : task[k].kind = "submit" => task[k].review # new.review
  PROVE  TablesAgree'
<1>1. ASSUME NEW k \in Handlers, k # h PROVE TaskAgrees(k)'
  <2>1. task'[k] = task[k] /\ task'[h] = new
    BY <1>1 DEF TypeOK
  <2>2. TaskAgrees(k)
    BY DEF TablesAgree
  <2>3. CASE new.kind = "submit"
    <3>1. \A j \in Handlers \ {k} :
            task'[k].kind = "submit" /\ task'[j].kind = "submit" => task'[j].review # task'[k].review
      BY <2>1, <2>2, <2>3 DEF TaskAgrees, TypeOK
    <3> QED BY <2>1, <2>2, <3>1 DEF TaskAgrees
  <2>4. CASE new.kind # "submit"
    <3>1. \A j \in Handlers \ {k} : task'[j].kind = "submit" => task'[j] = task[j]
      BY <2>1, <2>4 DEF TypeOK
    <3> QED BY <2>1, <2>2, <3>1 DEF TaskAgrees
  <2> QED BY <2>3, <2>4
<1> QED BY <1>1 DEF TablesAgree

(* Every step keeps the tables agreeing. *)
LEMMA TablesAgreeStep ==
  ASSUME TypeOK, TypeOK', TablesAgree, [Next]_vars
  PROVE  TablesAgree'
<1> USE DEF reviewCols, holdCols, history
<1>0. (\A r \in Reviews : RowAgrees(r)) /\ (\A k \in Handlers : TaskAgrees(k))
  BY DEF TablesAgree
<1>1. ASSUME NEW h \in Handlers, NEW r \in Reviews, NEW life \in Lifetimes,
             SubmitBegin(h, r, life)
      PROVE  TablesAgree'
  <2>1. PICK at \in WorkerClock :
          task' = [task EXCEPT ![h] =
                     [kind |-> "submit", review |-> r, at |-> at, life |-> life]]
    BY <1>1 DEF SubmitBegin
  <2> DEFINE new == [kind |-> "submit", review |-> r, at |-> at, life |-> life]
  <2>2. at \in Nat /\ at <= now + Skew
    BY WorkerClockFact
  <2>3. new \in Tasks
    BY <2>2 DEF Tasks
  <2>4. \A s \in Reviews : RowAgrees(s)'
    BY <1>0, <1>1, OtherRows DEF SubmitBegin
  <2>5. \A k \in Handlers : task[k].kind = "submit" => task[k].review # r
    BY <1>1 DEF SubmitBegin
  <2>6. task'[h] = new /\ \A k \in Handlers \ {h} : task'[k] = task[k]
    BY <2>1 DEF TypeOK
  <2>7. TaskAgrees(h)'
    BY <1>1, <2>2, <2>5, <2>6 DEF SubmitBegin, TaskAgrees
  <2> HIDE DEF new
  <2> QED BY <1>1, <2>1, <2>3, <2>4, <2>5, <2>7, BeginAgrees DEF SubmitBegin, new
<1>2. ASSUME NEW h \in Handlers, SubmitCommit(h)
      PROVE  TablesAgree'
  <2>0. PICK r \in Reviews : r = task[h].review
    BY <1>2, TaskFields DEF SubmitCommit
  <2> USE <2>0
  <2>1. /\ task[h].kind = "submit" /\ r \in Reviews
        /\ task[h].at \in Nat /\ task[h].life \in Lifetimes
    BY <1>2, TaskFields DEF SubmitCommit
  <2>2. task[h].life \in Nat /\ task[h].life + Skew <= Retention
    BY <2>1, TimeAssumption
  <2>3. RowAgrees(r) /\ TaskAgrees(h)
    BY <1>0, <2>1
  <2>4. status[r] = "ABSENT"
    BY <2>1, <2>3 DEF TaskAgrees
  <2>5. RowAgrees(r)'
    BY <1>2, <2>1, <2>2, <2>3, <2>4, TimeAssumption
    DEF SubmitCommit, RowAgrees, TypeOK, NoTime
  <2>6. \A k \in Handlers \ {h} :
          task[k].review = r => task[k].kind # "submit" /\ task[k].kind # "verify"
    BY <1>0, <2>1, <2>3, <2>4 DEF TaskAgrees
  <2>7. \A s \in Reviews \ {r} :
          /\ status'[s] = status[s] /\ created'[s] = created[s]
          /\ expires'[s] = expires[s] /\ tokenExp'[s] = tokenExp[s]
          /\ consumed'[s] = consumed[s] /\ hold'[s] = hold[s]
          /\ txHash'[s] = txHash[s] /\ settled'[s] = settled[s]
    BY <1>2 DEF SubmitCommit, TypeOK
  <2>8. Finish(h) /\ now' = now
    BY <1>2 DEF SubmitCommit
  <2> QED BY <2>1, <2>5, <2>6, <2>7, <2>8, CommitAgrees
<1>3. ASSUME NEW h \in Handlers, NEW r \in Reviews,
             NEW d \in {"APPROVED", "REJECTED"}, DecideBegin(h, r, d)
      PROVE  TablesAgree'
  <2>1. PICK at \in WorkerClock :
          task' = [task EXCEPT ![h] =
                     [kind |-> "decide", review |-> r, at |-> at, decision |-> d]]
    BY <1>3 DEF DecideBegin
  <2> DEFINE new == [kind |-> "decide", review |-> r, at |-> at, decision |-> d]
  <2>2. at \in Nat /\ at <= now + Skew
    BY WorkerClockFact
  <2>3. new \in Tasks /\ new.kind # "submit"
    BY <2>2 DEF Tasks
  <2>4. \A s \in Reviews : RowAgrees(s)'
    BY <1>0, <1>3, OtherRows DEF DecideBegin
  <2>5. task'[h] = new
    BY <2>1 DEF TypeOK
  <2>6. TaskAgrees(h)'
    BY <1>3, <2>2, <2>5 DEF DecideBegin, TaskAgrees
  <2> HIDE DEF new
  <2> QED BY <1>3, <2>1, <2>3, <2>4, <2>6, BeginAgrees DEF DecideBegin, new
<1>4. ASSUME NEW h \in Handlers, DecideCommit(h)
      PROVE  TablesAgree'
  <2>0. PICK r \in Reviews : r = task[h].review
    BY <1>4, TaskFields DEF DecideCommit
  <2> USE <2>0
  <2>1. /\ task[h].kind = "decide" /\ r \in Reviews /\ task[h].at \in Nat
        /\ task[h].decision \in {"APPROVED", "REJECTED"}
    BY <1>4, TaskFields DEF DecideCommit
  <2>2. RowAgrees(r)
    BY <1>0, <2>1
  <2>3. status[r] = "PENDING"
    BY <1>4 DEF DecideCommit, Undecided
  <2>4. /\ status'[r] = task[h].decision
        /\ tokenExp'[r] \in Nat /\ tokenExp'[r] <= expires[r]
    BY <1>4, <2>1, TimeAssumption DEF DecideCommit, TypeOK
  <2>5. RowAgrees(r)'
    BY <1>4, <2>1, <2>2, <2>3, <2>4 DEF DecideCommit, RowAgrees
  <2>6. \A k \in Handlers \ {h} :
          task[k].review = r => task[k].kind # "submit" /\ task[k].kind # "verify"
    BY <1>0, <2>1, <2>3 DEF TaskAgrees
  <2>7. \A s \in Reviews \ {r} :
          /\ status'[s] = status[s] /\ created'[s] = created[s]
          /\ expires'[s] = expires[s] /\ tokenExp'[s] = tokenExp[s]
          /\ consumed'[s] = consumed[s] /\ hold'[s] = hold[s]
          /\ txHash'[s] = txHash[s] /\ settled'[s] = settled[s]
    BY <1>4 DEF DecideCommit, TypeOK
  <2>8. Finish(h) /\ now' = now
    BY <1>4 DEF DecideCommit
  <2> QED BY <2>1, <2>5, <2>6, <2>7, <2>8, CommitAgrees
<1>5. ASSUME NEW h \in Handlers, NEW r \in Reviews, ConsumeBegin(h, r)
      PROVE  TablesAgree'
  <2>1. PICK at \in WorkerClock :
          task' = [task EXCEPT ![h] =
                     [kind |-> "consume", review |-> r, at |-> at, token |-> token[r]]]
    BY <1>5 DEF ConsumeBegin
  <2> DEFINE new == [kind |-> "consume", review |-> r, at |-> at, token |-> token[r]]
  <2>2. at \in Nat /\ at <= now + Skew
    BY WorkerClockFact
  <2>3. new \in Tasks /\ new.kind # "submit"
    BY <2>2 DEF Tasks, TypeOK
  <2>4. \A s \in Reviews : RowAgrees(s)'
    BY <1>0, <1>5, OtherRows DEF ConsumeBegin
  <2>5. task'[h] = new
    BY <2>1 DEF TypeOK
  <2>6. TaskAgrees(h)'
    BY <1>5, <2>2, <2>5 DEF ConsumeBegin, TaskAgrees
  <2> HIDE DEF new
  <2> QED BY <1>5, <2>1, <2>3, <2>4, <2>6, BeginAgrees DEF ConsumeBegin, new
<1>6. ASSUME NEW h \in Handlers, ConsumeCommit(h)
      PROVE  TablesAgree'
  <2>0. PICK r \in Reviews : r = task[h].review
    BY <1>6, TaskFields DEF ConsumeCommit
  <2> USE <2>0
  <2>1. task[h].kind = "consume" /\ r \in Reviews
    BY <1>6, TaskFields DEF ConsumeCommit
  <2>2. RowAgrees(r)
    BY <1>0, <2>1
  <2>3. status[r] = "APPROVED" /\ (r \in Financial => hold[r] = "RESERVED")
    BY <1>6 DEF ConsumeCommit, Claimable
  <2>4. PICK consumedAt \in WorkerClock :
          /\ tokenExp[r] > consumedAt
          /\ consumed' = [consumed EXCEPT ![r] = consumedAt]
    BY <1>6 DEF ConsumeCommit
  <2>5. /\ status'[r] = "CONSUMED" /\ consumed'[r] \in Nat \ {0}
        /\ consumed'[r] < tokenExp[r]
        /\ hold'[r] = IF r \in Financial THEN "CLAIMED" ELSE hold[r]
    BY <1>6, <2>1, <2>4, WorkerClockFact DEF ConsumeCommit, TypeOK
  <2>6. RowAgrees(r)'
    BY <1>6, <2>2, <2>3, <2>5 DEF ConsumeCommit, RowAgrees, NoTime
  <2>7. \A k \in Handlers \ {h} :
          task[k].review = r => task[k].kind # "submit" /\ task[k].kind # "verify"
    BY <1>0, <2>1, <2>3 DEF TaskAgrees
  <2>8. \A s \in Reviews \ {r} :
          /\ status'[s] = status[s] /\ created'[s] = created[s]
          /\ expires'[s] = expires[s] /\ tokenExp'[s] = tokenExp[s]
          /\ consumed'[s] = consumed[s] /\ hold'[s] = hold[s]
          /\ txHash'[s] = txHash[s] /\ settled'[s] = settled[s]
    BY <1>6, <2>4 DEF ConsumeCommit, TypeOK
  <2>9. Finish(h) /\ now' = now
    BY <1>6 DEF ConsumeCommit
  <2> QED BY <2>1, <2>6, <2>7, <2>8, <2>9, CommitAgrees
<1>7. ASSUME NEW h \in Handlers, NEW r \in Reviews, CancelBegin(h, r)
      PROVE  TablesAgree'
  <2> DEFINE new == [kind |-> "cancel", review |-> r]
  <2>1. new \in Tasks /\ new.kind # "submit"
    BY DEF Tasks
  <2>2. \A s \in Reviews : RowAgrees(s)'
    BY <1>0, <1>7, OtherRows DEF CancelBegin
  <2>3. task'[h] = new
    BY <1>7 DEF CancelBegin, TypeOK
  <2>4. TaskAgrees(h)'
    BY <2>3 DEF TaskAgrees
  <2> HIDE DEF new
  <2> QED BY <1>7, <2>1, <2>2, <2>4, BeginAgrees DEF CancelBegin, new
<1>8. ASSUME NEW h \in Handlers, CancelCommit(h)
      PROVE  TablesAgree'
  <2>0. PICK r \in Reviews : r = task[h].review
    BY <1>8, TaskFields DEF CancelCommit
  <2> USE <2>0
  <2>1. task[h].kind = "cancel" /\ r \in Reviews
    BY <1>8, TaskFields DEF CancelCommit
  <2>2. RowAgrees(r)
    BY <1>0, <2>1
  <2>3. status[r] \in {"PENDING", "APPROVED"} /\ expires[r] \in Nat
    BY <1>8, <2>1 DEF CancelCommit, Cancellable, TypeOK
  <2>4. status'[r] = "REJECTED" /\ tokenExp'[r] = 0
    BY <1>8, <2>1 DEF CancelCommit, TypeOK, NoTime
  <2>5. RowAgrees(r)'
    BY <1>8, <2>2, <2>3, <2>4 DEF CancelCommit, RowAgrees, NoTime
  <2>6. \A k \in Handlers \ {h} :
          task[k].review = r => task[k].kind # "submit" /\ task[k].kind # "verify"
    BY <1>0, <2>1, <2>3 DEF TaskAgrees
  <2>7. \A s \in Reviews \ {r} :
          /\ status'[s] = status[s] /\ created'[s] = created[s]
          /\ expires'[s] = expires[s] /\ tokenExp'[s] = tokenExp[s]
          /\ consumed'[s] = consumed[s] /\ hold'[s] = hold[s]
          /\ txHash'[s] = txHash[s] /\ settled'[s] = settled[s]
    BY <1>8 DEF CancelCommit, TypeOK
  <2>8. Finish(h) /\ now' = now
    BY <1>8 DEF CancelCommit
  <2> QED BY <2>1, <2>5, <2>6, <2>7, <2>8, CommitAgrees
<1>9. ASSUME NEW h \in Handlers, NEW r \in Reviews, NEW t \in Txs, Attach(h, r, t)
      PROVE  TablesAgree'
  <2> DEFINE new == [kind |-> "verify", review |-> r, tx |-> t, claimedAt |-> consumed[r]]
  <2>1. new \in Tasks /\ new.kind # "submit"
    BY DEF Tasks, TypeOK
  <2>2. ASSUME NEW s \in Reviews PROVE RowAgrees(s)'
    <3>1. CASE s = r
      BY <1>0, <1>9, <3>1 DEF Attach, RowAgrees, TypeOK
    <3>2. CASE s # r
      <4>1. txHash'[s] = txHash[s]
        BY <1>9, <3>2 DEF Attach, TypeOK
      <4> QED BY <1>0, <1>9, <4>1, OtherRows DEF Attach
    <3> QED BY <3>1, <3>2
  <2>3. task'[h] = new
    BY <1>9 DEF Attach, TypeOK
  <2>4. TaskAgrees(h)'
    BY <1>9, <2>3 DEF Attach, TaskAgrees
  <2> HIDE DEF new
  <2> QED BY <1>9, <2>1, <2>2, <2>4, BeginAgrees DEF Attach, new
<1>10. ASSUME NEW h \in Handlers, Settle(h)
       PROVE  TablesAgree'
  <2>0. PICK r \in Reviews : r = task[h].review
    BY <1>10, TaskFields DEF Settle
  <2> USE <2>0
  <2> DEFINE t == task[h].tx
  <2>1. /\ task[h].kind = "verify" /\ r \in Reviews /\ t \in Txs
        /\ task[h].claimedAt \in Nat
    BY <1>10, TaskFields DEF Settle
  <2>2. RowAgrees(r) /\ TaskAgrees(h)
    BY <1>0, <2>1
  <2>3. hold[r] = "CLAIMED" /\ r \in Financial
    BY <1>10, <2>1, ReviewAssumption DEF Settle, Verified
  <2>4. status[r] = "CONSUMED" /\ task[h].claimedAt = consumed[r]
    BY <2>1, <2>2, <2>3 DEF RowAgrees, TaskAgrees
  <2>5. chain[t].at \in Nat /\ chain[t].at > consumed[r]
    BY <1>10, <2>1, <2>4 DEF Settle, Verified, TypeOK
  <2>6. hold'[r] \in {"SETTLED", "REVERTED"} /\ settled'[r] = chain[t].at
    BY <1>10, <2>1 DEF Settle, Outcome, TypeOK
  <2>7. RowAgrees(r)'
    BY <1>10, <2>1, <2>2, <2>3, <2>4, <2>5, <2>6 DEF Settle, RowAgrees, NoTime
  <2>8. \A k \in Handlers \ {h} :
          task[k].review = r => task[k].kind # "submit"
    BY <1>0, <2>1, <2>4 DEF TaskAgrees
  <2>9. \A s \in Reviews \ {r} :
          /\ status'[s] = status[s] /\ created'[s] = created[s]
          /\ expires'[s] = expires[s] /\ tokenExp'[s] = tokenExp[s]
          /\ consumed'[s] = consumed[s] /\ hold'[s] = hold[s]
          /\ txHash'[s] = txHash[s] /\ settled'[s] = settled[s]
    BY <1>10 DEF Settle, TypeOK
  <2>10. /\ Finish(h) /\ now' = now
         /\ status'[r] = status[r] /\ consumed'[r] = consumed[r]
    BY <1>10 DEF Settle
  <2> QED BY <2>1, <2>7, <2>8, <2>9, <2>10, CommitAgrees
<1>11. ASSUME NEW h \in Handlers, Abandon(h)
       PROVE  TablesAgree'
  <2>1. \A s \in Reviews : RowAgrees(s)'
    BY <1>0, <1>11, OtherRows DEF Abandon
  <2>2. ASSUME NEW k \in Handlers PROVE TaskAgrees(k)'
    <3>1. CASE k = h
      BY <1>11, <3>1, FinishedAgrees DEF Abandon, Finish, TypeOK
    <3>2. CASE k # h
      <4>1. task'[k] = task[k] /\ \A j \in Handlers : task'[j].kind = "submit" => task'[j] = task[j]
        BY <1>11, <3>2 DEF Abandon, Finish, TypeOK, Idle
      <4> QED BY <1>0, <1>11, <4>1 DEF Abandon, TaskAgrees
    <3> QED BY <3>1, <3>2
  <2> QED BY <2>1, <2>2 DEF TablesAgree
<1>12. ASSUME UNCHANGED <<now, status, created, expires, tokenExp, consumed, hold,
                          txHash, settled, task>>
       PROVE  TablesAgree'
  BY <1>0, <1>12 DEF TablesAgree, RowAgrees, TaskAgrees
<1>13. ASSUME Prune
       PROVE  TablesAgree'
  <2>1. PICK scheduled \in WorkerClock :
          LET gone == Prunable(scheduled) IN
          /\ status' = [r \in Reviews |-> IF r \in gone THEN "PRUNED" ELSE status[r]]
          /\ created' = [r \in Reviews |-> IF r \in gone THEN NoTime ELSE created[r]]
          /\ expires' = [r \in Reviews |-> IF r \in gone THEN NoTime ELSE expires[r]]
          /\ tokenExp' = [r \in Reviews |-> IF r \in gone THEN NoTime ELSE tokenExp[r]]
          /\ consumed' = [r \in Reviews |-> IF r \in gone THEN NoTime ELSE consumed[r]]
          /\ hold' = [r \in Reviews |-> IF r \in gone THEN "NONE" ELSE hold[r]]
          /\ txHash' = [r \in Reviews |-> IF r \in gone THEN NoTx ELSE txHash[r]]
          /\ settled' = [r \in Reviews |-> IF r \in gone THEN NoTime ELSE settled[r]]
    BY <1>13 DEF Prune
  <2> DEFINE gone == Prunable(scheduled)
  <2>2. ASSUME NEW r \in Reviews PROVE RowAgrees(r)'
    <3>1. CASE r \in gone
      BY <2>1, <3>1 DEF RowAgrees, NoTime
    <3>2. CASE r \notin gone
      BY <1>0, <2>1, <3>2, OtherRows
    <3> QED BY <3>1, <3>2
  <2>3. ASSUME NEW k \in Handlers PROVE TaskAgrees(k)'
    <3>1. now' = now /\ task' = task
      BY <1>13 DEF Prune
    <3>2. TaskAgrees(k)
      BY <1>0
    <3>3. task[k].kind = "submit" => task[k].review \notin gone
      BY <3>2 DEF TaskAgrees, Prunable
    <3>4. task[k].kind \in {"submit", "verify"} => task[k].review \in Reviews
      BY TaskFields
    <3> HIDE DEF gone
    <3>5. task[k].kind = "submit" => status'[task[k].review] = status[task[k].review]
      BY <2>1, <3>3, <3>4 DEF gone
    <3>6. task[k].kind = "verify" =>
            \/ status'[task[k].review] = "PRUNED"
            \/ /\ status'[task[k].review] = status[task[k].review]
               /\ consumed'[task[k].review] = consumed[task[k].review]
      BY <2>1, <3>4
    <3> QED BY <3>1, <3>2, <3>5, <3>6 DEF TaskAgrees
  <2> QED BY <2>2, <2>3 DEF TablesAgree
<1>14. ASSUME Tick
       PROVE  TablesAgree'
  <2>1. \A s \in Reviews : RowAgrees(s)'
    BY <1>0, <1>14, OtherRows DEF Tick
  <2>2. ASSUME NEW k \in Handlers PROVE TaskAgrees(k)'
    <3>1. task[k].kind \in {"submit", "decide", "consume"} => task[k].at \in Nat
      BY TaskFields
    <3> QED BY <1>0, <1>14, <3>1, TimeAssumption DEF Tick, TaskAgrees, TypeOK
  <2> QED BY <2>1, <2>2 DEF TablesAgree
<1>15. CASE \E h \in Handlers : Request(h)
  BY <1>1, <1>2, <1>3, <1>4, <1>5, <1>6, <1>7, <1>8, <1>9, <1>10, <1>11, <1>15 DEF Request
<1>16. CASE \E w \in Wallets, p \in Policies : SetPolicy(w, p)
  BY <1>12, <1>16 DEF SetPolicy
<1>17. CASE \E t \in Txs, ok \in BOOLEAN : Mine(t, ok)
  BY <1>12, <1>17 DEF Mine
<1>18. CASE UNCHANGED vars
  BY <1>12, <1>18 DEF vars
<1> QED
  BY <1>13, <1>14, <1>15, <1>16, <1>17, <1>18 DEF Next

(* The two tables and the requests in flight never contradict one another:   *)
(* no cancellation, decision, claim, settlement or pruning, however it races *)
(* another, leaves a review and its reservation in states that do not match. *)
THEOREM TablesAlwaysAgree == Spec => []TablesAgree
<1>1. Init => TablesAgree
  BY TimeAssumption DEF Init, TablesAgree, RowAgrees, TaskAgrees, NoTime, Idle
<1>2. TypeOK /\ TypeOK' /\ TablesAgree /\ [Next]_vars => TablesAgree'
  BY TablesAgreeStep
<1> QED BY <1>1, <1>2, TypeCorrect, PTL DEF Spec

---------------------------------------------------------------------------
(* The budget.                                                             *)

(* Time alone, and changes to other reviews, only ever free budget.         *)
LEMMA TimeOnlyFrees ==
  ASSUME TypeOK, NEW w \in Wallets, NEW r \in Live(w)', now' \in Nat, now' >= now,
         hold'[r] = hold[r], settled'[r] = settled[r], status'[r] = status[r],
         expires'[r] = expires[r], tokenExp'[r] = tokenExp[r]
  PROVE  r \in Live(w)
<1>1. r \in Financial /\ r \in Reviews
  BY ReviewAssumption DEF Live
<1>2. /\ now \in Nat /\ settled[r] \in Nat /\ expires[r] \in Nat /\ tokenExp[r] \in Nat
  BY <1>1 DEF TypeOK
<1> QED BY <1>1, <1>2, TimeAssumption DEF Live, SettledWithin

(* A wallet's exposure grows by the amount of one fresh reservation that the *)
(* trigger admitted, and by nothing else.                                    *)
LEMMA ExposureStep ==
  ASSUME TypeOK, TypeOK', TablesAgree, [Next]_vars, NEW w \in Wallets
  PROVE  \/ Live(w)' \subseteq Live(w)
         \/ \E r \in Financial \ Live(w) :
              /\ Wallet[r] = w
              /\ status[r] = "ABSENT"
              /\ Live(w)' \subseteq Live(w) \cup {r}
              /\ Enabled(w)
              /\ Amount[r] <= policy[w].single
              /\ Amount[r] + Total[Live(w)] <= policy[w].daily
<1> USE DEF reviewCols, holdCols, history
<1>0. (\A r \in Reviews : RowAgrees(r)) /\ (\A k \in Handlers : TaskAgrees(k))
  BY DEF TablesAgree
<1>a. now \in Nat /\ now' \in Nat
  BY DEF TypeOK
<1>1. ASSUME UNCHANGED <<now, hold, settled, status, expires, tokenExp>>
      PROVE  Live(w)' \subseteq Live(w)
  BY <1>1 DEF Live, SettledWithin
<1>2. ASSUME NEW h \in Handlers, SubmitCommit(h)
      PROVE  \/ Live(w)' \subseteq Live(w)
             \/ \E r \in Financial \ Live(w) :
                  /\ Wallet[r] = w
                  /\ status[r] = "ABSENT"
                  /\ Live(w)' \subseteq Live(w) \cup {r}
                  /\ Enabled(w)
                  /\ Amount[r] <= policy[w].single
                  /\ Amount[r] + Total[Live(w)] <= policy[w].daily
  <2>0. PICK r \in Reviews : r = task[h].review
    BY <1>2, TaskFields DEF SubmitCommit
  <2> USE <2>0
  <2>1. status[r] = "ABSENT" /\ hold[r] = "NONE"
    BY <1>0, <1>2 DEF SubmitCommit, TaskAgrees, RowAgrees
  <2>2. \A s \in Live(w)' : s # r => s \in Live(w)
    <3>1. ASSUME NEW s \in Live(w)', s # r PROVE s \in Live(w)
      <4>1. s \in Reviews
        BY ReviewAssumption DEF Live
      <4>2. /\ hold'[s] = hold[s] /\ settled'[s] = settled[s] /\ status'[s] = status[s]
            /\ expires'[s] = expires[s] /\ tokenExp'[s] = tokenExp[s] /\ now' = now
        BY <1>2, <3>1, <4>1 DEF SubmitCommit, TypeOK
      <4> QED BY <1>a, <4>2, TimeOnlyFrees
    <3> QED BY <3>1
  <2>3. CASE r \in Financial /\ Wallet[r] = w
    <3>1. PICK outgoing \in Outgoing, observedAt \in task[h].at .. (now + Skew) :
            Admits(r, outgoing, observedAt)
      BY <1>2, <2>3 DEF SubmitCommit
    <3>2. /\ Enabled(w) /\ Amount[r] <= policy[w].single
          /\ Amount[r] + outgoing + Total[Live(w)] <= policy[w].daily
      BY <2>3, <3>1 DEF Admits
    <3>3. policy[w].daily \in Nat
      BY <3>2, SettingsAssumption DEF Enabled, TypeOK, PolicySettings
    <3>4. outgoing \in Nat /\ Amount[r] \in Nat
      BY <2>3, ReviewAssumption, SettingsAssumption
    <3>5. Total[Live(w)] \in Nat
      BY TotalAssumption DEF Live
    <3>6. Amount[r] + Total[Live(w)] <= policy[w].daily
      BY <3>2, <3>3, <3>4, <3>5
    <3>7. r \notin Live(w)
      BY <2>1 DEF Live
    <3> QED BY <2>1, <2>2, <2>3, <3>2, <3>6, <3>7
  <2>4. CASE ~(r \in Financial /\ Wallet[r] = w)
    <3>1. r \notin Live(w)'
      BY <2>4 DEF Live
    <3> QED BY <2>2, <3>1
  <2> QED BY <2>3, <2>4
<1>3. ASSUME NEW h \in Handlers, DecideCommit(h)
      PROVE  Live(w)' \subseteq Live(w)
  <2>1. ASSUME NEW s \in Live(w)' PROVE s \in Live(w)
    <3>1. s \in Reviews /\ s \in Financial
      BY ReviewAssumption DEF Live
    <3>2. CASE s = task[h].review
      <4>1. status[s] = "PENDING" /\ hold[s] = "RESERVED" /\ Wallet[s] = w
        BY <1>0, <1>3, <3>1, <3>2 DEF DecideCommit, Undecided, RowAgrees, Live, TypeOK
      <4>2. expires[s] > now
        BY <1>3, <4>1 DEF DecideCommit, Live
      <4> QED BY <3>1, <4>1, <4>2 DEF Live
    <3>3. CASE s # task[h].review
      <4>1. /\ hold'[s] = hold[s] /\ settled'[s] = settled[s] /\ status'[s] = status[s]
            /\ expires'[s] = expires[s] /\ tokenExp'[s] = tokenExp[s] /\ now' = now
        BY <1>3, <3>1, <3>3 DEF DecideCommit, TypeOK
      <4> QED BY <1>a, <4>1, TimeOnlyFrees
    <3> QED BY <3>2, <3>3
  <2> QED BY <2>1
<1>4. ASSUME NEW h \in Handlers, ConsumeCommit(h)
      PROVE  Live(w)' \subseteq Live(w)
  <2>1. ASSUME NEW s \in Live(w)' PROVE s \in Live(w)
    <3>1. s \in Reviews /\ s \in Financial /\ Wallet[s] = w
      BY ReviewAssumption DEF Live
    <3>2. CASE s = task[h].review
      BY <1>4, <3>1, <3>2 DEF ConsumeCommit, Claimable, Live
    <3>3. CASE s # task[h].review
      <4>1. /\ hold'[s] = hold[s] /\ settled'[s] = settled[s] /\ status'[s] = status[s]
            /\ expires'[s] = expires[s] /\ tokenExp'[s] = tokenExp[s] /\ now' = now
        BY <1>4, <3>1, <3>3 DEF ConsumeCommit, TypeOK
      <4> QED BY <1>a, <4>1, TimeOnlyFrees
    <3> QED BY <3>2, <3>3
  <2> QED BY <2>1
<1>5. ASSUME NEW h \in Handlers, CancelCommit(h)
      PROVE  Live(w)' \subseteq Live(w)
  <2>1. ASSUME NEW s \in Live(w)' PROVE s \in Live(w)
    <3>1. s \in Reviews /\ s \in Financial /\ Wallet[s] = w
      BY ReviewAssumption DEF Live
    <3>2. CASE s = task[h].review
      <4>1. hold[s] = "RESERVED"
        BY <1>0, <1>5, <3>1, <3>2 DEF CancelCommit, Cancellable, RowAgrees, TypeOK
      <4>2. status'[s] = "REJECTED" /\ hold'[s] = "RESERVED"
        BY <1>5, <3>1, <3>2, <4>1 DEF CancelCommit, TypeOK
      <4> QED BY <4>2 DEF Live
    <3>3. CASE s # task[h].review
      <4>1. /\ hold'[s] = hold[s] /\ settled'[s] = settled[s] /\ status'[s] = status[s]
            /\ expires'[s] = expires[s] /\ tokenExp'[s] = tokenExp[s] /\ now' = now
        BY <1>5, <3>1, <3>3 DEF CancelCommit, TypeOK
      <4> QED BY <1>a, <4>1, TimeOnlyFrees
    <3> QED BY <3>2, <3>3
  <2> QED BY <2>1
<1>6. ASSUME NEW h \in Handlers, Settle(h)
      PROVE  Live(w)' \subseteq Live(w)
  <2>1. ASSUME NEW s \in Live(w)' PROVE s \in Live(w)
    <3>1. s \in Reviews /\ s \in Financial /\ Wallet[s] = w
      BY ReviewAssumption DEF Live
    <3>2. CASE s = task[h].review
      BY <1>6, <3>1, <3>2 DEF Settle, Live
    <3>3. CASE s # task[h].review
      <4>1. /\ hold'[s] = hold[s] /\ settled'[s] = settled[s] /\ status'[s] = status[s]
            /\ expires'[s] = expires[s] /\ tokenExp'[s] = tokenExp[s] /\ now' = now
        BY <1>6, <3>1, <3>3 DEF Settle, TypeOK
      <4> QED BY <1>a, <4>1, TimeOnlyFrees
    <3> QED BY <3>2, <3>3
  <2> QED BY <2>1
<1>7. ASSUME Prune
      PROVE  Live(w)' \subseteq Live(w)
  <2>1. PICK scheduled \in WorkerClock :
          LET gone == Prunable(scheduled) IN
          /\ status' = [r \in Reviews |-> IF r \in gone THEN "PRUNED" ELSE status[r]]
          /\ expires' = [r \in Reviews |-> IF r \in gone THEN NoTime ELSE expires[r]]
          /\ tokenExp' = [r \in Reviews |-> IF r \in gone THEN NoTime ELSE tokenExp[r]]
          /\ hold' = [r \in Reviews |-> IF r \in gone THEN "NONE" ELSE hold[r]]
          /\ settled' = [r \in Reviews |-> IF r \in gone THEN NoTime ELSE settled[r]]
    BY <1>7 DEF Prune
  <2>2. now' = now
    BY <1>7 DEF Prune
  <2>3. ASSUME NEW s \in Live(w)' PROVE s \in Live(w)
    <3>1. s \in Reviews /\ hold'[s] # "NONE"
      BY ReviewAssumption DEF Live
    <3>2. s \notin Prunable(scheduled)
      BY <2>1, <3>1
    <3>3. /\ hold'[s] = hold[s] /\ settled'[s] = settled[s] /\ status'[s] = status[s]
          /\ expires'[s] = expires[s] /\ tokenExp'[s] = tokenExp[s]
      BY <2>1, <3>1, <3>2
    <3> QED BY <1>a, <2>2, <3>3, TimeOnlyFrees
  <2> QED BY <2>3
<1>8. ASSUME Tick
      PROVE  Live(w)' \subseteq Live(w)
  <2>1. now' >= now
    BY <1>a, <1>8 DEF Tick
  <2> QED BY <1>a, <1>8, <2>1, TimeOnlyFrees DEF Tick
<1>9. CASE \E h \in Handlers : Request(h)
  <2>1. PICK h \in Handlers : Request(h)
    BY <1>9
  <2>2. CASE \E r \in Reviews :
               \/ \E life \in Lifetimes : SubmitBegin(h, r, life)
               \/ \E d \in {"APPROVED", "REJECTED"} : DecideBegin(h, r, d)
               \/ ConsumeBegin(h, r)
               \/ CancelBegin(h, r)
               \/ \E t \in Txs : Attach(h, r, t)
    BY <1>1, <2>2 DEF SubmitBegin, DecideBegin, ConsumeBegin, CancelBegin, Attach
  <2>3. CASE Abandon(h)
    BY <1>1, <2>3 DEF Abandon
  <2> QED BY <2>1, <2>2, <2>3, <1>2, <1>3, <1>4, <1>5, <1>6 DEF Request
<1>10. CASE \E v \in Wallets, p \in Policies : SetPolicy(v, p)
  BY <1>1, <1>10 DEF SetPolicy
<1>11. CASE \E t \in Txs, ok \in BOOLEAN : Mine(t, ok)
  BY <1>1, <1>11 DEF Mine
<1>12. CASE UNCHANGED vars
  BY <1>1, <1>12 DEF vars
<1> QED
  BY <1>7, <1>8, <1>9, <1>10, <1>11, <1>12 DEF Next

(* The limit in force is one of those whose largest is remembered. *)
PeakCoversPolicy ==
  \A w \in Wallets : policy[w] # NoPolicy => policy[w].daily <= peak[w]

ExposureInv == ExposureWithinLimit /\ PeakCoversPolicy

(* Only the policy route changes a wallet's policy, and with it the peak.    *)
LEMMA PolicyStep ==
  ASSUME [Next]_vars
  PROVE  \/ peak' = peak /\ policy' = policy
         \/ \E w \in Wallets, p \in Policies : SetPolicy(w, p)
<1> USE DEF history
<1>1. ASSUME NEW h \in Handlers, Request(h)
      PROVE  peak' = peak /\ policy' = policy
  <2>1. ASSUME NEW r \in Reviews, NEW life \in Lifetimes, SubmitBegin(h, r, life)
        PROVE  peak' = peak /\ policy' = policy
    BY <2>1 DEF SubmitBegin
  <2>2. ASSUME NEW r \in Reviews, NEW d \in {"APPROVED", "REJECTED"}, DecideBegin(h, r, d)
        PROVE  peak' = peak /\ policy' = policy
    BY <2>2 DEF DecideBegin
  <2>3. ASSUME NEW r \in Reviews, ConsumeBegin(h, r)
        PROVE  peak' = peak /\ policy' = policy
    BY <2>3 DEF ConsumeBegin
  <2>4. ASSUME NEW r \in Reviews, CancelBegin(h, r)
        PROVE  peak' = peak /\ policy' = policy
    BY <2>4 DEF CancelBegin
  <2>5. ASSUME NEW r \in Reviews, NEW t \in Txs, Attach(h, r, t)
        PROVE  peak' = peak /\ policy' = policy
    BY <2>5 DEF Attach
  <2>6. CASE SubmitCommit(h)
    BY <2>6 DEF SubmitCommit
  <2>7. CASE DecideCommit(h)
    BY <2>7 DEF DecideCommit
  <2>8. CASE ConsumeCommit(h)
    BY <2>8 DEF ConsumeCommit
  <2>9. CASE CancelCommit(h)
    BY <2>9 DEF CancelCommit
  <2>10. CASE Settle(h)
    BY <2>10 DEF Settle
  <2>11. CASE Abandon(h)
    BY <2>11 DEF Abandon
  <2> QED
    BY <1>1, <2>1, <2>2, <2>3, <2>4, <2>5, <2>6, <2>7, <2>8, <2>9, <2>10, <2>11
    DEF Request
<1>2. CASE Prune
  BY <1>2 DEF Prune
<1>3. CASE Tick
  BY <1>3 DEF Tick
<1>4. ASSUME NEW t \in Txs, NEW ok \in BOOLEAN, Mine(t, ok)
      PROVE  peak' = peak /\ policy' = policy
  BY <1>4 DEF Mine
<1>5. CASE UNCHANGED vars
  BY <1>5 DEF vars
<1> QED
  BY <1>1, <1>2, <1>3, <1>4, <1>5 DEF Next

(* A step keeps the exposure below the largest limit ever in force. *)
LEMMA ExposureInvStep ==
  ASSUME TypeOK, TypeOK', TablesAgree, ExposureInv, [Next]_vars
  PROVE  ExposureInv'
<1>1. \A w \in Wallets : peak'[w] >= peak[w]
  <2>1. CASE peak' = peak
    BY <2>1 DEF TypeOK
  <2>2. ASSUME NEW w \in Wallets, NEW p \in Policies, SetPolicy(w, p)
        PROVE  \A v \in Wallets : peak'[v] >= peak[v]
    <3>1. p.daily \in Nat
      BY SettingsAssumption DEF PolicySettings
    <3> QED BY <2>2, <3>1 DEF SetPolicy, TypeOK
  <2>3. peak' = peak \/ \E w \in Wallets, p \in Policies : SetPolicy(w, p)
    BY PolicyStep
  <2> QED BY <2>1, <2>2, <2>3
<1>2. PeakCoversPolicy'
  <2>1. CASE policy' = policy
    <3> SUFFICES ASSUME NEW w \in Wallets, policy[w] # NoPolicy
                 PROVE  policy[w].daily <= peak'[w]
      BY <2>1 DEF PeakCoversPolicy
    <3>1. policy[w].daily \in Nat
      BY SettingsAssumption DEF TypeOK, PolicySettings
    <3>2. policy[w].daily <= peak[w] /\ peak[w] \in Nat /\ peak'[w] \in Nat
      BY DEF ExposureInv, PeakCoversPolicy, TypeOK
    <3> QED BY <1>1, <3>1, <3>2
  <2>2. ASSUME NEW w \in Wallets, NEW p \in Policies, SetPolicy(w, p)
        PROVE  PeakCoversPolicy'
    <3>1. p.daily \in Nat
      BY SettingsAssumption DEF PolicySettings
    <3>2. \A v \in Wallets \ {w} : policy'[v] = policy[v] /\ peak'[v] = peak[v]
      BY <2>2 DEF SetPolicy, TypeOK
    <3>3. policy'[w] = p /\ p.daily <= peak'[w]
      BY <2>2, <3>1 DEF SetPolicy, TypeOK
    <3> QED BY <3>2, <3>3 DEF ExposureInv, PeakCoversPolicy
  <2>3. policy' = policy \/ \E w \in Wallets, p \in Policies : SetPolicy(w, p)
    BY PolicyStep
  <2> QED BY <2>1, <2>2, <2>3
<1>3. ExposureWithinLimit'
  <2> SUFFICES ASSUME NEW w \in Wallets PROVE Total[Live(w)'] <= peak'[w]
    BY DEF ExposureWithinLimit
  <2>1. /\ Live(w) \subseteq Financial /\ Live(w)' \subseteq Financial
        /\ peak[w] \in Nat /\ peak'[w] \in Nat /\ peak'[w] >= peak[w]
    BY <1>1 DEF Live, TypeOK
  <2>2. Total[Live(w)] \in Nat /\ Total[Live(w)'] \in Nat
    BY <2>1, TotalAssumption
  <2>3. CASE Live(w)' \subseteq Live(w)
    <3>1. Total[Live(w)'] <= Total[Live(w)]
      BY <2>1, <2>3, TotalAssumption
    <3>2. Total[Live(w)] <= peak[w]
      BY DEF ExposureInv, ExposureWithinLimit
    <3> QED BY <2>1, <2>2, <3>1, <3>2
  <2>4. ASSUME NEW r \in Financial \ Live(w), Live(w)' \subseteq Live(w) \cup {r},
               Enabled(w), Amount[r] + Total[Live(w)] <= policy[w].daily
        PROVE  Total[Live(w)'] <= peak'[w]
    <3>1. /\ Total[Live(w) \cup {r}] = Total[Live(w)] + Amount[r]
          /\ Total[Live(w)'] <= Total[Live(w) \cup {r}]
      BY <2>1, <2>4, TotalAssumption
    <3>2. policy[w].daily <= peak[w] /\ policy[w].daily \in Nat /\ Amount[r] \in Nat
      BY <2>4, ReviewAssumption, SettingsAssumption
      DEF Enabled, ExposureInv, PeakCoversPolicy, TypeOK, PolicySettings
    <3> QED BY <2>1, <2>2, <2>4, <3>1, <3>2
  <2> QED BY <2>3, <2>4, ExposureStep
<1> QED BY <1>2, <1>3 DEF ExposureInv

(* The sum a wallet's budget query counts stays within the largest daily     *)
(* limit its owner ever set, in every interleaving of any number of          *)
(* submissions, approvals, claims, settlements and policy changes.           *)
THEOREM BudgetHolds == Spec => []ExposureWithinLimit
<1>1. Init => ExposureInv
  <2> SUFFICES ASSUME Init PROVE ExposureInv
    OBVIOUS
  <2>1. \A w \in Wallets : Live(w) = {}
    BY ReviewAssumption DEF Init, Live
  <2>2. Total[{}] = 0
    BY TotalAssumption
  <2>3. ASSUME NEW w \in Wallets PROVE peak[w] = 0 /\ policy[w] = NoPolicy
    BY DEF Init
  <2>4. ExposureWithinLimit
    BY <2>1, <2>2, <2>3 DEF ExposureWithinLimit
  <2>5. PeakCoversPolicy
    BY <2>3 DEF PeakCoversPolicy
  <2> QED BY <2>4, <2>5 DEF ExposureInv
<1>2. TypeOK /\ TypeOK' /\ TablesAgree /\ ExposureInv /\ [Next]_vars => ExposureInv'
  BY ExposureInvStep
<1>3. ExposureInv => ExposureWithinLimit
  BY DEF ExposureInv
<1> QED BY <1>1, <1>2, <1>3, TypeCorrect, TablesAlwaysAgree, PTL DEF Spec

(* A financial review advances only by a statement whose trigger found it    *)
(* claimable, and that statement reserves nothing.                           *)
LEMMA AdvanceStep ==
  ASSUME TypeOK, TablesAgree, [Next]_vars, NEW r \in Financial, Advances(r)
  PROVE  /\ Enabled(Wallet[r]) /\ Amount[r] <= policy[Wallet[r]].single
         /\ Total[Live(Wallet[r])] <= policy[Wallet[r]].daily
         /\ \A s \in Financial : status[s] = "ABSENT" => hold'[s] = "NONE"
<1> USE DEF reviewCols, holdCols
<1>1. r \in Reviews /\ Financial \subseteq Reviews
  BY ReviewAssumption
<1>2. \A s \in Financial : status[s] = "ABSENT" => hold[s] = "NONE"
  BY <1>1 DEF TablesAgree, RowAgrees
<1>3. status' # status
  BY DEF Advances
<1>4. ASSUME NEW h \in Handlers, SubmitCommit(h) PROVE FALSE
  BY <1>1, <1>4 DEF SubmitCommit, Advances, TypeOK
<1>5. ASSUME NEW h \in Handlers, CancelCommit(h) PROVE FALSE
  BY <1>1, <1>5 DEF CancelCommit, Advances, TypeOK
<1>6. ASSUME Prune PROVE FALSE
  <2>1. status'[r] \in {status[r], "PRUNED"}
    BY <1>1, <1>6 DEF Prune
  <2> QED BY <2>1 DEF Advances
<1>7. ASSUME NEW h \in Handlers, DecideCommit(h)
      PROVE  /\ r = task[h].review /\ task[h].decision = "APPROVED"
             /\ hold' = hold
             /\ \E tokenExpiry : Claimable(r, tokenExpiry)
  <2>1. r = task[h].review /\ task[h].decision = "APPROVED"
    <3>1. task[h].kind = "decide" /\ status' = [status EXCEPT ![task[h].review] = task[h].decision]
      BY <1>7 DEF DecideCommit
    <3>2. task[h].decision \in {"APPROVED", "REJECTED"}
      BY <3>1, TaskFields
    <3> QED BY <1>1, <3>1, <3>2 DEF Advances, TypeOK
  <2> QED BY <1>7, <2>1 DEF DecideCommit
<1>8. ASSUME NEW h \in Handlers, ConsumeCommit(h)
      PROVE  /\ r = task[h].review /\ status[r] = "APPROVED"
             /\ \A s \in Financial \ {r} : hold'[s] = hold[s]
             /\ Claimable(r, tokenExp[r])
  <2>1. r = task[h].review
    BY <1>1, <1>8, SMTT(30) DEF ConsumeCommit, Advances, TypeOK
  <2> QED BY <1>1, <1>8, <2>1 DEF ConsumeCommit, TypeOK
<1>9. (\E h \in Handlers : DecideCommit(h)) \/ (\E h \in Handlers : ConsumeCommit(h))
  BY <1>3, <1>4, <1>5, <1>6 DEF Next, Request, SubmitBegin, DecideBegin, ConsumeBegin,
     CancelBegin, Attach, Settle, Abandon, SetPolicy, Mine, Tick, vars
<1> QED
  BY <1>2, <1>7, <1>8, <1>9 DEF Claimable

(* Every reservation, approval and claim fits the policy in force at the     *)
(* moment of its statement, together with all that is live then; and an      *)
(* amount that has left the budget never comes back into it.                 *)
THEOREM AdmissionsFollowPolicy == Spec => AdmissionWithinPolicy
<1>1. ASSUME TypeOK, TypeOK', TablesAgree, [Next]_vars, NEW r \in Financial
      PROVE  AdmissionFits(r)
  <2>1. PICK w \in Wallets : w = Wallet[r]
    BY ReviewAssumption
  <2>2. /\ Live(w) \subseteq Financial /\ Live(w)' \subseteq Financial
        /\ Total[Live(w)] \in Nat /\ Total[Live(w)'] \in Nat
    BY TotalAssumption DEF Live
  <2>3. Enabled(w) => policy[w].daily \in Nat
    BY <1>1, <2>1, SettingsAssumption DEF Enabled, TypeOK, PolicySettings
  <2>4. ASSUME Enters(r)
        PROVE  /\ status[r] = "ABSENT" /\ Enabled(w)
               /\ Amount[r] <= policy[w].single
               /\ Total[Live(w)'] <= policy[w].daily
    <3>1. r \in Live(w)' /\ r \notin Live(w)
      BY <2>1, <2>4 DEF Enters
    <3>2. PICK s \in Financial \ Live(w) :
            /\ status[s] = "ABSENT"
            /\ Live(w)' \subseteq Live(w) \cup {s}
            /\ Enabled(w)
            /\ Amount[s] <= policy[w].single
            /\ Amount[s] + Total[Live(w)] <= policy[w].daily
      BY <1>1, <2>1, <3>1, ExposureStep
    <3>3. s = r
      BY <3>1, <3>2
    <3>4. /\ Total[Live(w) \cup {s}] = Total[Live(w)] + Amount[s]
          /\ Total[Live(w)'] <= Total[Live(w) \cup {s}]
      BY <2>2, <3>2, TotalAssumption
    <3>5. Amount[s] \in Nat
      BY <3>2, ReviewAssumption
    <3> QED BY <2>2, <2>3, <3>2, <3>3, <3>4, <3>5
  <2>5. ASSUME Advances(r)
        PROVE  /\ Enabled(w)
               /\ Amount[r] <= policy[w].single
               /\ Total[Live(w)'] <= policy[w].daily
    <3>1. /\ Enabled(w) /\ Amount[r] <= policy[w].single
          /\ Total[Live(w)] <= policy[w].daily
          /\ \A s \in Financial : status[s] = "ABSENT" => hold'[s] = "NONE"
      BY <1>1, <2>1, <2>5, AdvanceStep
    <3>2. \A s \in Financial : status[s] = "ABSENT" => s \notin Live(w)'
      BY <3>1 DEF Live
    <3>3. Live(w)' \subseteq Live(w)
      BY <1>1, <2>1, <3>2, ExposureStep
    <3>4. Total[Live(w)'] <= Total[Live(w)]
      BY <2>2, <3>3, TotalAssumption
    <3> QED BY <2>2, <2>3, <3>1, <3>4
  <2> QED BY <2>1, <2>4, <2>5 DEF AdmissionFits
<1>2. TypeOK /\ TypeOK' /\ TablesAgree /\ [Next]_vars => [\A r \in Financial : AdmissionFits(r)]_vars
  BY <1>1
<1> QED BY <1>2, TypeCorrect, TablesAlwaysAgree, PTL DEF Spec, AdmissionWithinPolicy

---------------------------------------------------------------------------
(* Claims and retention.                                                   *)

(* A claimed amount leaves CLAIMED only by the settlement of its own, never  *)
(* changing transaction: final on chain, executing the claimed action in a   *)
(* block dated after the claim.                                              *)
THEOREM ClaimsNeedEvidence == Spec => ClaimsResolveByEvidence
<1>1. ASSUME TypeOK, TypeOK', TablesAgree, [Next]_vars, NEW r \in Financial,
             hold[r] = "CLAIMED"
      PROVE  /\ hold'[r] \in {"CLAIMED", "SETTLED", "REVERTED"}
             /\ txHash[r] # NoTx => txHash'[r] = txHash[r]
             /\ hold'[r] # "CLAIMED" =>
                  /\ r \in Matches[txHash[r]]
                  /\ chain[txHash[r]].at > consumed[r]
                  /\ hold'[r] = "SETTLED" <=> chain[txHash[r]].ok
  <2> USE <1>1 DEF holdCols
  <2>1. r \in Reviews
    BY ReviewAssumption
  <2>2. RowAgrees(r) /\ status[r] = "CONSUMED"
    BY <2>1 DEF TablesAgree, RowAgrees
  <2>3. CASE hold'[r] = hold[r] /\ txHash'[r] = txHash[r]
    BY <2>3
  <2>4. ASSUME NEW h \in Handlers, SubmitCommit(h)
        PROVE  hold'[r] = hold[r] /\ txHash'[r] = txHash[r]
    <3>1. task[h].review \in Reviews /\ status[task[h].review] = "ABSENT"
      BY <2>4, TaskFields DEF TablesAgree, TaskAgrees, SubmitCommit
    <3> QED BY <2>1, <2>2, <2>4, <3>1 DEF SubmitCommit, TypeOK
  <2>5. ASSUME NEW h \in Handlers, ConsumeCommit(h)
        PROVE  hold'[r] = hold[r] /\ txHash'[r] = txHash[r]
    BY <2>1, <2>2, <2>5 DEF ConsumeCommit, TypeOK
  <2>6. ASSUME Prune
        PROVE  hold'[r] = hold[r] /\ txHash'[r] = txHash[r]
    BY <2>1, <2>6 DEF Prune, Prunable
  <2>7. ASSUME NEW h \in Handlers, NEW s \in Reviews, NEW t \in Txs, Attach(h, s, t)
        PROVE  hold'[r] = hold[r] /\ (txHash[r] # NoTx => txHash'[r] = txHash[r])
    BY <2>1, <2>7 DEF Attach, TypeOK
  <2>8. ASSUME NEW h \in Handlers, Settle(h), hold'[r] # "CLAIMED"
        PROVE  /\ hold'[r] \in {"SETTLED", "REVERTED"}
               /\ txHash'[r] = txHash[r]
               /\ r \in Matches[txHash[r]]
               /\ chain[txHash[r]].at > consumed[r]
               /\ hold'[r] = "SETTLED" <=> chain[txHash[r]].ok
    <3>1. r = task[h].review /\ txHash[r] = task[h].tx /\ task[h].kind = "verify"
      BY <2>1, <2>8 DEF Settle, TypeOK
    <3>2. task[h].claimedAt = consumed[r]
      BY <2>2, <3>1 DEF TablesAgree, TaskAgrees
    <3>3. hold'[r] = IF chain[txHash[r]].ok THEN "SETTLED" ELSE "REVERTED"
      BY <2>1, <2>8, <3>1 DEF Settle, Outcome, TypeOK
    <3>4. chain[txHash[r]].ok \in BOOLEAN
      BY <2>8, <3>1, TaskFields DEF TypeOK
    <3> QED BY <2>8, <3>1, <3>2, <3>3, <3>4 DEF Settle, Verified
  <2>9. ASSUME NEW h \in Handlers, Settle(h), hold'[r] = "CLAIMED"
        PROVE  txHash'[r] = txHash[r]
    BY <2>9 DEF Settle
  <2>10. ASSUME UNCHANGED holdCols
         PROVE  hold'[r] = hold[r] /\ txHash'[r] = txHash[r]
    BY <2>10
  <2>11. CASE \E h \in Handlers : Request(h)
    <3>1. PICK h \in Handlers : Request(h)
      BY <2>11
    <3>2. CASE \/ \E s \in Reviews :
                    \/ \E life \in Lifetimes : SubmitBegin(h, s, life)
                    \/ \E d \in {"APPROVED", "REJECTED"} : DecideBegin(h, s, d)
                    \/ ConsumeBegin(h, s)
                    \/ CancelBegin(h, s)
               \/ DecideCommit(h) \/ CancelCommit(h) \/ Abandon(h)
      BY <2>3, <2>10, <3>2 DEF SubmitBegin, DecideBegin, ConsumeBegin, CancelBegin,
         DecideCommit, CancelCommit, Abandon
    <3>3. CASE \E s \in Reviews, t \in Txs : Attach(h, s, t)
      BY <2>7, <3>3
    <3>4. CASE SubmitCommit(h) \/ ConsumeCommit(h)
      BY <2>3, <2>4, <2>5, <3>4
    <3>5. CASE Settle(h)
      BY <2>8, <2>9, <3>5
    <3> QED BY <3>1, <3>2, <3>3, <3>4, <3>5 DEF Request
  <2>12. CASE (\E w \in Wallets, p \in Policies : SetPolicy(w, p))
              \/ (\E t \in Txs, ok \in BOOLEAN : Mine(t, ok))
              \/ Tick \/ UNCHANGED vars
    BY <2>3, <2>10, <2>12 DEF SetPolicy, Mine, Tick, vars
  <2> QED BY <2>3, <2>6, <2>11, <2>12 DEF Next
<1>2. TypeOK /\ TypeOK' /\ TablesAgree /\ [Next]_vars =>
        [\A r \in Financial : ResolvesByEvidence(r)]_vars
  BY <1>1 DEF ResolvesByEvidence
<1> QED BY <1>2, TypeCorrect, TablesAlwaysAgree, PTL DEF Spec, ClaimsResolveByEvidence

(* The retention job removes nothing that still holds budget, could still be *)
(* decided or claimed, or settled within the retention period, whichever     *)
(* Worker's clock dates the job.                                             *)
THEOREM PruningIsSafe == Spec => PruneSparesExposure
<1>1. ASSUME TypeOK, TypeOK', TablesAgree, [Next]_vars, NEW r \in Reviews,
             status'[r] = "PRUNED", status[r] # "PRUNED"
      PROVE  /\ r \in Financial => r \notin Live(Wallet[r])
             /\ status[r] \in {"PENDING", "APPROVED"} => expires[r] <= now
             /\ ~SettledWithin(r, Retention)
  <2> USE <1>1 DEF reviewCols
  <2>1. Prune
    <3>1. ASSUME NEW h \in Handlers, DecideCommit(h) PROVE FALSE
      <4>1. task[h].decision \in {"APPROVED", "REJECTED"}
        BY <3>1, TaskFields, SMTT(30) DEF DecideCommit
      <4> QED BY <3>1, <4>1 DEF DecideCommit, TypeOK
    <3>2. ASSUME NEW h \in Handlers, Request(h) PROVE FALSE
      BY <3>1, <3>2 DEF Request, SubmitBegin, SubmitCommit, DecideBegin, ConsumeBegin,
         ConsumeCommit, CancelBegin, CancelCommit, Attach, Settle, Abandon, TypeOK
    <3> QED BY <3>2 DEF Next, SetPolicy, Mine, Tick, vars
  <2>2. PICK scheduled \in WorkerClock : r \in Prunable(scheduled)
    BY <2>1 DEF Prune
  <2>3. /\ status[r] \notin {"ABSENT", "PRUNED"} /\ hold[r] # "CLAIMED"
        /\ created[r] + Retention <= scheduled /\ scheduled \in Nat
        /\ scheduled <= now + Skew
        /\ ~SettledWithin(r, Retention)
    BY <2>2, WorkerClockFact DEF Prunable
  <2>4. /\ created[r] \in Nat /\ expires[r] \in Nat /\ settled[r] \in Nat /\ now \in Nat
    BY DEF TypeOK
  <2>5. expires[r] + Skew <= created[r] + Retention
    BY <2>3 DEF TablesAgree, RowAgrees
  <2>6. expires[r] <= now
    BY <2>3, <2>4, <2>5, TimeAssumption
  <2>7. ~SettledWithin(r, SpendWindow)
    BY <2>3, <2>4, TimeAssumption DEF SettledWithin
  <2>8. r \in Financial => r \notin Live(Wallet[r])
    BY <2>3, <2>4, <2>6, <2>7 DEF Live
  <2> QED BY <2>3, <2>6, <2>8
<1>2. TypeOK /\ TypeOK' /\ TablesAgree /\ [Next]_vars => [\A r \in Reviews : PrunedSafely(r)]_vars
  BY <1>1 DEF PrunedSafely
<1> QED BY <1>2, TypeCorrect, TablesAlwaysAgree, PTL DEF Spec, PruneSparesExposure

---------------------------------------------------------------------------
(* The review queue implements the abstract lifecycle.                      *)

(* Statuses and phases name the same things. *)
LEMMA Phases ==
  /\ PhaseOf("ABSENT") = "unknown" /\ PhaseOf("PENDING") = "waiting"
  /\ PhaseOf("APPROVED") = "approved" /\ PhaseOf("REJECTED") = "refused"
  /\ PhaseOf("CONSUMED") = "used" /\ PhaseOf("PRUNED") = "forgotten"
BY DEF PhaseOf

(* Every step of the queue is a step of the lifecycle or leaves it alone. *)
LEMMA LifecycleStep ==
  ASSUME TypeOK, TypeOK', TablesAgree, [Next]_vars
  PROVE  [Abstract!LifecycleNext]_(Abstract!lifecycleVars)
<1> USE DEF reviewCols, holdCols, history
<1> DEFINE phase == [r \in Reviews |-> PhaseOf(status[r])]
           deadline == [r \in Reviews |-> IF status[r] = "APPROVED" THEN tokenExp[r] ELSE 0]
<1>0. (\A r \in Reviews : RowAgrees(r)) /\ (\A k \in Handlers : TaskAgrees(k))
  BY DEF TablesAgree
<1>1. ASSUME UNCHANGED <<now, status, tokenExp>>
      PROVE  UNCHANGED Abstract!lifecycleVars
  BY <1>1 DEF Abstract!lifecycleVars
<1>2. ASSUME NEW h \in Handlers, SubmitCommit(h)
      PROVE  Abstract!LifecycleNext
  <2>0. PICK r \in Reviews : r = task[h].review
    BY <1>2, TaskFields DEF SubmitCommit
  <2>1. status[r] = "ABSENT"
    BY <1>0, <1>2, <2>0 DEF SubmitCommit, TaskAgrees
  <2>2. phase[r] = "unknown" /\ phase' = [phase EXCEPT ![r] = "waiting"]
    BY <1>2, <2>0, <2>1, Phases DEF SubmitCommit, TypeOK
  <2>3. deadline' = deadline /\ now' = now
    BY <1>2, <2>0, <2>1 DEF SubmitCommit, TypeOK
  <2>4. Abstract!Submit(r)
    BY <2>2, <2>3 DEF Abstract!Submit
  <2> QED BY <2>0, <2>4 DEF Abstract!LifecycleNext
<1>3. ASSUME NEW h \in Handlers, DecideCommit(h)
      PROVE  Abstract!LifecycleNext
  <2>0. PICK r \in Reviews : r = task[h].review
    BY <1>3, TaskFields DEF DecideCommit
  <2>1. status[r] = "PENDING" /\ task[h].kind = "decide" /\ now' = now
    BY <1>3, <2>0 DEF DecideCommit, Undecided
  <2>2. task[h].at \in Nat /\ task[h].at <= now + Skew /\ task[h].decision \in {"APPROVED", "REJECTED"}
    BY <1>0, <2>1, TaskFields DEF TaskAgrees
  <2>3. status' = [status EXCEPT ![r] = task[h].decision]
    BY <1>3, <2>0 DEF DecideCommit
  <2>4. PICK d \in Nat : d <= task[h].at + TokenTTL /\ tokenExp' = [tokenExp EXCEPT ![r] = d]
    <3> DEFINE expiry == IF task[h].at + TokenTTL < expires[r] THEN task[h].at + TokenTTL
                         ELSE expires[r]
    <3>1. tokenExp' = [tokenExp EXCEPT ![r] = expiry]
      BY <1>3, <2>0 DEF DecideCommit
    <3>2. expiry \in Nat /\ expiry <= task[h].at + TokenTTL
      BY <2>0, <2>2, TimeAssumption DEF TypeOK
    <3> HIDE DEF expiry
    <3> QED BY <3>1, <3>2
  <2>5. phase[r] = "waiting"
    BY <2>0, <2>1, Phases
  <2>6. CASE task[h].decision = "APPROVED"
    <3>1. phase' = [phase EXCEPT ![r] = "approved"]
      BY <2>0, <2>3, <2>6, Phases DEF TypeOK
    <3>2. deadline' = [deadline EXCEPT ![r] = d]
      BY <2>0, <2>3, <2>4, <2>6 DEF TypeOK
    <3>3. d \in 0 .. (now + Skew + TokenTTL)
      BY <2>2, <2>4, TimeAssumption DEF TypeOK
    <3>4. Abstract!Approve(r)
      BY <2>1, <2>5, <3>1, <3>2, <3>3 DEF Abstract!Approve
    <3> QED BY <2>0, <3>4 DEF Abstract!LifecycleNext
  <2>7. CASE task[h].decision = "REJECTED"
    <3>1. phase' = [phase EXCEPT ![r] = "refused"]
      BY <2>0, <2>3, <2>7, Phases DEF TypeOK
    <3>2. deadline' = [deadline EXCEPT ![r] = 0]
      BY <2>0, <2>1, <2>3, <2>4, <2>7 DEF TypeOK
    <3>3. Abstract!Refuse(r)
      BY <2>1, <2>5, <3>1, <3>2 DEF Abstract!Refuse
    <3> QED BY <2>0, <3>3 DEF Abstract!LifecycleNext
  <2> QED BY <2>2, <2>6, <2>7
<1>4. ASSUME NEW h \in Handlers, ConsumeCommit(h)
      PROVE  Abstract!LifecycleNext
  <2>0. PICK r \in Reviews : r = task[h].review
    BY <1>4, TaskFields DEF ConsumeCommit
  <2>1. status[r] = "APPROVED" /\ now' = now
    BY <1>4, <2>0 DEF ConsumeCommit
  <2>2. PICK consumedAt \in WorkerClock : tokenExp[r] > consumedAt
    BY <1>4, <2>0 DEF ConsumeCommit
  <2>3. now - Skew < tokenExp[r]
    BY <2>0, <2>2, WorkerClockFact, TimeAssumption DEF TypeOK
  <2>4. phase[r] = "approved" /\ deadline[r] = tokenExp[r]
    BY <2>0, <2>1, Phases
  <2>5. phase' = [phase EXCEPT ![r] = "used"]
    BY <1>4, <2>0, Phases DEF ConsumeCommit, TypeOK
  <2>6. deadline' = [deadline EXCEPT ![r] = 0]
    BY <1>4, <2>0 DEF ConsumeCommit, TypeOK
  <2>7. Abstract!Use(r)
    BY <2>1, <2>3, <2>4, <2>5, <2>6 DEF Abstract!Use
  <2> QED BY <2>0, <2>7 DEF Abstract!LifecycleNext
<1>5. ASSUME NEW h \in Handlers, CancelCommit(h)
      PROVE  Abstract!LifecycleNext
  <2>0. PICK r \in Reviews : r = task[h].review
    BY <1>5, TaskFields DEF CancelCommit
  <2>1. status[r] \in {"PENDING", "APPROVED"} /\ now' = now
    BY <1>5, <2>0 DEF CancelCommit, Cancellable
  <2>2. phase[r] \in {"waiting", "approved"}
    BY <2>0, <2>1, Phases
  <2>3. phase' = [phase EXCEPT ![r] = "refused"]
    BY <1>5, <2>0, Phases DEF CancelCommit, TypeOK
  <2>4. deadline' = [deadline EXCEPT ![r] = 0]
    BY <1>5, <2>0 DEF CancelCommit, TypeOK
  <2>5. Abstract!Refuse(r)
    BY <2>1, <2>2, <2>3, <2>4 DEF Abstract!Refuse
  <2> QED BY <2>0, <2>5 DEF Abstract!LifecycleNext
<1>6. ASSUME Prune
      PROVE  Abstract!LifecycleNext
  <2>1. PICK scheduled \in WorkerClock :
          LET gone == Prunable(scheduled) IN
          /\ status' = [r \in Reviews |-> IF r \in gone THEN "PRUNED" ELSE status[r]]
          /\ tokenExp' = [r \in Reviews |-> IF r \in gone THEN NoTime ELSE tokenExp[r]]
          /\ now' = now
    BY <1>6 DEF Prune
  <2>2. PICK gone : gone = Prunable(scheduled)
    OBVIOUS
  <2>3. gone \in SUBSET {r \in Reviews : phase[r] # "unknown"}
    BY <2>2, Phases DEF Prunable, TypeOK
  <2>4. phase' = [r \in Reviews |-> IF r \in gone THEN "forgotten" ELSE phase[r]]
    BY <2>1, <2>2, Phases
  <2>5. deadline' = [r \in Reviews |-> IF r \in gone THEN 0 ELSE deadline[r]]
    BY <2>1, <2>2
  <2>6. Abstract!Forget
    BY <2>1, <2>3, <2>4, <2>5 DEF Abstract!Forget
  <2> QED BY <2>6 DEF Abstract!LifecycleNext
<1>7. ASSUME Tick
      PROVE  Abstract!LifecycleNext
  BY <1>7 DEF Tick, Abstract!LifecycleNext, Abstract!Pass
<1>8. CASE \E h \in Handlers : Request(h)
  <2>1. PICK h \in Handlers : Request(h)
    BY <1>8
  <2>2. CASE \/ \E r \in Reviews :
                  \/ \E life \in Lifetimes : SubmitBegin(h, r, life)
                  \/ \E d \in {"APPROVED", "REJECTED"} : DecideBegin(h, r, d)
                  \/ ConsumeBegin(h, r)
                  \/ CancelBegin(h, r)
                  \/ \E t \in Txs : Attach(h, r, t)
             \/ Settle(h) \/ Abandon(h)
    BY <1>1, <2>2 DEF SubmitBegin, DecideBegin, ConsumeBegin, CancelBegin, Attach,
       Settle, Abandon
  <2> QED BY <1>2, <1>3, <1>4, <1>5, <2>1, <2>2 DEF Request
<1>9. CASE \/ \E w \in Wallets, p \in Policies : SetPolicy(w, p)
           \/ \E t \in Txs, ok \in BOOLEAN : Mine(t, ok)
           \/ UNCHANGED vars
  BY <1>1, <1>9 DEF SetPolicy, Mine, vars
<1> QED
  BY <1>6, <1>7, <1>8, <1>9 DEF Next

(* What the tables, the triggers and the racing requests do to a review is   *)
(* what the abstract lifecycle promises: one decision, one timely use, and   *)
(* no way back from a refusal, a use or the retention job.                   *)
THEOREM QueueImplementsLifecycle == Spec => Lifecycle
<1>1. Init => Abstract!LifecycleInit
  BY Phases, TimeAssumption DEF Init, Abstract!LifecycleInit, NoTime
<1>2. TypeOK /\ TypeOK' /\ TablesAgree /\ [Next]_vars => [Abstract!LifecycleNext]_(Abstract!lifecycleVars)
  BY LifecycleStep
<1> QED
  BY <1>1, <1>2, TypeCorrect, TablesAlwaysAgree, PTL
  DEF Spec, Lifecycle, Abstract!LifecycleSpec
====
