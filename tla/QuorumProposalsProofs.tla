----------------------- MODULE QuorumProposalsProofs -----------------------
(***************************************************************************)
(* Proofs about QuorumProposals for any proposals, people and number of    *)
(* requests in flight, any times to live, any clock granularity and any     *)
(* delay with which reads of the store follow its writes.                   *)
(***************************************************************************)
EXTENDS QuorumProposals, FiniteSetTheorems, TLAPS

(* Rounding down to whole seconds loses less than a second. *)
LEMMA Rounding ==
  ASSUME NEW x \in Int
  PROVE  /\ (x \div Second) * Second \in Int
         /\ (x \div Second) * Second > x - Second
BY QuorumAssumption

(* A key written for the time left outlives it but for less than a second. *)
LEMMA TimeToLiveLongEnough ==
  ASSUME NEW expires \in Nat, now \in Nat
  PROVE  /\ TimeToLive(expires) \in Nat
         /\ now + TimeToLive(expires) + Second > expires
<1> DEFINE whole == ((expires - now) \div Second) * Second
<1>1. whole \in Int /\ whole > (expires - now) - Second
  <2>1. expires - now \in Int
    OBVIOUS
  <2> QED BY <2>1, Rounding
<1> HIDE DEF whole
<1>2. TimeToLive(expires) = IF whole > MinTTL THEN whole ELSE MinTTL
  BY DEF TimeToLive, whole
<1> QED BY <1>1, <1>2, QuorumAssumption

(* The fields a request in flight carries, by its kind. *)
LEMMA TaskFields ==
  ASSUME TypeOK, NEW h \in Requests
  PROVE  /\ task[h].kind \in {"idle", "vote", "gated", "claim", "spend"}
         /\ task[h].kind # "idle" => task[h].proposal \in Proposals
         /\ task[h].kind = "vote" =>
              /\ task[h].vote \in Approvals /\ task[h].new \in Records
              /\ task[h].ttl \in Nat
         /\ task[h].kind = "claim" => task[h].seen \in Records
         /\ task[h].kind = "spend" =>
              /\ task[h].new \in Records /\ task[h].ttl \in Nat
              /\ task[h].left \in SUBSET {"lock", "record"}
              /\ task[h] = [kind |-> "spend", proposal |-> task[h].proposal,
                            new |-> task[h].new, ttl |-> task[h].ttl,
                            left |-> task[h].left]
BY DEF TypeOK, Tasks, Idle

(* One more vote makes a record of a record. *)
LEMMA VotedType ==
  ASSUME NEW p, NEW record \in Records, NEW vote \in Approvals
  PROVE  /\ Voted(p, record, vote) \in Records
         /\ Voted(p, record, vote).expires = record.expires
         /\ Voted(p, record, vote).approvals = WithVote(record.approvals, vote)
         /\ Voted(p, record, vote).status =
              IF vote.decision = "REJECT" THEN "REJECTED"
              ELSE IF Cardinality(Approving(WithVote(record.approvals, vote))) >= Terms[p].min
                   THEN "APPROVED" ELSE record.status
<1>1. WithVote(record.approvals, vote) \in SUBSET Approvals
  BY DEF WithVote, Records
<1> QED BY <1>1 DEF Voted, Records

(* A read returns a record some write has put there. *)
LEMMA ReadIsVersion ==
  ASSUME TypeOK, NEW p \in Proposals, NEW seen \in ReadOf(p)
  PROVE  /\ seen \in Versions(p) /\ seen \in Records /\ seen.expires \in Nat
         /\ seen.status # "ABSENT"
<1>1. seen \in Versions(p) /\ seen.status # "ABSENT"
  BY DEF ReadOf
<1>2. seen \in Records
  BY <1>1 DEF Versions, TypeOK, OlderRecs
<1> QED BY <1>1, <1>2 DEF Records

(* Overwriting a record adds one version, and those that were readable may last. *)
LEMMA PutRecAddsOne ==
  ASSUME TypeOK, NEW p \in Proposals, NEW record \in Records, NEW ttl \in Nat,
         PutRec(p, record, ttl)
  PROVE  /\ rec' = [rec EXCEPT ![p] = record]
         /\ rec' \in [Proposals -> Records] /\ recUntil' \in [Proposals -> Nat]
         /\ olderRecs' \in [Proposals -> SUBSET OlderRecs]
         /\ Versions(p)' \subseteq Versions(p) \cup {record}
         /\ \A q \in Proposals \ {p} : Versions(q)' = Versions(q)
<1> DEFINE old == [record |-> rec[p], until |-> recUntil[p], over |-> now]
<1>1. /\ rec' = [rec EXCEPT ![p] = record]
      /\ recUntil' = [recUntil EXCEPT ![p] = now + ttl]
      /\ olderRecs' = [olderRecs EXCEPT ![p] = StillRead(olderRecs[p] \cup {old}, now)]
  BY DEF PutRec
<1>2. old \in OlderRecs /\ old.record = rec[p]
  BY DEF OlderRecs, TypeOK
<1> HIDE DEF old
<1>3. olderRecs'[p] \subseteq olderRecs[p] \cup {old}
  BY <1>1 DEF StillRead, TypeOK
<1>4. \A q \in Proposals \ {p} : olderRecs'[q] = olderRecs[q] /\ rec'[q] = rec[q]
  BY <1>1 DEF TypeOK
<1>5. olderRecs' \in [Proposals -> SUBSET OlderRecs]
  <2>1. StillRead(olderRecs[p] \cup {old}, now) \in SUBSET OlderRecs
    BY <1>2 DEF StillRead, TypeOK
  <2> QED BY <1>1, <2>1 DEF TypeOK
<1>6. /\ recUntil' \in [Proposals -> Nat] /\ rec' \in [Proposals -> Records]
      /\ rec'[p] = record
  BY <1>1 DEF TypeOK
<1>7. Versions(p)' \subseteq Versions(p) \cup {record}
  BY <1>2, <1>3, <1>6 DEF Versions
<1>8. \A q \in Proposals \ {p} : Versions(q)' = Versions(q)
  BY <1>4 DEF Versions
<1> QED BY <1>1, <1>5, <1>6, <1>7, <1>8

(* Time only forgets versions. *)
LEMMA TickForgets ==
  ASSUME TypeOK, Tick
  PROVE  /\ olderRecs' \in [Proposals -> SUBSET OlderRecs]
         /\ olderLocks' \in [Proposals -> SUBSET OlderLocks]
         /\ \A p \in Proposals : /\ Versions(p)' \subseteq Versions(p)
                                 /\ olderLocks'[p] = StillRead(olderLocks[p], now')
<1>1. /\ olderRecs' = [p \in Proposals |-> StillRead(olderRecs[p], now')]
      /\ olderLocks' = [p \in Proposals |-> StillRead(olderLocks[p], now')]
      /\ rec' = rec
  BY DEF Tick
<1>2. \A p \in Proposals : /\ StillRead(olderRecs[p], now') \subseteq olderRecs[p]
                          /\ StillRead(olderLocks[p], now') \subseteq olderLocks[p]
  BY DEF StillRead
<1>3. \A p \in Proposals : Versions(p)' \subseteq Versions(p)
  BY <1>1, <1>2 DEF Versions
<1> QED BY <1>1, <1>2, <1>3 DEF TypeOK

(* Every step keeps the store and the requests in flight within their types. *)
LEMMA TypeStep ==
  ASSUME TypeOK, [Next]_vars
  PROVE  TypeOK'
<1> USE QuorumAssumption DEF history, store, older
<1>1. ASSUME NEW p \in Proposals, NEW life \in Lifetimes, Propose(p, life)
      PROVE  TypeOK'
  <2>1. [status |-> "PENDING", approvals |-> {}, expires |-> now + life] \in Records
    BY DEF TypeOK, Records
  <2>2. rec' \in [Proposals -> Records]
    BY <1>1, <2>1 DEF Propose, TypeOK
  <2>3. recUntil' \in [Proposals -> Nat]
    BY <1>1 DEF Propose, TypeOK
  <2> QED BY <1>1, <2>2, <2>3 DEF Propose, TypeOK
<1>2. ASSUME NEW h \in Requests, NEW p \in Proposals, NEW vote \in Approvals,
             VoteBegin(h, p, vote)
      PROVE  TypeOK'
  <2>1. PICK seen \in ReadOf(p) :
          task' = [task EXCEPT ![h] =
            [kind |-> "vote", proposal |-> p, vote |-> vote, new |-> Voted(p, seen, vote),
             ttl |-> TimeToLive(seen.expires)]]
    BY <1>2 DEF VoteBegin, Become
  <2>2. Voted(p, seen, vote) \in Records /\ TimeToLive(seen.expires) \in Nat
    BY ReadIsVersion, VotedType, TimeToLiveLongEnough DEF TypeOK
  <2>3. [kind |-> "vote", proposal |-> p, vote |-> vote, new |-> Voted(p, seen, vote),
         ttl |-> TimeToLive(seen.expires)] \in Tasks
    BY <2>2 DEF Tasks
  <2>4. task' \in [Requests -> Tasks]
    BY <2>1, <2>3 DEF TypeOK
  <2> QED BY <1>2, <2>4 DEF VoteBegin, TypeOK
<1>3. ASSUME NEW h \in Requests, VoteCommit(h)
      PROVE  TypeOK'
  <2>1. /\ task[h].proposal \in Proposals /\ task[h].new \in Records /\ task[h].ttl \in Nat
        /\ task[h].vote.who \in People /\ task[h].vote.decision \in Decisions
    BY <1>3, TaskFields DEF VoteCommit, Approvals
  <2>2. task' \in [Requests -> Tasks]
    BY <1>3 DEF VoteCommit, Become, TypeOK, Tasks
  <2>3. /\ rec' \in [Proposals -> Records] /\ recUntil' \in [Proposals -> Nat]
        /\ olderRecs' \in [Proposals -> SUBSET OlderRecs]
    <3>1. PutRec(task[h].proposal, task[h].new, task[h].ttl)
      BY <1>3 DEF VoteCommit
    <3> QED BY <2>1, <3>1, PutRecAddsOne, Zenon
  <2>4. voters' \in [Proposals -> [Decisions -> SUBSET People]]
    BY <1>3, <2>1 DEF VoteCommit, TypeOK
  <2> QED BY <1>3, <2>2, <2>3, <2>4 DEF VoteCommit, TypeOK
<1>4. ASSUME NEW h \in Requests, NEW p \in Proposals,
             GateProxy(h, p) \/ \E d \in Demands : GateVerify(h, p, d)
      PROVE  TypeOK'
  <2>1. task' \in [Requests -> Tasks]
    BY <1>4 DEF GateProxy, GateVerify, Become, TypeOK, Tasks
  <2>2. late' \in [Requests -> BOOLEAN]
    <3>1. late' = [late EXCEPT ![h] = UsedBefore(p)]
      BY <1>4, Zenon DEF GateProxy, GateVerify
    <3>2. UsedBefore(p) \in BOOLEAN
      BY DEF UsedBefore
    <3> QED BY <3>1, <3>2, Zenon DEF TypeOK
  <2> QED BY <1>4, <2>1, <2>2 DEF GateProxy, GateVerify, TypeOK
<1>5. ASSUME NEW h \in Requests, ConsumeRead(h)
      PROVE  TypeOK'
  <2>1. task[h].proposal \in Proposals
    BY <1>5, TaskFields DEF ConsumeRead
  <2>2. PICK seen \in ReadOf(task[h].proposal) :
          task' = [task EXCEPT ![h] =
            [kind |-> "claim", proposal |-> task[h].proposal, seen |-> seen]]
    BY <1>5 DEF ConsumeRead, Become
  <2>3. [kind |-> "claim", proposal |-> task[h].proposal, seen |-> seen] \in Tasks
    BY <2>1, ReadIsVersion DEF Tasks
  <2>4. task' \in [Requests -> Tasks]
    BY <2>2, <2>3 DEF TypeOK
  <2> QED BY <1>5, <2>4 DEF ConsumeRead, TypeOK
<1>6. ASSUME NEW h \in Requests, ConsumeCheck(h)
      PROVE  TypeOK'
  <2>1. task[h].proposal \in Proposals /\ task[h].seen \in Records
    BY <1>6, TaskFields DEF ConsumeCheck
  <2>2. [task[h].seen EXCEPT !.status = "CONSUMED"] \in Records
    BY <2>1 DEF Records
  <2>3. TimeToLive(task[h].seen.expires) \in Nat
    BY <2>1, TimeToLiveLongEnough DEF TypeOK, Records
  <2>4. [kind |-> "spend", proposal |-> task[h].proposal,
         new |-> [task[h].seen EXCEPT !.status = "CONSUMED"],
         ttl |-> TimeToLive(task[h].seen.expires), left |-> {"lock", "record"}] \in Tasks
    BY <2>1, <2>2, <2>3 DEF Tasks
  <2>5. task' \in [Requests -> Tasks]
    BY <1>6, <2>4 DEF ConsumeCheck, Become, TypeOK
  <2> QED BY <1>6, <2>5 DEF ConsumeCheck, TypeOK
<1>7. ASSUME NEW h \in Requests, PutLock(h) \/ PutRecord(h)
      PROVE  TypeOK'
  <2>1. /\ task[h].proposal \in Proposals /\ task[h].new \in Records /\ task[h].ttl \in Nat
        /\ task[h].left \in SUBSET {"lock", "record"}
        /\ task[h] = [kind |-> "spend", proposal |-> task[h].proposal, new |-> task[h].new,
                      ttl |-> task[h].ttl, left |-> task[h].left]
    BY <1>7, TaskFields DEF PutLock, PutRecord
  <2>2. ASSUME NEW w \in {"lock", "record"}
        PROVE  [task[h] EXCEPT !.left = @ \ {w}] \in Tasks
    <3>1. [task[h] EXCEPT !.left = @ \ {w}] =
            [kind |-> "spend", proposal |-> task[h].proposal, new |-> task[h].new,
             ttl |-> task[h].ttl, left |-> task[h].left \ {w}]
      BY <2>1, SMTT(30)
    <3> QED BY <2>1, <3>1 DEF Tasks
  <2>3. CASE PutLock(h)
    <3>1. task' = [task EXCEPT ![h] = [task[h] EXCEPT !.left = @ \ {"lock"}]]
      BY <2>3 DEF PutLock, Become
    <3>2. task' \in [Requests -> Tasks]
      BY <2>2, <3>1 DEF TypeOK
    <3>3. olderLocks' \in [Proposals -> SUBSET OlderLocks]
      <4> DEFINE old == [until |-> lockUntil[task[h].proposal], over |-> now]
      <4>1. old \in OlderLocks
        BY <2>1 DEF OlderLocks, TypeOK
      <4>2. StillRead(olderLocks[task[h].proposal] \cup {old}, now) \in SUBSET OlderLocks
        BY <2>1, <4>1 DEF StillRead, TypeOK
      <4> QED BY <2>3, <4>2 DEF PutLock, TypeOK
    <3>4. lockUntil' \in [Proposals -> Nat]
      BY <2>1, <2>3 DEF PutLock, TypeOK
    <3> QED BY <2>3, <3>2, <3>3, <3>4 DEF PutLock, TypeOK
  <2>4. CASE PutRecord(h)
    <3>1. task' = [task EXCEPT ![h] = [task[h] EXCEPT !.left = @ \ {"record"}]]
      BY <2>4 DEF PutRecord, Become
    <3>2. task' \in [Requests -> Tasks]
      BY <2>2, <3>1 DEF TypeOK
    <3>3. /\ rec' \in [Proposals -> Records] /\ recUntil' \in [Proposals -> Nat]
          /\ olderRecs' \in [Proposals -> SUBSET OlderRecs]
      <4>1. PutRec(task[h].proposal, task[h].new, task[h].ttl)
        BY <2>4 DEF PutRecord
      <4> QED BY <2>1, <4>1, PutRecAddsOne, Zenon
    <3> QED BY <2>4, <3>2, <3>3 DEF PutRecord, TypeOK
  <2> QED BY <1>7, <2>3, <2>4
<1>8. ASSUME NEW h \in Requests, Use(h) \/ Abandon(h)
      PROVE  TypeOK'
  <2>1. task' \in [Requests -> Tasks]
    BY <1>8 DEF Use, Abandon, Become, TypeOK, Tasks
  <2>2. firstUse' \in [Proposals -> Nat]
    BY <1>8 DEF Use, Abandon, TypeOK
  <2> QED BY <1>8, <2>1, <2>2 DEF Use, Abandon, TypeOK
<1>9. ASSUME Tick \/ UNCHANGED vars
      PROVE  TypeOK'
  BY <1>9, TickForgets DEF Tick, vars, TypeOK
<1>10. \A who \in People, decision \in Decisions, at \in Dates :
         [who |-> who, decision |-> decision, at |-> at] \in Approvals
  BY DEF Approvals
<1> QED
  BY <1>1, <1>2, <1>3, <1>4, <1>5, <1>6, <1>7, <1>8, <1>9, <1>10 DEF Next

(* The store holds only proposals' records, and requests only what they read. *)
THEOREM TypeCorrect == Spec => []TypeOK
<1>1. Init => TypeOK
  BY DEF Init, TypeOK, Tasks, Records, NoRecord
<1>2. TypeOK /\ [Next]_vars => TypeOK'
  BY TypeStep
<1> QED BY <1>1, <1>2, PTL DEF Spec

---------------------------------------------------------------------------
(* A late request cannot pass the lock while the proposal is valid.  Once a *)
(* proposal has been used its lock outlives its record's expiry but for    *)
(* less than a second: the expiry is never rewritten, and the request that *)
(* wrote the lock counted its time to live from no later than the write.   *)
(* A lock that lasts less was overwritten no later than the first use, so  *)
(* no read that comes Lag after that use can return it.                    *)

LockLasts(p) == lockUntil[p] + Second > rec[p].expires

\* What a request in flight has read is still the proposal's expiry; one that has
\* written the lock, and one that is about to, makes it last.
TaskCurrent(h) ==
  LET p == task[h].proposal IN
  /\ task[h].kind \in {"vote", "gated", "claim", "spend"} => rec[p].status # "ABSENT"
  /\ task[h].kind = "vote" =>
       task[h].new.status # "ABSENT" /\ task[h].new.expires = rec[p].expires
  /\ task[h].kind = "claim" =>
       task[h].seen.status = "APPROVED" /\ task[h].seen.expires = rec[p].expires
  /\ task[h].kind = "spend" =>
       /\ task[h].new.status = "CONSUMED" /\ task[h].new.expires = rec[p].expires
       /\ "lock" \in task[h].left => now + task[h].ttl + Second > rec[p].expires
       /\ "lock" \notin task[h].left => LockLasts(p)
  /\ task[h].kind \in {"gated", "claim"} /\ late[h] => UsedBefore(p)

UsedLocked(p) == uses[p] > 0 => rec[p].status # "ABSENT" /\ LockLasts(p)

\* What any read finds has the proposal's one expiry.
VersionsAgree(p) ==
  \A record \in Versions(p) : record.status # "ABSENT" =>
    rec[p].status # "ABSENT" /\ record.expires = rec[p].expires

\* An overwritten lock that a read may still return was overwritten of late; it lasts
\* as well, unless that was before the first use.
OlderLocksLast(p) ==
  /\ \A v \in olderLocks[p] : v.over <= now /\ now < v.over + Lag
  /\ uses[p] > 0 =>
       /\ firstUse[p] <= now
       /\ \A v \in olderLocks[p] :
            v.over <= firstUse[p] \/ v.until + Second > rec[p].expires

LockInv ==
  /\ \A h \in Requests : TaskCurrent(h)
  /\ \A p \in Proposals : UsedLocked(p) /\ VersionsAgree(p) /\ OlderLocksLast(p)

\* What every step leaves to the requests that do not take it.
Keeps(p) ==
  rec[p].status # "ABSENT" =>
    /\ rec'[p].status # "ABSENT" /\ rec'[p].expires = rec[p].expires
    /\ LockLasts(p) => LockLasts(p)'

LEMMA OthersStayCurrent ==
  ASSUME TypeOK, TypeOK', NEW h \in Requests, TaskCurrent(h),
         task'[h] = task[h], late'[h] = late[h], now' >= now,
         \A p \in Proposals : Keeps(p) /\ (UsedBefore(p) => UsedBefore(p)')
  PROVE  TaskCurrent(h)'
<1>1. CASE task[h].kind = "idle"
  BY <1>1 DEF TaskCurrent
<1>2. CASE task[h].kind # "idle"
  <2>1. task[h].proposal \in Proposals /\ task[h].kind \in {"vote", "gated", "claim", "spend"}
    BY <1>2, TaskFields
  <2>2. PICK p \in Proposals : p = task[h].proposal
    BY <2>1
  <2>3. /\ rec[p].status # "ABSENT" /\ rec'[p].status # "ABSENT"
        /\ rec'[p].expires = rec[p].expires
        /\ LockLasts(p) => LockLasts(p)'
    BY <2>1, <2>2 DEF TaskCurrent, Keeps
  <2>4. UsedBefore(p) => UsedBefore(p)'
    BY <2>2
  <2>5. now \in Int /\ now' \in Int /\ rec[p].expires \in Int
    BY <2>2 DEF TypeOK, Records
  <2>6. ASSUME task[h].kind = "spend"
        PROVE  /\ "lock" \in task[h].left => now' + task[h].ttl + Second > rec'[p].expires
               /\ "lock" \notin task[h].left => LockLasts(p)'
    <3>1. task[h].ttl \in Nat
      BY <2>6, TaskFields, Zenon
    <3> QED BY <2>2, <2>3, <2>5, <2>6, <3>1, QuorumAssumption DEF TaskCurrent
  <2>7. p = task'[h].proposal
    BY <2>2
  <2> QED BY <2>1, <2>2, <2>3, <2>4, <2>6, <2>7 DEF TaskCurrent, LockLasts
<1> QED BY <1>1, <1>2

(* A step that touches neither the clock, the keys nor the uses keeps what is said *)
(* of them.                                                                        *)
LEMMA KeysUntouched ==
  ASSUME UNCHANGED <<now, rec, lockUntil, olderRecs, olderLocks, uses, firstUse>>,
         NEW p, UsedLocked(p), VersionsAgree(p), OlderLocksLast(p)
  PROVE  /\ UsedLocked(p)' /\ VersionsAgree(p)' /\ OlderLocksLast(p)'
         /\ Keeps(p) /\ (UsedBefore(p) => UsedBefore(p)')
BY DEF UsedLocked, VersionsAgree, Versions, OlderLocksLast, Keeps, LockLasts, UsedBefore

(* Overwriting a record by one with its expiry keeps what is said of the locks. *)
LEMMA RecordReplaced ==
  ASSUME TypeOK, LockInv, NEW p \in Proposals, NEW new \in Records, NEW ttl \in Nat,
         PutRec(p, new, ttl), new.status # "ABSENT", new.expires = rec[p].expires,
         rec[p].status # "ABSENT", UNCHANGED <<now, lockUntil, olderLocks, uses, firstUse>>,
         NEW q \in Proposals
  PROVE  /\ UsedLocked(q)' /\ VersionsAgree(q)' /\ OlderLocksLast(q)'
         /\ Keeps(q) /\ (UsedBefore(q) => UsedBefore(q)')
<1>1. /\ rec' = [rec EXCEPT ![p] = new] /\ Versions(p)' \subseteq Versions(p) \cup {new}
      /\ \A r \in Proposals \ {p} : Versions(r)' = Versions(r)
  BY PutRecAddsOne
<1>2. rec'[q].expires = rec[q].expires /\ (rec[q].status # "ABSENT" => rec'[q].status # "ABSENT")
      /\ (q # p => rec'[q] = rec[q]) /\ rec'[p] = new
  BY <1>1 DEF TypeOK
<1>3. UsedLocked(q) /\ VersionsAgree(q) /\ OlderLocksLast(q)
  BY DEF LockInv
<1>4. UsedLocked(q)' /\ OlderLocksLast(q)' /\ Keeps(q) /\ (UsedBefore(q) => UsedBefore(q)')
  BY <1>2, <1>3 DEF UsedLocked, OlderLocksLast, Keeps, LockLasts, UsedBefore
<1>5. VersionsAgree(q)'
  <2>1. CASE q = p
    BY <1>1, <1>2, <1>3, <2>1 DEF VersionsAgree
  <2>2. CASE q # p
    <3>1. Versions(q)' = Versions(q) /\ rec'[q] = rec[q]
      BY <1>1, <1>2, <2>2
    <3> QED BY <1>3, <3>1 DEF VersionsAgree
  <2> QED BY <2>1, <2>2
<1> QED BY <1>4, <1>5

(* No step shortens a lock below the expiry it has to outlive. *)
LEMMA LockStep ==
  ASSUME TypeOK, TypeOK', LockInv, [Next]_vars
  PROVE  LockInv'
<1> USE QuorumAssumption DEF history, store, older
<1> DEFINE Others(h) == \A k \in Requests \ {h} : task'[k] = task[k] /\ late'[k] = late[k]
           KeyInv(p) == UsedLocked(p) /\ VersionsAgree(p) /\ OlderLocksLast(p)
           Later(p) == Keeps(p) /\ (UsedBefore(p) => UsedBefore(p)')
<1>0. ASSUME NEW h \in Requests, Others(h), now' >= now, TaskCurrent(h)',
             \A p \in Proposals : KeyInv(p)' /\ Later(p)
      PROVE  LockInv'
  <2>1. \A k \in Requests \ {h} : TaskCurrent(k)'
    BY <1>0, OthersStayCurrent DEF LockInv
  <2> QED BY <1>0, <2>1 DEF LockInv
<1>u. ASSUME UNCHANGED <<now, rec, lockUntil, olderRecs, olderLocks, uses, firstUse>>
      PROVE  now' >= now /\ \A p \in Proposals : KeyInv(p)' /\ Later(p)
  BY <1>u, KeysUntouched DEF LockInv, TypeOK
<1>1. ASSUME NEW p \in Proposals, NEW life \in Lifetimes, Propose(p, life)
      PROVE  LockInv'
  <2>1. /\ rec[p].status = "ABSENT"
        /\ rec' = [rec EXCEPT ![p] = [status |-> "PENDING", approvals |-> {},
                                      expires |-> now + life]]
        /\ UNCHANGED <<now, lockUntil, olderRecs, olderLocks, task, uses, firstUse, late>>
    BY <1>1 DEF Propose
  <2>2. ASSUME NEW q \in Proposals
        PROVE  KeyInv(q)' /\ Later(q)
    <3>1. CASE q = p
      <4>1. rec'[p].status = "PENDING" /\ rec'[p].expires = now + life
        BY <2>1 DEF TypeOK
      <4>2. \A record \in Versions(p)' : record = rec'[p] \/ record \in Versions(p)
        BY <2>1 DEF Versions
      <4>3. UsedLocked(p) /\ VersionsAgree(p) /\ OlderLocksLast(p)
        BY DEF LockInv
      <4>4. \A record \in Versions(p) : record.status = "ABSENT"
        BY <2>1, <4>3 DEF VersionsAgree
      <4>5. VersionsAgree(p)'
        BY <4>1, <4>2, <4>4 DEF VersionsAgree
      <4>6. ~(uses[p] > 0)
        BY <2>1, <4>3 DEF UsedLocked
      <4>7. UsedLocked(p)' /\ OlderLocksLast(p)' /\ Later(p)
        BY <2>1, <4>3, <4>6 DEF UsedLocked, OlderLocksLast, Keeps, UsedBefore
      <4> QED BY <3>1, <4>5, <4>7
    <3>2. CASE q # p
      <4>1. rec'[q] = rec[q] /\ Versions(q)' = Versions(q)
        BY <2>1, <3>2 DEF Versions, TypeOK
      <4>2. UsedLocked(q) /\ VersionsAgree(q) /\ OlderLocksLast(q)
        BY DEF LockInv
      <4> QED
        BY <2>1, <4>1, <4>2
        DEF UsedLocked, VersionsAgree, OlderLocksLast, Keeps, LockLasts, UsedBefore
    <3> QED BY <3>1, <3>2
  <2>3. \A k \in Requests : TaskCurrent(k)'
    BY <2>1, <2>2, OthersStayCurrent DEF LockInv, TypeOK
  <2> QED BY <2>2, <2>3 DEF LockInv
<1>2. ASSUME NEW h \in Requests, NEW p \in Proposals, NEW vote \in Approvals,
             VoteBegin(h, p, vote)
      PROVE  LockInv'
  <2>1. PICK seen \in ReadOf(p) :
          task' = [task EXCEPT ![h] =
            [kind |-> "vote", proposal |-> p, vote |-> vote, new |-> Voted(p, seen, vote),
             ttl |-> TimeToLive(seen.expires)]]
    BY <1>2 DEF VoteBegin, Become
  <2>2. /\ seen \in Records /\ seen.status # "ABSENT" /\ seen.expires = rec[p].expires
        /\ rec[p].status # "ABSENT"
    BY ReadIsVersion DEF LockInv, VersionsAgree
  <2>3. PICK new : new = Voted(p, seen, vote)
    OBVIOUS
  <2>4. new.expires = seen.expires /\ new.status # "ABSENT"
    <3>1. new.status \in {"REJECTED", "APPROVED", seen.status}
      BY <2>2, <2>3, VotedType
    <3> QED BY <2>2, <2>3, <3>1, VotedType
  <2>5. UNCHANGED <<now, rec, lockUntil, olderRecs, olderLocks, uses, firstUse, late>>
    BY <1>2 DEF VoteBegin
  <2>6. Others(h)
    BY <2>1, <2>5 DEF TypeOK
  <2>7. task'[h] = [kind |-> "vote", proposal |-> p, vote |-> vote, new |-> new,
                    ttl |-> TimeToLive(seen.expires)]
    BY <2>1, <2>3 DEF TypeOK
  <2>8. TaskCurrent(h)'
    BY <2>2, <2>4, <2>5, <2>7 DEF TaskCurrent
  <2> QED BY <1>0, <1>u, <2>5, <2>6, <2>8
<1>3. ASSUME NEW h \in Requests, VoteCommit(h)
      PROVE  LockInv'
  <2>1. PICK p \in Proposals : p = task[h].proposal
    BY <1>3, TaskFields DEF VoteCommit
  <2>2. PICK new \in Records, ttl \in Nat : new = task[h].new /\ ttl = task[h].ttl
    BY <1>3, TaskFields DEF VoteCommit
  <2>3. new.status # "ABSENT" /\ new.expires = rec[p].expires /\ rec[p].status # "ABSENT"
    BY <1>3, <2>1, <2>2 DEF VoteCommit, LockInv, TaskCurrent
  <2>4. /\ PutRec(p, new, ttl) /\ task' = [task EXCEPT ![h] = Idle]
        /\ UNCHANGED <<now, lockUntil, olderLocks, uses, firstUse, late>>
    BY <1>3, <2>1, <2>2 DEF VoteCommit, Become
  <2>5. \A q \in Proposals : KeyInv(q)' /\ Later(q)
    BY <2>3, <2>4, RecordReplaced
  <2>6. Others(h) /\ TaskCurrent(h)'
    BY <2>4 DEF TaskCurrent, TypeOK, Idle
  <2> QED BY <1>0, <2>4, <2>5, <2>6 DEF TypeOK
<1>4. ASSUME NEW h \in Requests, NEW p \in Proposals,
             GateProxy(h, p) \/ \E d \in Demands : GateVerify(h, p, d)
      PROVE  LockInv'
  <2>1. /\ task' = [task EXCEPT ![h] = [kind |-> "gated", proposal |-> p]]
        /\ UNCHANGED <<now, rec, lockUntil, olderRecs, olderLocks, uses, firstUse>>
        /\ \E seen : seen \in ReadOf(p)
    BY <1>4 DEF GateProxy, GateVerify, Become
  <2>2. rec[p].status # "ABSENT"
    BY <2>1, ReadIsVersion DEF LockInv, VersionsAgree
  <2>3. late' = [late EXCEPT ![h] = UsedBefore(p)]
    BY <1>4, Zenon DEF GateProxy, GateVerify
  <2>4. \A k \in Requests \ {h} : late'[k] = late[k]
    BY <2>3 DEF TypeOK
  <2>5. late'[h] <=> UsedBefore(p)
    BY <2>3, Zenon DEF TypeOK
  <2>6. Others(h)
    BY <2>1, <2>4 DEF TypeOK
  <2>7. task'[h] = [kind |-> "gated", proposal |-> p]
    BY <2>1 DEF TypeOK
  <2>8. TaskCurrent(h)'
    BY <2>1, <2>2, <2>5, <2>7 DEF TaskCurrent, UsedBefore
  <2> QED BY <1>0, <1>u, <2>1, <2>6, <2>8
<1>5. ASSUME NEW h \in Requests, ConsumeRead(h)
      PROVE  LockInv'
  <2>1. PICK p \in Proposals : p = task[h].proposal
    BY <1>5, TaskFields DEF ConsumeRead
  <2>2. PICK seen \in ReadOf(p) :
          /\ seen.status = "APPROVED"
          /\ task' = [task EXCEPT ![h] = [kind |-> "claim", proposal |-> p, seen |-> seen]]
    BY <1>5, <2>1 DEF ConsumeRead, Become
  <2>3. seen.expires = rec[p].expires /\ rec[p].status # "ABSENT"
    BY ReadIsVersion DEF LockInv, VersionsAgree
  <2>4. UNCHANGED <<now, rec, lockUntil, olderRecs, olderLocks, uses, firstUse, late>>
    BY <1>5 DEF ConsumeRead
  <2>5. late[h] => UsedBefore(p)
    BY <1>5, <2>1 DEF ConsumeRead, LockInv, TaskCurrent
  <2>6. Others(h) /\ task'[h] = [kind |-> "claim", proposal |-> p, seen |-> seen]
    BY <2>2, <2>4 DEF TypeOK
  <2>7. TaskCurrent(h)'
    BY <2>2, <2>3, <2>4, <2>5, <2>6 DEF TaskCurrent, UsedBefore
  <2> QED BY <1>0, <1>u, <2>4, <2>6, <2>7
<1>6. ASSUME NEW h \in Requests, ConsumeCheck(h)
      PROVE  LockInv'
  <2>1. PICK p \in Proposals : p = task[h].proposal
    BY <1>6, TaskFields DEF ConsumeCheck
  <2>2. PICK seen \in Records : seen = task[h].seen
    BY <1>6, TaskFields DEF ConsumeCheck
  <2>3. seen.expires = rec[p].expires /\ rec[p].status # "ABSENT" /\ seen.expires \in Nat
    BY <1>6, <2>1, <2>2 DEF ConsumeCheck, LockInv, TaskCurrent, Records
  <2>4. /\ UNCHANGED <<now, rec, lockUntil, olderRecs, olderLocks, uses, firstUse, late>>
        /\ task' = [task EXCEPT ![h] =
             [kind |-> "spend", proposal |-> p, new |-> [seen EXCEPT !.status = "CONSUMED"],
              ttl |-> TimeToLive(seen.expires), left |-> {"lock", "record"}]]
    BY <1>6, <2>1, <2>2 DEF ConsumeCheck, Become
  <2>5. Others(h)
    BY <2>4 DEF TypeOK
  <2>6. now + TimeToLive(seen.expires) + Second > rec[p].expires
    BY <2>3, TimeToLiveLongEnough DEF TypeOK
  <2>7. [seen EXCEPT !.status = "CONSUMED"].expires = seen.expires
        /\ [seen EXCEPT !.status = "CONSUMED"].status = "CONSUMED"
    BY <2>2 DEF Records
  <2>8. TaskCurrent(h)'
    BY <2>3, <2>4, <2>6, <2>7 DEF TaskCurrent, TypeOK
  <2> QED BY <1>0, <1>u, <2>4, <2>5, <2>8
<1>7. ASSUME NEW h \in Requests, PutLock(h)
      PROVE  LockInv'
  <2>1. PICK p \in Proposals : p = task[h].proposal
    BY <1>7, TaskFields DEF PutLock
  <2>2. PICK ttl \in Nat : ttl = task[h].ttl
    BY <1>7, TaskFields DEF PutLock
  <2> DEFINE old == [until |-> lockUntil[p], over |-> now]
  <2>3. /\ UNCHANGED <<now, rec, olderRecs, uses, firstUse, late>>
        /\ lockUntil' = [lockUntil EXCEPT ![p] = now + ttl]
        /\ olderLocks' = [olderLocks EXCEPT ![p] = StillRead(olderLocks[p] \cup {old}, now)]
        /\ task' = [task EXCEPT ![h] = [task[h] EXCEPT !.left = @ \ {"lock"}]]
    BY <1>7, <2>1, <2>2 DEF PutLock, Become
  <2>4. rec[p].status # "ABSENT" /\ task[h].new.status = "CONSUMED"
        /\ task[h].new.expires = rec[p].expires /\ now + ttl + Second > rec[p].expires
    BY <1>7, <2>1, <2>2 DEF PutLock, LockInv, TaskCurrent
  <2>5. \A q \in Proposals : (LockLasts(q) \/ q = p) => LockLasts(q)'
    BY <2>3, <2>4 DEF LockLasts, TypeOK
  <2>6. ASSUME NEW q \in Proposals
        PROVE  KeyInv(q)' /\ Later(q)
    <3>1. UsedLocked(q) /\ VersionsAgree(q) /\ OlderLocksLast(q)
      BY DEF LockInv
    <3>2. UsedLocked(q)' /\ VersionsAgree(q)' /\ Later(q)
      BY <2>3, <2>5, <3>1 DEF UsedLocked, VersionsAgree, Versions, Keeps, UsedBefore
    <3>3. CASE q # p
      BY <2>3, <3>1, <3>2, <3>3 DEF OlderLocksLast, TypeOK
    <3>4. CASE q = p
      <4>1. old.until = lockUntil[p] /\ old.over = now
        OBVIOUS
      <4> HIDE DEF old
      <4>2. olderLocks'[p] = StillRead(olderLocks[p] \cup {old}, now)
        BY <2>3 DEF TypeOK
      <4>3. \A v \in olderLocks'[p] : now < v.over + Lag /\ (v \in olderLocks[p] \/ v = old)
        BY <4>2 DEF StillRead
      <4>4. now \in Nat
        BY DEF TypeOK
      <4>5. \A v \in olderLocks'[p] : v.over <= now /\ now < v.over + Lag
        BY <3>1, <3>4, <4>1, <4>3, <4>4 DEF OlderLocksLast
      <4>6. uses[p] > 0 => LockLasts(p) /\ firstUse[p] <= now
        BY <3>1, <3>4 DEF UsedLocked, OlderLocksLast
      <4>7. uses[p] > 0 => \A v \in olderLocks'[p] :
              v.over <= firstUse[p] \/ v.until + Second > rec[p].expires
        BY <3>1, <3>4, <4>1, <4>3, <4>6 DEF OlderLocksLast, LockLasts
      <4>8. OlderLocksLast(p)'
        BY <2>3, <4>5, <4>6, <4>7 DEF OlderLocksLast
      <4> QED BY <3>2, <3>4, <4>8
    <3> QED BY <3>3, <3>4
  <2>7. /\ task'[h].kind = "spend" /\ task'[h].proposal = p /\ task'[h].new = task[h].new
        /\ "lock" \notin task'[h].left
    <3>1. task'[h] = [task[h] EXCEPT !.left = @ \ {"lock"}]
      BY <2>3 DEF TypeOK
    <3>2. task[h] = [kind |-> "spend", proposal |-> task[h].proposal, new |-> task[h].new,
                     ttl |-> task[h].ttl, left |-> task[h].left]
      BY <1>7, TaskFields DEF PutLock
    <3> QED BY <2>1, <3>1, <3>2
  <2>8. TaskCurrent(h)'
    BY <2>3, <2>4, <2>5, <2>7 DEF TaskCurrent, LockLasts
  <2>9. Others(h) /\ now' >= now
    BY <2>3 DEF TypeOK
  <2> QED BY <1>0, <2>6, <2>8, <2>9
<1>8. ASSUME NEW h \in Requests, PutRecord(h)
      PROVE  LockInv'
  <2>1. PICK p \in Proposals : p = task[h].proposal
    BY <1>8, TaskFields DEF PutRecord
  <2>2. PICK new \in Records, ttl \in Nat : new = task[h].new /\ ttl = task[h].ttl
    BY <1>8, TaskFields DEF PutRecord
  <2>3. rec[p].status # "ABSENT" /\ new.status = "CONSUMED" /\ new.expires = rec[p].expires
    BY <1>8, <2>1, <2>2 DEF PutRecord, LockInv, TaskCurrent
  <2>4. /\ UNCHANGED <<now, lockUntil, olderLocks, uses, firstUse, late>>
        /\ PutRec(p, new, ttl)
        /\ task' = [task EXCEPT ![h] = [task[h] EXCEPT !.left = @ \ {"record"}]]
    BY <1>8, <2>1, <2>2 DEF PutRecord, Become
  <2>5. \A q \in Proposals : KeyInv(q)' /\ Later(q)
    BY <2>3, <2>4, RecordReplaced
  <2>6. /\ task'[h].kind = "spend" /\ task'[h].proposal = p /\ task'[h].new = new
        /\ task'[h].ttl = task[h].ttl
        /\ "lock" \in task'[h].left <=> "lock" \in task[h].left
    <3>1. task'[h] = [task[h] EXCEPT !.left = @ \ {"record"}]
      BY <2>4 DEF TypeOK
    <3>2. task[h] = [kind |-> "spend", proposal |-> task[h].proposal, new |-> task[h].new,
                     ttl |-> task[h].ttl, left |-> task[h].left]
      BY <1>8, TaskFields DEF PutRecord
    <3> QED BY <2>1, <2>2, <3>1, <3>2
  <2>7. /\ "lock" \in task[h].left => now + task[h].ttl + Second > rec[p].expires
        /\ "lock" \notin task[h].left => LockLasts(p)
    BY <1>8, <2>1 DEF PutRecord, LockInv, TaskCurrent
  <2>8. rec'[p] = new
    BY <2>4, PutRecAddsOne DEF TypeOK
  <2>9. TaskCurrent(h)'
    BY <2>3, <2>4, <2>6, <2>7, <2>8 DEF TaskCurrent, LockLasts
  <2>10. Others(h) /\ now' >= now
    BY <2>4 DEF TypeOK
  <2> QED BY <1>0, <2>5, <2>9, <2>10
<1>9. ASSUME NEW h \in Requests, Use(h)
      PROVE  LockInv'
  <2>1. PICK p \in Proposals : p = task[h].proposal
    BY <1>9, TaskFields DEF Use
  <2>2. rec[p].status # "ABSENT" /\ LockLasts(p)
    BY <1>9, <2>1 DEF Use, LockInv, TaskCurrent
  <2>3. /\ UNCHANGED <<now, rec, lockUntil, olderRecs, olderLocks, late>>
        /\ uses' = [uses EXCEPT ![p] = @ + 1] /\ task' = [task EXCEPT ![h] = Idle]
        /\ firstUse' = [firstUse EXCEPT ![p] = IF uses[p] = 0 THEN now ELSE @]
    BY <1>9, <2>1 DEF Use, Become
  <2>4. ASSUME NEW q \in Proposals
        PROVE  KeyInv(q)' /\ Later(q)
    <3>1. UsedLocked(q) /\ VersionsAgree(q) /\ OlderLocksLast(q)
      BY DEF LockInv
    <3>2. VersionsAgree(q)' /\ Keeps(q)
      BY <2>3, <3>1 DEF VersionsAgree, Versions, Keeps, LockLasts
    <3>3. UsedLocked(q)'
      BY <2>2, <2>3, <3>1 DEF UsedLocked, LockLasts, TypeOK
    <3>4. now \in Nat /\ uses[q] \in Nat
      BY DEF TypeOK
    <3>5. firstUse'[q] = IF q = p /\ uses[q] = 0 THEN now ELSE firstUse[q]
      BY <2>3 DEF TypeOK
    <3>6. OlderLocksLast(q)'
      <4>1. CASE q = p /\ uses[q] = 0
        BY <2>3, <3>1, <3>4, <3>5, <4>1 DEF OlderLocksLast
      <4>2. CASE q = p /\ uses[q] > 0
        <5>1. firstUse'[q] = firstUse[q]
          BY <3>5, <4>2
        <5> QED BY <2>3, <3>1, <4>2, <5>1 DEF OlderLocksLast
      <4>3. CASE q # p
        BY <2>3, <3>1, <3>5, <4>3 DEF OlderLocksLast, TypeOK
      <4> QED BY <3>4, <4>1, <4>2, <4>3
    <3>7. UsedBefore(q) => UsedBefore(q)'
      BY <2>3, <3>4, <3>5 DEF UsedBefore, TypeOK
    <3> QED BY <3>2, <3>3, <3>6, <3>7
  <2>5. TaskCurrent(h)'
    BY <2>3 DEF TaskCurrent, TypeOK, Idle
  <2>6. Others(h) /\ now' >= now
    BY <2>3 DEF TypeOK
  <2> QED BY <1>0, <2>4, <2>5, <2>6
<1>10. ASSUME NEW h \in Requests, Abandon(h)
       PROVE  LockInv'
  <2>1. /\ task' = [task EXCEPT ![h] = Idle]
        /\ UNCHANGED <<now, rec, lockUntil, olderRecs, olderLocks, uses, firstUse, late>>
    BY <1>10 DEF Abandon, Become
  <2>2. Others(h) /\ TaskCurrent(h)'
    BY <2>1 DEF TaskCurrent, TypeOK, Idle
  <2> QED BY <1>0, <1>u, <2>1, <2>2
<1>11. ASSUME Tick
       PROVE  LockInv'
  <2>1. /\ now' = now + 1 /\ UNCHANGED <<rec, lockUntil, task, uses, firstUse, late>>
        /\ \A p \in Proposals : /\ Versions(p)' \subseteq Versions(p)
                                /\ olderLocks'[p] = StillRead(olderLocks[p], now')
    BY <1>11, TickForgets DEF Tick
  <2>2. now \in Nat /\ now' \in Nat
    BY DEF TypeOK
  <2>3. ASSUME NEW p \in Proposals
        PROVE  KeyInv(p)' /\ Later(p)
    <3>1. UsedLocked(p) /\ VersionsAgree(p) /\ OlderLocksLast(p)
      BY DEF LockInv
    <3>2. \A v \in olderLocks'[p] : v \in olderLocks[p] /\ now' < v.over + Lag
      BY <2>1 DEF StillRead
    <3>3. olderLocks[p] \subseteq OlderLocks /\ firstUse[p] \in Nat
      BY DEF TypeOK
    <3>4. OlderLocksLast(p)'
      BY <2>1, <2>2, <3>1, <3>2, <3>3 DEF OlderLocksLast, OlderLocks
    <3>5. UsedLocked(p)' /\ VersionsAgree(p)' /\ Keeps(p)
      BY <2>1, <3>1 DEF UsedLocked, VersionsAgree, Keeps, LockLasts
    <3>6. UsedBefore(p) => UsedBefore(p)'
      BY <2>1, <2>2, <3>3 DEF UsedBefore
    <3> QED BY <3>4, <3>5, <3>6
  <2>4. \A k \in Requests : TaskCurrent(k)'
    BY <2>1, <2>2, <2>3, OthersStayCurrent DEF LockInv
  <2> QED BY <2>3, <2>4 DEF LockInv
<1>12. ASSUME UNCHANGED vars
       PROVE  LockInv'
  <2>1. UNCHANGED <<now, rec, lockUntil, olderRecs, olderLocks, task, uses, firstUse, late>>
    BY <1>12 DEF vars
  <2>2. \A k \in Requests : TaskCurrent(k)'
    BY <1>u, <2>1, OthersStayCurrent DEF LockInv
  <2> QED BY <1>u, <2>1, <2>2 DEF LockInv
<1>13. \A who \in People, decision \in Decisions, at \in Dates :
         [who |-> who, decision |-> decision, at |-> at] \in Approvals
  BY DEF Approvals
<1> QED
  BY <1>1, <1>2, <1>3, <1>4, <1>5, <1>6, <1>7, <1>8, <1>9, <1>10, <1>11, <1>12, <1>13
  DEF Next

(* A request that began Lag or more after a use passes the lock only in the *)
(* last second of the proposal's validity, however slow the votes and       *)
(* writes are that restore its record, and whatever the reads miss.         *)
THEOREM LateReplayBounded == Spec => ReplayBounded
<1>1. Init => LockInv
  <2>1. Init => \A p \in Proposals : VersionsAgree(p)
    BY DEF Init, VersionsAgree, Versions, NoRecord
  <2>2. Init => \A p \in Proposals : UsedLocked(p) /\ OlderLocksLast(p)
    BY DEF Init, UsedLocked, OlderLocksLast
  <2>3. Init => \A h \in Requests : TaskCurrent(h)
    BY DEF Init, TaskCurrent, Idle
  <2> QED BY <2>1, <2>2, <2>3 DEF LockInv
<1>2. TypeOK /\ LockInv /\ [Next]_vars => LockInv'
  BY TypeStep, LockStep
<1>3. TypeOK /\ LockInv /\ [Next]_vars =>
        [\A h \in Requests : PassesLockLate(h) => now + Second > task[h].seen.expires]_vars
  <2> SUFFICES ASSUME TypeOK, LockInv, Next, NEW h \in Requests, PassesLockLate(h)
               PROVE  now + Second > task[h].seen.expires
    OBVIOUS
  <2>1. task[h].kind = "claim" /\ task'[h].kind = "spend" /\ late[h]
    BY DEF PassesLockLate
  <2>2. ConsumeCheck(h)
    <3> DEFINE Turn(k) == /\ \A q \in Requests \ {k} : task'[q] = task[q]
                          /\ task[k].kind # "claim" \/ task'[k].kind # "spend"
    <3>1. ~\E k \in Requests : Turn(k)
      BY <2>1
    <3>2. ASSUME NEW k \in Requests, NEW p \in Proposals,
                 \/ \E vote \in Approvals : VoteBegin(k, p, vote)
                 \/ \E d \in Demands : GateVerify(k, p, d)
                 \/ GateProxy(k, p)
          PROVE  Turn(k)
      BY <3>2 DEF VoteBegin, GateVerify, GateProxy, Become, TypeOK, Idle
    <3>3. ASSUME NEW k \in Requests, VoteCommit(k) \/ Use(k) \/ Abandon(k)
          PROVE  Turn(k)
      BY <3>3 DEF VoteCommit, Use, Abandon, Become, TypeOK, Idle
    <3>4. ASSUME NEW k \in Requests, ConsumeRead(k) \/ PutLock(k) \/ PutRecord(k)
          PROVE  Turn(k)
      BY <3>4 DEF ConsumeRead, PutLock, PutRecord, Become, TypeOK
    <3>5. ASSUME NEW k \in Requests, ConsumeCheck(k)
          PROVE  k = h
      BY <2>1, <3>5 DEF ConsumeCheck, Become, TypeOK
    <3>6. ~Tick /\ ~\E p \in Proposals, life \in Lifetimes : Propose(p, life)
      BY <2>1 DEF Tick, Propose
    <3>7. \A who \in People, decision \in Decisions, at \in Dates :
            [who |-> who, decision |-> decision, at |-> at] \in Approvals
      BY QuorumAssumption DEF Approvals
    <3> HIDE DEF Turn
    <3> QED BY <3>1, <3>2, <3>3, <3>4, <3>5, <3>6, <3>7 DEF Next
  <2>3. PICK p \in Proposals : p = task[h].proposal
    BY <2>1, TaskFields
  <2>4. PICK seen \in Records : seen = task[h].seen
    BY <2>1, TaskFields
  <2>5. uses[p] > 0 /\ firstUse[p] + Lag <= now /\ seen.expires = rec[p].expires
    BY <2>1, <2>3, <2>4 DEF LockInv, TaskCurrent, UsedBefore
  <2>6. UsedLocked(p) /\ OlderLocksLast(p)
    BY DEF LockInv
  <2>7. lockUntil[p] + Second > seen.expires
    BY <2>5, <2>6 DEF UsedLocked, LockLasts
  <2>8. now \in Nat /\ lockUntil[p] \in Nat /\ firstUse[p] \in Nat
        /\ olderLocks[p] \subseteq OlderLocks /\ seen.expires \in Nat
    BY <2>4 DEF TypeOK, Records
  <2>9. PICK until \in Nat : now >= until /\ until + Second > seen.expires
    <3>1. ~Locked(p)
      BY <2>2, <2>3 DEF ConsumeCheck
    <3>2. CASE ~(now < lockUntil[p])
      BY <2>7, <2>8, <3>2
    <3>3. ASSUME NEW v \in olderLocks[p], ~(now < v.until)
          PROVE  now >= v.until /\ v.until + Second > seen.expires /\ v.until \in Nat
      <4>1. v.over \in Nat /\ v.until \in Nat
        BY <2>8 DEF OlderLocks
      <4>2. now < v.over + Lag
        BY <2>6 DEF OlderLocksLast
      <4>3. ~(v.over <= firstUse[p])
        BY <2>5, <2>8, <4>1, <4>2, QuorumAssumption
      <4>4. v.until + Second > seen.expires
        BY <2>5, <2>6, <4>3 DEF OlderLocksLast
      <4> QED BY <2>8, <3>3, <4>1, <4>4
    <3> QED BY <3>1, <3>2, <3>3 DEF Locked
  <2>10. now + Second > seen.expires
    BY <2>8, <2>9, QuorumAssumption
  <2> QED BY <2>4, <2>10
<1> QED BY <1>1, <1>2, <1>3, TypeCorrect, PTL DEF Spec, ReplayBounded

---------------------------------------------------------------------------
(* Records stay sound.  A write carries the record one request built from  *)
(* the one it read, so each record comes from another by a single vote or  *)
(* use; what voters holds only grows, so no write can make it unbacked.    *)

Sound(p, record) == RecordSound(p, record) /\ IsFiniteSet(record.approvals)

\* Everyone whose vote a set of approvals shows has sent it.
Backed(p, approvals) == \A a \in approvals : a.who \in voters[p][a.decision]

(* Replacing an approval by the same voter's, or adding one, loses none. *)
LEMMA RevoteKeepsCount ==
  ASSUME NEW S, IsFiniteSet(S), NEW vote \in Approvals, vote.decision = "APPROVE",
         S \subseteq Approvals, \A a, b \in S : a.who = b.who => a = b,
         \A a \in S : a.decision = "APPROVE"
  PROVE  /\ IsFiniteSet(WithVote(S, vote))
         /\ Cardinality(Approving(WithVote(S, vote))) \in Nat
         /\ Cardinality(Approving(WithVote(S, vote))) >= Cardinality(S)
<1>1. Approving(WithVote(S, vote)) = WithVote(S, vote)
  BY DEF Approving, WithVote
<1>2. CASE \A a \in S : a.who # vote.who
  <2>1. WithVote(S, vote) = S \cup {vote} /\ vote \notin S
    BY <1>2 DEF WithVote
  <2>2. IsFiniteSet(S \cup {vote}) /\ Cardinality(S \cup {vote}) = Cardinality(S) + 1
    BY <2>1, FS_AddElement
  <2>3. Cardinality(S) \in Nat
    BY FS_CardinalityType
  <2> QED BY <1>1, <2>1, <2>2, <2>3
<1>3. ASSUME NEW old \in S, old.who = vote.who
      PROVE  /\ IsFiniteSet(WithVote(S, vote))
             /\ Cardinality(WithVote(S, vote)) = Cardinality(S)
  <2>1. WithVote(S, vote) = (S \ {old}) \cup {vote}
    BY <1>3 DEF WithVote
  <2>2. vote \notin S \ {old}
    BY <1>3
  <2>3. IsFiniteSet(S \ {old}) /\ Cardinality(S \ {old}) = Cardinality(S) - 1
    BY <1>3, FS_RemoveElement
  <2>4. IsFiniteSet((S \ {old}) \cup {vote})
        /\ Cardinality((S \ {old}) \cup {vote}) = Cardinality(S \ {old}) + 1
    BY <2>2, <2>3, FS_AddElement
  <2>5. Cardinality(S) \in Nat
    BY FS_CardinalityType
  <2> QED BY <2>1, <2>3, <2>4, <2>5
<1>4. Cardinality(S) \in Nat
  BY FS_CardinalityType
<1> QED BY <1>1, <1>2, <1>3, <1>4

(* A vote recordQuorumApproval accepts makes a sound record of a sound one. *)
LEMMA VotedSound ==
  ASSUME NEW p \in Proposals, NEW record \in Records, NEW vote \in Approvals,
         Sound(p, record), record.status \in {"PENDING", "APPROVED"}, MayVote(p, vote.who)
  PROVE  Sound(p, Voted(p, record, vote))
<1> DEFINE A == WithVote(record.approvals, vote)
           R == Voted(p, record, vote)
           n == Cardinality(Approving(A))
<1>1. /\ R.approvals = A
      /\ R.status = IF vote.decision = "REJECT" THEN "REJECTED"
                    ELSE IF n >= Terms[p].min THEN "APPROVED" ELSE record.status
  BY VotedType
<1>2. IsFiniteSet(A)
  <2>1. {a \in record.approvals : a.who # vote.who} \in SUBSET record.approvals
    OBVIOUS
  <2>2. IsFiniteSet({a \in record.approvals : a.who # vote.who})
    BY <2>1, FS_Subset DEF Sound
  <2> QED BY <2>2, FS_AddElement DEF WithVote
<1>3. \A a, b \in A : a.who = b.who => a = b
  BY DEF Sound, RecordSound, WithVote
<1>4. \A a \in A : MayVote(p, a.who)
  BY DEF Sound, RecordSound, WithVote
<1>5. \A a \in record.approvals : a.decision = "APPROVE"
  BY DEF Sound, RecordSound, Records, Approvals, Decisions
<1>6. vote.decision \in {"APPROVE", "REJECT"}
  BY DEF Approvals, Decisions
<1>7. vote \in A /\ \A a \in A : a = vote \/ a.decision = "APPROVE"
  BY <1>5 DEF WithVote
<1>8. CASE vote.decision = "REJECT"
  BY <1>1, <1>2, <1>3, <1>4, <1>7, <1>8 DEF Sound, RecordSound
<1>9. CASE vote.decision = "APPROVE"
  <2>1. ~\E a \in A : a.decision = "REJECT"
    BY <1>7, <1>9
  <2>2. record.status = "APPROVED" => n >= Terms[p].min
    <3>1. record.approvals \subseteq Approvals
      BY DEF Records
    <3>2. \A a, b \in record.approvals : a.who = b.who => a = b
      BY DEF Sound, RecordSound
    <3>3. n \in Nat /\ n >= Cardinality(record.approvals)
      BY <1>5, <1>9, <3>1, <3>2, RevoteKeepsCount DEF Sound
    <3>4. Approving(record.approvals) = record.approvals
      BY <1>5 DEF Approving
    <3>5. Cardinality(record.approvals) \in Nat /\ Terms[p].min \in Nat
      BY FS_CardinalityType, QuorumAssumption DEF Sound, TermSet
    <3>6. record.status = "APPROVED" => Cardinality(record.approvals) >= Terms[p].min
      BY <3>4 DEF Sound, RecordSound
    <3> QED BY <3>3, <3>5, <3>6
  <2> HIDE DEF n
  <2>3. R.status \in {"PENDING", "APPROVED"} /\ (R.status = "APPROVED" <=> n >= Terms[p].min)
    BY <1>1, <1>9, <2>2
  <2>4. R.approvals = A /\ n = Cardinality(Approving(R.approvals))
    BY <1>1 DEF n
  <2> HIDE DEF R, A
  <2>5. R.status # "REJECTED" /\ ~\E a \in R.approvals : a.decision = "REJECT"
    BY <2>1, <2>3, <2>4
  <2>6. RecordSound(p, R)
    BY <1>3, <1>4, <2>3, <2>4, <2>5 DEF RecordSound
  <2> QED BY <1>2, <2>4, <2>6 DEF Sound, R
<1> QED BY <1>6, <1>8, <1>9

\* Each request in flight carries a sound record backed by the votes sent: its own, if
\* it has one to write, included.
TaskSound(h) ==
  LET p == task[h].proposal IN
  /\ task[h].kind = "vote" =>
       /\ Sound(p, task[h].new) /\ task[h].new.status # "ABSENT"
       /\ Backed(p, task[h].new.approvals \ {task[h].vote})
  /\ task[h].kind = "claim" =>
       /\ Sound(p, task[h].seen) /\ task[h].seen.status = "APPROVED"
       /\ Backed(p, task[h].seen.approvals)
  /\ task[h].kind = "spend" =>
       /\ Sound(p, task[h].new) /\ task[h].new.status = "CONSUMED"
       /\ Backed(p, task[h].new.approvals)

StoreSound(p) ==
  \A record \in Versions(p) : Sound(p, record) /\ Backed(p, record.approvals)

SoundInv ==
  /\ \A p \in Proposals : StoreSound(p)
  /\ \A h \in Requests : TaskSound(h)

(* Using a sound approved record leaves a sound one. *)
LEMMA ConsumedSound ==
  ASSUME NEW p \in Proposals, NEW seen \in Records, Sound(p, seen), seen.status = "APPROVED"
  PROVE  /\ Sound(p, [seen EXCEPT !.status = "CONSUMED"])
         /\ [seen EXCEPT !.status = "CONSUMED"].approvals = seen.approvals
         /\ [seen EXCEPT !.status = "CONSUMED"].status = "CONSUMED"
<1>1. PICK new : new = [seen EXCEPT !.status = "CONSUMED"]
  OBVIOUS
<1>2. new.approvals = seen.approvals /\ new.status = "CONSUMED"
  BY <1>1 DEF Records
<1>3. Sound(p, new)
  BY <1>2 DEF Sound, RecordSound
<1> QED BY <1>1, <1>2, <1>3

(* A step that only adds votes leaves the other requests' records sound. *)
LEMMA OthersStaySound ==
  ASSUME TypeOK, NEW h \in Requests, TaskSound(h), task'[h] = task[h],
         \A p \in Proposals, d \in Decisions : voters[p][d] \subseteq voters'[p][d]
  PROVE  TaskSound(h)'
<1>1. CASE task[h].kind \in {"vote", "claim", "spend"}
  <2>1. PICK p \in Proposals : p = task[h].proposal
    BY <1>1, TaskFields
  <2>2. /\ task[h].kind \in {"vote", "spend"} => task[h].new.approvals \subseteq Approvals
        /\ task[h].kind = "claim" => task[h].seen.approvals \subseteq Approvals
    BY TaskFields DEF Records
  <2>3. ASSUME NEW approvals \in SUBSET Approvals, Backed(p, approvals)
        PROVE  \A a \in approvals : a.who \in voters'[p][a.decision]
    BY <2>3 DEF Backed, Approvals
  <2>4. /\ task[h].kind = "vote" =>
             \A a \in task[h].new.approvals \ {task[h].vote} : a.who \in voters'[p][a.decision]
        /\ task[h].kind = "claim" =>
             \A a \in task[h].seen.approvals : a.who \in voters'[p][a.decision]
        /\ task[h].kind = "spend" =>
             \A a \in task[h].new.approvals : a.who \in voters'[p][a.decision]
    <3>1. CASE task[h].kind = "vote"
      BY <2>1, <2>2, <2>3, <3>1 DEF TaskSound
    <3>2. CASE task[h].kind = "claim"
      BY <2>1, <2>2, <2>3, <3>2 DEF TaskSound
    <3>3. CASE task[h].kind = "spend"
      BY <2>1, <2>2, <2>3, <3>3 DEF TaskSound
    <3> QED BY <1>1, <3>1, <3>2, <3>3
  <2> QED BY <1>1, <2>1, <2>4 DEF TaskSound, Backed, Sound, RecordSound
<1>2. CASE task[h].kind \notin {"vote", "claim", "spend"}
  BY <1>2 DEF TaskSound
<1> QED BY <1>1, <1>2

(* A step that only adds votes, and sound records they back, leaves what a read may *)
(* return sound.                                                                    *)
LEMMA VersionsStaySound ==
  ASSUME TypeOK, NEW p \in Proposals, StoreSound(p), NEW N,
         Versions(p)' \subseteq Versions(p) \cup N,
         \A d \in Decisions : voters[p][d] \subseteq voters'[p][d],
         \A new \in N : Sound(p, new) /\ \A a \in new.approvals : a.who \in voters'[p][a.decision]
  PROVE  StoreSound(p)'
<1>1. ASSUME NEW record \in Versions(p)
      PROVE  Sound(p, record) /\ \A a \in record.approvals : a.who \in voters'[p][a.decision]
  <2>1. record.approvals \subseteq Approvals
    BY DEF Versions, TypeOK, OlderRecs, Records
  <2>2. Sound(p, record) /\ Backed(p, record.approvals)
    BY DEF StoreSound
  <2> QED BY <2>1, <2>2 DEF Backed, Approvals
<1>2. \A record \in Versions(p)' :
        Sound(p, record) /\ \A a \in record.approvals : a.who \in voters'[p][a.decision]
  BY <1>1
<1> QED BY <1>2 DEF StoreSound, Sound, RecordSound, Backed

LEMMA StoreUntouchedSound ==
  ASSUME TypeOK, SoundInv, UNCHANGED voters, NEW p \in Proposals,
         Versions(p)' \subseteq Versions(p)
  PROVE  StoreSound(p)'
<1>1. StoreSound(p)
  BY DEF SoundInv
<1>2. PICK N : N = {}
  OBVIOUS
<1>3. \A d \in Decisions : voters[p][d] \subseteq voters'[p][d]
  OBVIOUS
<1>4. Versions(p)' \subseteq Versions(p) \cup N
  OBVIOUS
<1>5. \A new \in N : Sound(p, new) /\ \A a \in new.approvals : a.who \in voters'[p][a.decision]
  BY <1>2
<1> QED BY <1>1, <1>3, <1>4, <1>5, VersionsStaySound, Zenon

(* Every write puts a sound record, backed by the votes sent, under its key. *)
LEMMA SoundStep ==
  ASSUME TypeOK, SoundInv, [Next]_vars
  PROVE  SoundInv'
<1> USE QuorumAssumption DEF history, store, older
<1> DEFINE Others(h) == \A k \in Requests \ {h} : task'[k] = task[k]
           Grows == \A p \in Proposals, d \in Decisions : voters[p][d] \subseteq voters'[p][d]
<1>0. ASSUME NEW h \in Requests, Others(h), Grows, TaskSound(h)',
             \A p \in Proposals : StoreSound(p)'
      PROVE  SoundInv'
  <2>1. \A k \in Requests \ {h} : TaskSound(k)'
    BY <1>0, OthersStaySound DEF SoundInv
  <2> QED BY <1>0, <2>1 DEF SoundInv
<1>u. ASSUME UNCHANGED <<rec, olderRecs, voters>>
      PROVE  Grows /\ \A p \in Proposals : StoreSound(p)'
  <2>1. \A p \in Proposals : Versions(p)' \subseteq Versions(p)
    BY <1>u DEF Versions
  <2> QED BY <1>u, <2>1, StoreUntouchedSound
<1>1. ASSUME NEW p \in Proposals, NEW life \in Lifetimes, Propose(p, life)
      PROVE  SoundInv'
  <2>1. PICK new : new = [status |-> "PENDING", approvals |-> {}, expires |-> now + life]
    OBVIOUS
  <2>2. rec' = [rec EXCEPT ![p] = new] /\ UNCHANGED <<olderRecs, task, voters>>
    BY <1>1, <2>1 DEF Propose
  <2>3. ~(0 >= Terms[p].min)
    BY DEF TermSet
  <2>4. Approving({}) = {}
    BY DEF Approving
  <2>5. Sound(p, new) /\ new.approvals = {}
    BY <2>1, <2>3, <2>4, FS_EmptySet DEF Sound, RecordSound
  <2>6. ASSUME NEW q \in Proposals
        PROVE  StoreSound(q)'
    <3>1. CASE q = p
      <4>1. Versions(p)' \subseteq Versions(p) \cup {new}
        BY <2>2 DEF Versions, TypeOK
      <4>2. \A r \in {new} :
              Sound(p, r) /\ \A a \in r.approvals : a.who \in voters'[p][a.decision]
        BY <2>5
      <4>3. StoreSound(p) /\ \A d \in Decisions : voters[p][d] \subseteq voters'[p][d]
        BY <2>2 DEF SoundInv
      <4> QED BY <3>1, <4>1, <4>2, <4>3, VersionsStaySound
    <3>2. CASE q # p
      <4>1. Versions(q)' \subseteq Versions(q)
        BY <2>2, <3>2 DEF Versions, TypeOK
      <4> QED BY <2>2, <4>1, StoreUntouchedSound
    <3> QED BY <3>1, <3>2
  <2>7. \A k \in Requests : TaskSound(k)'
    BY <2>2, OthersStaySound DEF SoundInv
  <2> QED BY <2>6, <2>7 DEF SoundInv
<1>2. ASSUME NEW h \in Requests, NEW p \in Proposals, NEW vote \in Approvals,
             VoteBegin(h, p, vote)
      PROVE  SoundInv'
  <2>1. PICK record \in ReadOf(p) :
          /\ record.status \in {"PENDING", "APPROVED"}
          /\ task' = [task EXCEPT ![h] =
               [kind |-> "vote", proposal |-> p, vote |-> vote,
                new |-> Voted(p, record, vote), ttl |-> TimeToLive(record.expires)]]
    BY <1>2 DEF VoteBegin, OpenToVotes, Become
  <2>2. MayVote(p, vote.who) /\ UNCHANGED <<rec, olderRecs, voters>>
    BY <1>2 DEF VoteBegin
  <2>3. record \in Versions(p) /\ record \in Records
    BY ReadIsVersion
  <2>4. PICK new : new = Voted(p, record, vote)
    OBVIOUS
  <2>5. Sound(p, record) /\ Backed(p, record.approvals)
    BY <2>3 DEF SoundInv, StoreSound
  <2>6. Sound(p, new)
    BY <2>1, <2>2, <2>3, <2>4, <2>5, VotedSound
  <2>7. new.approvals = WithVote(record.approvals, vote) /\ new.status # "ABSENT"
    <3>1. new.status \in {"REJECTED", "APPROVED", record.status}
      BY <2>3, <2>4, VotedType
    <3> QED BY <2>1, <2>3, <2>4, <3>1, VotedType
  <2>8. Backed(p, new.approvals \ {vote})
    BY <2>5, <2>7 DEF Backed, WithVote
  <2>9. task'[h] = [kind |-> "vote", proposal |-> p, vote |-> vote, new |-> new,
                    ttl |-> TimeToLive(record.expires)]
    BY <2>1, <2>4 DEF TypeOK
  <2>10. TaskSound(h)'
    BY <2>2, <2>6, <2>7, <2>8, <2>9 DEF TaskSound, Sound, RecordSound, Backed
  <2>11. Others(h)
    BY <2>1 DEF TypeOK
  <2> QED BY <1>0, <1>u, <2>2, <2>10, <2>11
<1>3. ASSUME NEW h \in Requests, VoteCommit(h)
      PROVE  SoundInv'
  <2>1. PICK p \in Proposals : p = task[h].proposal
    BY <1>3, TaskFields DEF VoteCommit
  <2>2. PICK new \in Records, vote \in Approvals, ttl \in Nat :
          new = task[h].new /\ vote = task[h].vote /\ ttl = task[h].ttl
    BY <1>3, TaskFields DEF VoteCommit
  <2>3. Sound(p, new) /\ Backed(p, new.approvals \ {vote})
    BY <1>3, <2>1, <2>2 DEF VoteCommit, SoundInv, TaskSound
  <2>4. /\ PutRec(p, new, ttl) /\ task' = [task EXCEPT ![h] = Idle]
        /\ voters' = [voters EXCEPT ![p][vote.decision] = @ \cup {vote.who}]
    BY <1>3, <2>1, <2>2 DEF VoteCommit, Become
  <2>5. Grows /\ vote.who \in voters'[p][vote.decision]
    BY <2>2, <2>4 DEF TypeOK, Approvals
  <2>6. \A a \in new.approvals : a.who \in voters'[p][a.decision]
    BY <2>2, <2>3, <2>5 DEF Backed, Records, Approvals
  <2>7. Versions(p)' \subseteq Versions(p) \cup {new}
        /\ \A q \in Proposals \ {p} : Versions(q)' = Versions(q)
    BY <2>4, PutRecAddsOne
  <2>8. ASSUME NEW q \in Proposals
        PROVE  StoreSound(q)'
    <3>1. StoreSound(q)
      BY DEF SoundInv
    <3>2. \A d \in Decisions : voters[q][d] \subseteq voters'[q][d]
      BY <2>5
    <3> DEFINE N == IF q = p THEN {new} ELSE {}
    <3>3. Versions(q)' \subseteq Versions(q) \cup N
      BY <2>7
    <3>4. \A r \in N : Sound(q, r) /\ \A a \in r.approvals : a.who \in voters'[q][a.decision]
      BY <2>3, <2>6
    <3> HIDE DEF N
    <3> QED BY <3>1, <3>2, <3>3, <3>4, VersionsStaySound, Zenon
  <2>9. Others(h) /\ TaskSound(h)'
    BY <2>4 DEF TaskSound, Idle, TypeOK
  <2> QED BY <1>0, <2>5, <2>8, <2>9
<1>4. ASSUME NEW h \in Requests, NEW p \in Proposals,
             GateProxy(h, p) \/ \E d \in Demands : GateVerify(h, p, d)
      PROVE  SoundInv'
  <2>1. /\ task' = [task EXCEPT ![h] = [kind |-> "gated", proposal |-> p]]
        /\ UNCHANGED <<rec, olderRecs, voters>>
    BY <1>4 DEF GateProxy, GateVerify, Become
  <2>2. TaskSound(h)' /\ Others(h)
    BY <2>1 DEF TaskSound, TypeOK
  <2> QED BY <1>0, <1>u, <2>1, <2>2
<1>5. ASSUME NEW h \in Requests, ConsumeRead(h)
      PROVE  SoundInv'
  <2>1. PICK p \in Proposals : p = task[h].proposal
    BY <1>5, TaskFields DEF ConsumeRead
  <2>2. PICK seen \in ReadOf(p) :
          /\ seen.status = "APPROVED"
          /\ task' = [task EXCEPT ![h] = [kind |-> "claim", proposal |-> p, seen |-> seen]]
    BY <1>5, <2>1 DEF ConsumeRead, Become
  <2>3. UNCHANGED <<rec, olderRecs, voters>>
    BY <1>5 DEF ConsumeRead
  <2>4. Sound(p, seen) /\ Backed(p, seen.approvals)
    BY ReadIsVersion DEF SoundInv, StoreSound
  <2>5. task'[h] = [kind |-> "claim", proposal |-> p, seen |-> seen] /\ Others(h)
    BY <2>2 DEF TypeOK
  <2>6. TaskSound(h)'
    BY <2>2, <2>3, <2>4, <2>5 DEF TaskSound, Sound, RecordSound, Backed
  <2> QED BY <1>0, <1>u, <2>3, <2>5, <2>6
<1>6. ASSUME NEW h \in Requests, ConsumeCheck(h)
      PROVE  SoundInv'
  <2>1. PICK p \in Proposals : p = task[h].proposal
    BY <1>6, TaskFields DEF ConsumeCheck
  <2>2. PICK seen \in Records : seen = task[h].seen
    BY <1>6, TaskFields DEF ConsumeCheck
  <2>3. PICK new : new = [seen EXCEPT !.status = "CONSUMED"]
    OBVIOUS
  <2>4. Sound(p, seen) /\ seen.status = "APPROVED" /\ Backed(p, seen.approvals)
    BY <1>6, <2>1, <2>2 DEF ConsumeCheck, SoundInv, TaskSound
  <2>5. Sound(p, new) /\ new.status = "CONSUMED" /\ Backed(p, new.approvals)
    BY <2>3, <2>4, ConsumedSound
  <2>6. /\ UNCHANGED <<rec, olderRecs, voters>>
        /\ task' = [task EXCEPT ![h] =
             [kind |-> "spend", proposal |-> p, new |-> new,
              ttl |-> TimeToLive(seen.expires), left |-> {"lock", "record"}]]
    BY <1>6, <2>1, <2>2, <2>3 DEF ConsumeCheck, Become
  <2>7. TaskSound(h)'
    BY <2>5, <2>6 DEF TaskSound, Sound, RecordSound, Backed, TypeOK
  <2>8. Others(h)
    BY <2>6 DEF TypeOK
  <2> QED BY <1>0, <1>u, <2>6, <2>7, <2>8
<1>7. ASSUME NEW h \in Requests, PutLock(h) \/ PutRecord(h)
      PROVE  SoundInv'
  <2>1. PICK p \in Proposals : p = task[h].proposal
    BY <1>7, TaskFields DEF PutLock, PutRecord
  <2>2. PICK new \in Records, ttl \in Nat : new = task[h].new /\ ttl = task[h].ttl
    BY <1>7, TaskFields DEF PutLock, PutRecord
  <2>3. Sound(p, new) /\ new.status = "CONSUMED" /\ Backed(p, new.approvals)
    BY <1>7, <2>1, <2>2 DEF PutLock, PutRecord, SoundInv, TaskSound
  <2>4. voters' = voters /\ (UNCHANGED <<rec, olderRecs>> \/ PutRec(p, new, ttl))
    BY <1>7, <2>1, <2>2 DEF PutLock, PutRecord
  <2>5. PICK w : task' = [task EXCEPT ![h] = [task[h] EXCEPT !.left = @ \ {w}]]
    BY <1>7 DEF PutLock, PutRecord, Become
  <2>6. task'[h].kind = "spend" /\ task'[h].proposal = p /\ task'[h].new = new
    <3>1. task'[h] = [task[h] EXCEPT !.left = @ \ {w}]
      BY <2>5 DEF TypeOK
    <3>2. task[h] = [kind |-> "spend", proposal |-> task[h].proposal, new |-> task[h].new,
                     ttl |-> task[h].ttl, left |-> task[h].left]
      BY <1>7, TaskFields DEF PutLock, PutRecord
    <3> QED BY <2>1, <2>2, <3>1, <3>2
  <2>7. TaskSound(h)'
    BY <2>3, <2>4, <2>6 DEF TaskSound, Sound, RecordSound, Backed
  <2>8. Others(h) /\ Grows
    BY <2>4, <2>5 DEF TypeOK
  <2>9. CASE UNCHANGED <<rec, olderRecs>>
    BY <1>0, <1>u, <2>4, <2>7, <2>8, <2>9
  <2>10. CASE PutRec(p, new, ttl)
    <3>1. Versions(p)' \subseteq Versions(p) \cup {new}
          /\ \A q \in Proposals \ {p} : Versions(q)' = Versions(q)
      BY <2>10, PutRecAddsOne
    <3>2. \A r \in {new} : Sound(p, r) /\ \A a \in r.approvals : a.who \in voters'[p][a.decision]
      BY <2>3, <2>4 DEF Backed
    <3>3. StoreSound(p)'
      <4>1. StoreSound(p) /\ \A d \in Decisions : voters[p][d] \subseteq voters'[p][d]
        BY <2>8 DEF SoundInv
      <4> QED BY <3>1, <3>2, <4>1, VersionsStaySound
    <3>4. \A q \in Proposals \ {p} : StoreSound(q)'
      BY <2>4, <3>1, StoreUntouchedSound
    <3>5. \A q \in Proposals : StoreSound(q)'
      BY <3>3, <3>4
    <3> QED BY <1>0, <2>7, <2>8, <3>5
  <2> QED BY <2>4, <2>9, <2>10
<1>8. ASSUME NEW h \in Requests, Use(h) \/ Abandon(h)
      PROVE  SoundInv'
  <2>1. task' = [task EXCEPT ![h] = Idle] /\ UNCHANGED <<rec, olderRecs, voters>>
    BY <1>8 DEF Use, Abandon, Become
  <2>2. TaskSound(h)' /\ Others(h)
    BY <2>1 DEF TaskSound, Idle, TypeOK
  <2> QED BY <1>0, <1>u, <2>1, <2>2
<1>9. ASSUME Tick \/ UNCHANGED vars
      PROVE  SoundInv'
  <2>1. UNCHANGED <<task, voters>>
    BY <1>9 DEF Tick, vars
  <2>2. \A k \in Requests : TaskSound(k)'
    BY <2>1, OthersStaySound DEF SoundInv
  <2>3. \A q \in Proposals : Versions(q)' \subseteq Versions(q)
    <3>1. CASE Tick
      BY <3>1, TickForgets
    <3>2. CASE UNCHANGED vars
      BY <3>2 DEF vars, Versions
    <3> QED BY <1>9, <3>1, <3>2
  <2>4. \A q \in Proposals : StoreSound(q)'
    BY <2>1, <2>3, StoreUntouchedSound
  <2> QED BY <2>2, <2>4 DEF SoundInv
<1>10. \A who \in People, decision \in Decisions, at \in Dates :
         [who |-> who, decision |-> decision, at |-> at] \in Approvals
  BY DEF Approvals
<1> QED
  BY <1>1, <1>2, <1>3, <1>4, <1>5, <1>6, <1>7, <1>8, <1>9, <1>10 DEF Next

LEMMA InitSound ==
  ASSUME Init
  PROVE  SoundInv
<1>1. PICK record : record = NoRecord
  OBVIOUS
<1>2. IsFiniteSet(record.approvals) /\ record.approvals = {} /\ record.status = "ABSENT"
  BY <1>1, FS_EmptySet DEF NoRecord
<1>3. \A p \in Proposals : Sound(p, record) /\ Backed(p, record.approvals)
  BY <1>2 DEF Sound, RecordSound, Backed
<1>4. \A p \in Proposals : Versions(p) = {record}
  BY <1>1 DEF Init, Versions
<1> QED BY <1>3, <1>4 DEF Init, SoundInv, StoreSound, TaskSound, Idle

(* However votes and uses overtake one another, and whatever a read misses, *)
(* every record it can return is one some single sequence of accepted votes *)
(* produces, and shows none never sent.                                     *)
THEOREM RecordsAlwaysSound == Spec => []RecordsSound
<1>1. Init => SoundInv
  BY InitSound
<1>2. TypeOK /\ SoundInv /\ [Next]_vars => SoundInv'
  BY SoundStep
<1>3. SoundInv => RecordsSound
  BY DEF SoundInv, StoreSound, Sound, Backed, RecordsSound
<1> QED BY <1>1, <1>2, <1>3, TypeCorrect, PTL DEF Spec

---------------------------------------------------------------------------
VotersFinite == \A p \in Proposals : IsFiniteSet(voters[p]["APPROVE"])

(* Only a vote's write adds to voters; only a use is counted in uses. *)
LEMMA HistorySteps ==
  ASSUME [Next]_vars
  PROVE  /\ voters' # voters => \E h \in Requests : VoteCommit(h)
         /\ uses' # uses => \E h \in Requests : Use(h)
<1> USE DEF history
<1>1. ASSUME NEW p \in Proposals, NEW life \in Lifetimes, Propose(p, life)
      PROVE  UNCHANGED <<voters, uses>>
  BY <1>1 DEF Propose
<1>2. ASSUME NEW h \in Requests, NEW p \in Proposals,
             \/ \E vote : VoteBegin(h, p, vote)
             \/ \E d \in Demands : GateVerify(h, p, d)
             \/ GateProxy(h, p)
      PROVE  UNCHANGED <<voters, uses>>
  BY <1>2 DEF VoteBegin, GateVerify, GateProxy
<1>3. ASSUME NEW h \in Requests,
             \/ ConsumeRead(h) \/ ConsumeCheck(h) \/ PutLock(h) \/ PutRecord(h) \/ Abandon(h)
      PROVE  UNCHANGED <<voters, uses>>
  BY <1>3 DEF ConsumeRead, ConsumeCheck, PutLock, PutRecord, Abandon
<1>4. ASSUME NEW h \in Requests, VoteCommit(h) PROVE uses' = uses
  BY <1>4 DEF VoteCommit
<1>5. ASSUME NEW h \in Requests, Use(h) PROVE voters' = voters
  BY <1>5 DEF Use
<1>6. ASSUME Tick \/ UNCHANGED vars PROVE UNCHANGED <<voters, uses>>
  BY <1>6 DEF Tick, vars
<1> QED BY <1>1, <1>2, <1>3, <1>4, <1>5, <1>6 DEF Next

LEMMA VotersStayFinite ==
  ASSUME TypeOK, VotersFinite, [Next]_vars
  PROVE  VotersFinite'
<1>1. ASSUME NEW h \in Requests, VoteCommit(h)
      PROVE  VotersFinite'
  <2>1. PICK p \in Proposals : p = task[h].proposal
    BY <1>1, TaskFields DEF VoteCommit
  <2>2. PICK vote \in Approvals : vote = task[h].vote
    BY <1>1, TaskFields DEF VoteCommit
  <2>3. voters' = [voters EXCEPT ![p][vote.decision] = @ \cup {vote.who}]
    BY <1>1, <2>1, <2>2 DEF VoteCommit
  <2>4. \A q \in Proposals : \/ voters'[q]["APPROVE"] = voters[q]["APPROVE"]
                             \/ voters'[q]["APPROVE"] = voters[q]["APPROVE"] \cup {vote.who}
    BY <2>2, <2>3 DEF TypeOK, Approvals, Decisions
  <2>5. ASSUME NEW q \in Proposals
        PROVE  IsFiniteSet(voters'[q]["APPROVE"])
    <3>1. PICK old : old = voters[q]["APPROVE"]
      OBVIOUS
    <3>2. IsFiniteSet(old)
      BY <3>1 DEF VotersFinite
    <3>3. IsFiniteSet(old \cup {vote.who})
      BY <3>2, FS_AddElement
    <3> QED BY <2>4, <3>1, <3>2, <3>3
  <2> QED BY <2>5 DEF VotersFinite
<1>2. CASE voters' = voters
  BY <1>2 DEF VotersFinite
<1> QED BY <1>1, <1>2, HistorySteps

(* A use that has sent one of its writes still has the same record to write. *)
LEMMA SpendStaysCalm ==
  ASSUME TypeOK, NEW p \in Proposals, Closed(p), NEW h \in Requests, NEW write,
         task[h].kind = "spend", Become(h, [task[h] EXCEPT !.left = @ \ {write}])
  PROVE  /\ Writing(h, p)' => IsClosed(task[h].new)'
         /\ Using(h, p)' => Using(h, p)
<1>1. PICK q \in Proposals, new \in Records, ttl \in Nat, left \in SUBSET {"lock", "record"} :
        task[h] = [kind |-> "spend", proposal |-> q, new |-> new, ttl |-> ttl, left |-> left]
  BY TaskFields
<1>2. task'[h] = [kind |-> "spend", proposal |-> q, new |-> new, ttl |-> ttl,
                  left |-> left \ {write}]
  <2>1. task'[h] = [task[h] EXCEPT !.left = @ \ {write}]
    BY DEF Become, TypeOK
  <2> QED BY <1>1, <2>1
<1>3. q = p => IsClosed(new)
  BY <1>1 DEF Closed, Writing
<1> QED BY <1>1, <1>2, <1>3 DEF Writing, Using, IsClosed

(* What is in flight for a closed proposal writes it closed again, and no read *)
(* finds a record a vote or a use could start from.                           *)
LEMMA ClosedStep ==
  ASSUME TypeOK, Next, NEW p \in Proposals, Closed(p)
  PROVE  Closed(p)' /\ \A h \in Requests : Using(h, p)' => Using(h, p)
<1> USE DEF history, store, older
<1> DEFINE Calm(h) == /\ Writing(h, p)' => IsClosed(task[h].new)'
                      /\ Using(h, p)' => Using(h, p)
           Shut == \A record \in Versions(p)' : IsClosed(record)
           Goal == Closed(p)' /\ \A h \in Requests : Using(h, p)' => Using(h, p)
<1>1. \A h \in Requests : task'[h] = task[h] => Calm(h)
  BY DEF Closed, Writing, Using, IsClosed
<1>2. ASSUME Shut, \A h \in Requests : Calm(h)
      PROVE  Goal
  BY <1>2 DEF Closed, IsClosed
<1>3. ASSUME NEW h \in Requests, \A k \in Requests \ {h} : task'[k] = task[k], Calm(h)
      PROVE  \A k \in Requests : Calm(k)
  BY <1>1, <1>3
<1>4. ASSUME Versions(p)' \subseteq Versions(p)
      PROVE  Shut
  BY <1>4 DEF Closed
<1>5. ASSUME UNCHANGED <<rec, olderRecs>>
      PROVE  Shut
  BY <1>4, <1>5 DEF Versions
<1>6. \A record \in ReadOf(p) : IsClosed(record)
  BY DEF ReadOf, Closed
<1> HIDE DEF Calm, Shut, Goal
<1>7. ASSUME NEW q \in Proposals, NEW life \in Lifetimes, Propose(q, life)
      PROVE  Goal
  <2>1. q # p
    BY <1>7 DEF Propose, Closed, Versions, IsClosed
  <2>2. Versions(p)' \subseteq Versions(p) /\ UNCHANGED task
    BY <1>7, <2>1 DEF Propose, Versions, TypeOK
  <2> QED BY <1>1, <1>2, <1>4, <2>2
<1>8. ASSUME NEW h \in Requests, NEW q \in Proposals, NEW vote, VoteBegin(h, q, vote)
      PROVE  Goal
  <2>1. PICK seen \in ReadOf(q) :
          /\ OpenToVotes(seen)
          /\ task' = [task EXCEPT ![h] =
               [kind |-> "vote", proposal |-> q, vote |-> vote, new |-> Voted(q, seen, vote),
                ttl |-> TimeToLive(seen.expires)]]
    BY <1>8 DEF VoteBegin, Become
  <2>2. q # p
    BY <1>6, <2>1 DEF OpenToVotes, IsClosed
  <2>3. Calm(h) /\ \A k \in Requests \ {h} : task'[k] = task[k]
    BY <2>1, <2>2 DEF TypeOK, Calm, Writing, Using
  <2>4. UNCHANGED <<rec, olderRecs>>
    BY <1>8 DEF VoteBegin
  <2> QED BY <1>2, <1>3, <1>5, <2>3, <2>4
<1>9. ASSUME NEW h \in Requests, VoteCommit(h) \/ PutRecord(h)
      PROVE  Goal
  <2>1. PICK q \in Proposals : q = task[h].proposal
    BY <1>9, TaskFields DEF VoteCommit, PutRecord
  <2>2. PICK new \in Records, ttl \in Nat : new = task[h].new /\ ttl = task[h].ttl
    BY <1>9, TaskFields DEF VoteCommit, PutRecord
  <2>3. q = p => IsClosed(new)
    BY <1>9, <2>1, <2>2 DEF VoteCommit, PutRecord, Closed, Writing
  <2>4. PutRec(q, new, ttl)
    BY <1>9, <2>1, <2>2 DEF VoteCommit, PutRecord
  <2>5. Shut
    <3>1. Versions(q)' \subseteq Versions(q) \cup {new}
          /\ \A r \in Proposals \ {q} : Versions(r)' = Versions(r)
      BY <2>4, PutRecAddsOne
    <3> QED BY <2>3, <3>1 DEF Shut, Closed
  <2>6. \A k \in Requests \ {h} : task'[k] = task[k]
    BY <1>9 DEF VoteCommit, PutRecord, Become, TypeOK
  <2>7. CASE VoteCommit(h)
    <3>1. task'[h] = Idle
      BY <2>7 DEF VoteCommit, Become, TypeOK
    <3>2. Calm(h)
      BY <3>1 DEF Calm, Writing, Using, Idle
    <3> QED BY <1>2, <1>3, <2>5, <2>6, <3>2
  <2>8. CASE PutRecord(h)
    <3>1. Calm(h)
      BY <2>8, SpendStaysCalm DEF PutRecord, Calm
    <3> QED BY <1>2, <1>3, <2>5, <2>6, <3>1
  <2> QED BY <1>9, <2>7, <2>8
<1>10. ASSUME NEW h \in Requests, NEW q \in Proposals,
              GateProxy(h, q) \/ \E d \in Demands : GateVerify(h, q, d)
       PROVE  Goal
  <2>1. /\ task' = [task EXCEPT ![h] = [kind |-> "gated", proposal |-> q]]
        /\ UNCHANGED <<rec, olderRecs>>
    BY <1>10 DEF GateProxy, GateVerify, Become
  <2>2. Calm(h) /\ \A k \in Requests \ {h} : task'[k] = task[k]
    BY <2>1 DEF TypeOK, Calm, Writing, Using
  <2> QED BY <1>2, <1>3, <1>5, <2>1, <2>2
<1>11. ASSUME NEW h \in Requests, ConsumeRead(h)
       PROVE  Goal
  <2>1. PICK q \in Proposals : q = task[h].proposal
    BY <1>11, TaskFields DEF ConsumeRead
  <2>2. PICK seen \in ReadOf(q) :
          /\ seen.status = "APPROVED"
          /\ task' = [task EXCEPT ![h] = [kind |-> "claim", proposal |-> q, seen |-> seen]]
    BY <1>11, <2>1 DEF ConsumeRead, Become
  <2>3. q # p
    BY <1>6, <2>2 DEF IsClosed
  <2>4. Calm(h) /\ \A k \in Requests \ {h} : task'[k] = task[k]
    BY <2>2, <2>3 DEF TypeOK, Calm, Writing, Using
  <2>5. UNCHANGED <<rec, olderRecs>>
    BY <1>11 DEF ConsumeRead
  <2> QED BY <1>2, <1>3, <1>5, <2>4, <2>5
<1>12. ASSUME NEW h \in Requests, ConsumeCheck(h)
       PROVE  Goal
  <2>1. PICK q \in Proposals, seen \in Records :
          q = task[h].proposal /\ seen = task[h].seen
    BY <1>12, TaskFields DEF ConsumeCheck
  <2>2. PICK ttl : task' = [task EXCEPT ![h] =
          [kind |-> "spend", proposal |-> q, new |-> [seen EXCEPT !.status = "CONSUMED"],
           ttl |-> ttl, left |-> {"lock", "record"}]]
    BY <1>12, <2>1 DEF ConsumeCheck, Become
  <2>3. IsClosed([seen EXCEPT !.status = "CONSUMED"])
    BY <2>1 DEF Records, IsClosed
  <2>4. Calm(h) /\ \A k \in Requests \ {h} : task'[k] = task[k]
    BY <1>12, <2>1, <2>2, <2>3 DEF ConsumeCheck, TypeOK, Calm, Writing, Using, IsClosed
  <2>5. UNCHANGED <<rec, olderRecs>>
    BY <1>12 DEF ConsumeCheck
  <2> QED BY <1>2, <1>3, <1>5, <2>4, <2>5
<1>13. ASSUME NEW h \in Requests, PutLock(h)
       PROVE  Goal
  <2>1. Calm(h) /\ \A k \in Requests \ {h} : task'[k] = task[k]
    BY <1>13, SpendStaysCalm DEF PutLock, Become, TypeOK, Calm
  <2>2. UNCHANGED <<rec, olderRecs>>
    BY <1>13 DEF PutLock
  <2> QED BY <1>2, <1>3, <1>5, <2>1, <2>2
<1>14. ASSUME NEW h \in Requests, Use(h) \/ Abandon(h)
       PROVE  Goal
  <2>1. task' = [task EXCEPT ![h] = Idle] /\ UNCHANGED <<rec, olderRecs>>
    BY <1>14 DEF Use, Abandon, Become
  <2>2. Calm(h) /\ \A k \in Requests \ {h} : task'[k] = task[k]
    BY <2>1 DEF TypeOK, Idle, Calm, Writing, Using
  <2> QED BY <1>2, <1>3, <1>5, <2>1, <2>2
<1>15. ASSUME Tick
       PROVE  Goal
  <2>1. Versions(p)' \subseteq Versions(p) /\ UNCHANGED task
    BY <1>15, TickForgets DEF Tick
  <2> QED BY <1>1, <1>2, <1>4, <2>1
<1> QED
  BY <1>7, <1>8, <1>9, <1>10, <1>11, <1>12, <1>13, <1>14, <1>15 DEF Next, Goal

(* Once every read finds a rejection or a use, and no vote from before it is in *)
(* flight, it is final: no sequence of votes, uses, failures and lapses reopens *)
(* the proposal or lets a further request get as far as using it.               *)
THEOREM ClosedStaysClosed == Spec => ClosedForGood
<1>1. TypeOK /\ [Next]_vars => [\A p \in Proposals : StaysClosed(p)]_vars
  BY ClosedStep DEF StaysClosed
<1> QED BY <1>1, TypeCorrect, PTL DEF Spec, ClosedForGood

---------------------------------------------------------------------------
(* What is written back after a use carries the approvals the gate counted, *)
(* one for each of as many people, so no action passes on fewer.            *)
THEOREM UsesAlwaysEndorsed == Spec => UsesAreEndorsed
<1>1. Init => SoundInv /\ VotersFinite
  <2>1. Init => VotersFinite
    BY FS_EmptySet DEF Init, VotersFinite, Decisions
  <2> QED BY <2>1, InitSound
<1>2. TypeOK /\ SoundInv /\ VotersFinite /\ [Next]_vars => SoundInv' /\ VotersFinite'
  BY SoundStep, VotersStayFinite
<1>3. TypeOK /\ SoundInv /\ VotersFinite /\ [Next]_vars =>
        [\A p \in Proposals : UseEndorsed(p)]_vars
  <2> SUFFICES ASSUME TypeOK, SoundInv, VotersFinite, Next, NEW p \in Proposals,
                      uses'[p] # uses[p]
               PROVE  Cardinality({who \in voters[p]["APPROVE"] : who # Terms[p].proposer})
                        >= Terms[p].min
    BY DEF UseEndorsed
  <2> DEFINE V == {who \in voters[p]["APPROVE"] : who # Terms[p].proposer}
  <2>1. PICK h \in Requests : Use(h)
    BY HistorySteps
  <2>2. p = task[h].proposal /\ task[h].kind = "spend"
    BY <2>1, TaskFields DEF Use, TypeOK
  <2>3. PICK new \in Records : new = task[h].new
    BY <2>2, TaskFields
  <2>4. Sound(p, new) /\ new.status = "CONSUMED" /\ Backed(p, new.approvals)
    BY <2>2, <2>3 DEF SoundInv, TaskSound
  <2> DEFINE A == Approving(new.approvals)
             Voter == [a \in A |-> a.who]
  <2>5. Voter \in [A -> V]
    BY <2>4 DEF Approving, Backed, Sound, RecordSound, MayVote
  <2>6. \A a, b \in A : Voter[a] = Voter[b] => a = b
    BY <2>4 DEF Approving, Sound, RecordSound
  <2>7. IsFiniteSet(V)
    <3>1. V \in SUBSET voters[p]["APPROVE"]
      OBVIOUS
    <3> QED BY <3>1, FS_Subset DEF VotersFinite
  <2>8. Voter \in Injection(A, V)
    BY <2>5, <2>6 DEF Injection, IsInjective
  <2> HIDE DEF Voter
  <2>9. Cardinality(A) <= Cardinality(V) /\ IsFiniteSet(A)
    BY <2>7, <2>8, FS_Injection
  <2>10. Cardinality(A) \in Nat /\ Cardinality(V) \in Nat /\ Terms[p].min \in Nat
    BY <2>7, <2>9, FS_CardinalityType, QuorumAssumption DEF TermSet
  <2>11. Cardinality(A) >= Terms[p].min
    BY <2>4 DEF Sound, RecordSound
  <2> HIDE DEF A, V
  <2>12. Cardinality(V) >= Terms[p].min
    BY <2>9, <2>10, <2>11
  <2> QED BY <2>12 DEF V
<1> QED BY <1>1, <1>2, <1>3, TypeCorrect, PTL DEF Spec, UsesAreEndorsed
====
