-------------------------- MODULE QuorumProposals --------------------------
(***************************************************************************)
(* Dual control: proposals, approvals and their single use, kept in a      *)
(* key-value store without transactions (src/src/core/quorum.ts), and the  *)
(* two gates that spend an approved proposal: POST /v1/verify              *)
(* (transport/http.ts) and the chat proxy (proxy/index.ts).                *)
(*                                                                         *)
(* Every operation reads the proposal's record, awaits, and writes a whole *)
(* record back; nothing compares what it overwrites.  A use is also marked *)
(* under a second key, the lock.  Each key is written atomically, and      *)
(* lapses after the time to live of its last write; but a read elsewhere   *)
(* than the last write may return, for a while, what that write replaced.  *)
(***************************************************************************)
EXTENDS Integers, FiniteSets

CONSTANTS
  Proposals,    \* proposal ids: random, each created at most once
  People,       \* the ids of agents and approvers
  Requests,     \* requests the service can have in flight at once
  Terms,        \* a proposal's proposer, required approvals and who may approve
  Distinct,     \* the pairs of people whose owners count as distinct
  Demands,      \* constraints a verification request can carry
  Lifetimes,    \* ttl_seconds a proposal can be created with
  Dates,        \* timestamps an approver can send with a vote
  Second,       \* ticks of the clock in a second
  MinTTL,       \* shortest time to live the store accepts (60 s)
  Lag,          \* how long after a write a read may miss it: 0 is never
  LastProposal, \* bound: no proposal is created after this time
  MaxOlder,     \* bound: how many overwritten records can be readable at once
  MaxUses,      \* bound: no request begins once a proposal has been used so often
  MaxTime       \* bound: the clock stops here

TermSet == [proposer : People, min : Nat \ {0}, allowed : SUBSET People,
            distinct : BOOLEAN]
DemandSet == [agent : People, min : Nat \ {0}, allowed : SUBSET People,
              distinct : BOOLEAN, maxAge : Nat]

ASSUME QuorumAssumption ==
  /\ Terms \in [Proposals -> TermSet]
  /\ Demands \subseteq DemandSet
  /\ Distinct \subseteq People \X People
  /\ Second \in Nat \ {0}
  /\ MinTTL \in Nat
  /\ Second <= MinTTL
  /\ Lag \in Nat
  /\ Lifetimes \subseteq Nat
  /\ Dates \subseteq Nat
  /\ LastProposal \in Nat
  /\ MaxOlder \in Nat
  /\ MaxUses \in Nat
  /\ MaxTime \in Nat

VARIABLES
  now,        \* the clock
  rec,        \* key quorum:proposal:<id>
  recUntil,   \* and the time it is readable until
  lockUntil,  \* key quorum:consumed:<id>: the time it is readable until
  olderRecs,  \* the values of the first key that a read may still return
  olderLocks, \* and those of the second
  task,       \* what each request in flight has read and still has to write
  voters,     \* history: whose APPROVE, or REJECT, a proposal has accepted
  uses,       \* history: how often a proposal has let an action through
  firstUse,   \* history: when it did so for the first time
  late        \* history: whether a request began once that was seen everywhere

older == <<olderRecs, olderLocks>>
store == <<rec, recUntil, lockUntil, older>>
history == <<voters, uses, firstUse, late>>
vars == <<now, store, task, history>>

Decisions == {"APPROVE", "REJECT"}
Approvals == [who : People, decision : Decisions, at : Nat]
Records == [status : {"ABSENT", "PENDING", "APPROVED", "REJECTED", "CONSUMED"},
            approvals : SUBSET Approvals, expires : Nat]
OlderRecs == [record : Records, until : Nat, over : Nat]
OlderLocks == [until : Nat, over : Nat]
NoRecord == [status |-> "ABSENT", approvals |-> {}, expires |-> 0]

Idle == [kind |-> "idle"]
Tasks ==
  {Idle}
  \cup [kind : {"vote"}, proposal : Proposals, vote : Approvals, new : Records, ttl : Nat]
  \cup [kind : {"gated"}, proposal : Proposals]
  \cup [kind : {"claim"}, proposal : Proposals, seen : Records]
  \cup [kind : {"spend"}, proposal : Proposals, new : Records, ttl : Nat,
        left : SUBSET {"lock", "record"}]

TypeOK ==
  /\ now \in Nat
  /\ rec \in [Proposals -> Records]
  /\ recUntil \in [Proposals -> Nat]
  /\ lockUntil \in [Proposals -> Nat]
  /\ olderRecs \in [Proposals -> SUBSET OlderRecs]
  /\ olderLocks \in [Proposals -> SUBSET OlderLocks]
  /\ task \in [Requests -> Tasks]
  /\ voters \in [Proposals -> [Decisions -> SUBSET People]]
  /\ uses \in [Proposals -> Nat]
  /\ firstUse \in [Proposals -> Nat]
  /\ late \in [Requests -> BOOLEAN]

Init ==
  /\ now = 1
  /\ rec = [p \in Proposals |-> NoRecord]
  /\ recUntil = [p \in Proposals |-> 0]
  /\ lockUntil = [p \in Proposals |-> 0]
  /\ olderRecs = [p \in Proposals |-> {}]
  /\ olderLocks = [p \in Proposals |-> {}]
  /\ task = [h \in Requests |-> Idle]
  /\ voters = [p \in Proposals |-> [d \in Decisions |-> {}]]
  /\ uses = [p \in Proposals |-> 0]
  /\ firstUse = [p \in Proposals |-> 0]
  /\ late = [h \in Requests |-> FALSE]

---------------------------------------------------------------------------
(* Helpers.                                                                *)

\* The overwritten versions of a key that a read at time t may still return.
StillRead(versions, t) == {v \in versions : t < v.over + Lag}

\* The proposal's record and those it has replaced of late.
Versions(p) == {rec[p]} \cup {v.record : v \in olderRecs[p]}

\* What a read of the proposal may return, when it finds one.
ReadOf(p) ==
  {record \in Versions(p) :
     /\ record.status # "ABSENT"
     /\ \/ record = rec[p] /\ now < recUntil[p]
        \/ \E v \in olderRecs[p] : v.record = record /\ now < v.until}

\* Mutant: only the record says whether a proposal has been used.
LockedNever(p) == FALSE

\* Every read finds the lock.
Locked(p) == now < lockUntil[p] /\ \A v \in olderLocks[p] : now < v.until

\* Whole seconds from now to a time, but at least the store's minimum.
TimeToLive(expires) ==
  LET whole == ((expires - now) \div Second) * Second IN
  IF whole > MinTTL THEN whole ELSE MinTTL

Approving(approvals) == {a \in approvals : a.decision = "APPROVE"}

\* Mutant: a repeated vote is added beside the voter's earlier one.
WithVoteAdded(approvals, vote) == approvals \cup {vote}

\* A vote replaces the voter's earlier one.
WithVote(approvals, vote) == {a \in approvals : a.who # vote.who} \cup {vote}

\* The record with one more vote: one rejection rejects, enough approvals approve.
Voted(p, record, vote) ==
  LET approvals == WithVote(record.approvals, vote) IN
  [record EXCEPT
     !.approvals = approvals,
     !.status = IF vote.decision = "REJECT" THEN "REJECTED"
                ELSE IF Cardinality(Approving(approvals)) >= Terms[p].min THEN "APPROVED"
                ELSE @]

\* Mutant: the proposer may vote.
MayVoteAnyone(p, who) == who \in Terms[p].allowed

\* Mutant: a rejected proposal can be voted on again.
OpenToVotesRejected(record) == record.status # "CONSUMED"

\* A rejected or used proposal takes no more votes.
OpenToVotes(record) == record.status \in {"PENDING", "APPROVED"}

\* Whose votes recordQuorumApproval accepts.
MayVote(p, who) ==
  /\ who # Terms[p].proposer
  /\ who \in Terms[p].allowed
  /\ Terms[p].distinct => <<who, Terms[p].proposer>> \in Distinct

\* evaluateQuorum: the stored approvals satisfy the demand the request itself carries.
\* Stale approvals, and those of the agent's own owner, do not count.
Satisfies(record, d) ==
  LET fresh == {a \in record.approvals : now <= a.at + d.maxAge}
      valid == {a \in fresh : d.distinct => <<a.who, d.agent>> \in Distinct}
  IN
  /\ record.status # "CONSUMED"
  /\ now <= record.expires
  /\ \A a \in record.approvals : a.who # d.agent /\ a.decision = "APPROVE"
  /\ \A a \in fresh : a.who \in d.allowed
  /\ d.min <= Cardinality({a.who : a \in valid})

\* The record of a proposal is overwritten.
PutRec(p, record, ttl) ==
  /\ rec' = [rec EXCEPT ![p] = record]
  /\ recUntil' = [recUntil EXCEPT ![p] = now + ttl]
  /\ olderRecs' = [olderRecs EXCEPT ![p] = StillRead(
       @ \cup {[record |-> rec[p], until |-> recUntil[p], over |-> now]}, now)]
  /\ Cardinality(olderRecs'[p]) <= MaxOlder

\* Every read sees that the proposal has been used.
UsedBefore(p) == uses[p] > 0 /\ firstUse[p] + Lag <= now

Become(h, next) == task' = [task EXCEPT ![h] = next]

---------------------------------------------------------------------------
(* Proposals and votes.  A request names the action it is for; one that is *)
(* for another action than the proposal's is refused wherever the record   *)
(* is read, with no effect, and is left out.                               *)

\* createQuorumProposal: nobody knows the id before the record is written.  A read that
\* misses this write finds no proposal, and its request is refused.
Propose(p, life) ==
  /\ rec[p].status = "ABSENT"
  /\ now <= LastProposal
  /\ rec' = [rec EXCEPT ![p] = [status |-> "PENDING", approvals |-> {},
                                expires |-> now + life]]
  /\ recUntil' = [recUntil EXCEPT ![p] = now + IF life > MinTTL THEN life ELSE MinTTL]
  /\ UNCHANGED <<now, lockUntil, older, task, history>>

\* recordQuorumApproval up to its put: the new record is built from the one just
\* read.
VoteBegin(h, p, vote) ==
  /\ task[h] = Idle
  /\ MayVote(p, vote.who)
  /\ \E seen \in ReadOf(p) :
       /\ now <= seen.expires
       /\ OpenToVotes(seen)
       /\ Become(h, [kind |-> "vote", proposal |-> p, vote |-> vote,
                     new |-> Voted(p, seen, vote), ttl |-> TimeToLive(seen.expires)])
  /\ UNCHANGED <<now, store, history>>

VoteCommit(h) ==
  LET p == task[h].proposal IN
  /\ task[h].kind = "vote"
  /\ PutRec(p, task[h].new, task[h].ttl)
  /\ voters' = [voters EXCEPT ![p][task[h].vote.decision] = @ \cup {task[h].vote.who}]
  /\ Become(h, Idle)
  /\ UNCHANGED <<now, lockUntil, olderLocks, uses, firstUse, late>>

---------------------------------------------------------------------------
(* Using an approved proposal.                                             *)

\* handleVerify's pipeline, whose other checks allow the action.
GateVerify(h, p, d) ==
  /\ task[h] = Idle
  /\ uses[p] < MaxUses
  /\ \E seen \in ReadOf(p) : Satisfies(seen, d)
  /\ Become(h, [kind |-> "gated", proposal |-> p])
  /\ late' = [late EXCEPT ![h] = UsedBefore(p)]
  /\ UNCHANGED <<now, store, voters, uses, firstUse>>

\* The chat proxy's gate on a sensitive tool call.
GateProxy(h, p) ==
  /\ task[h] = Idle
  /\ uses[p] < MaxUses
  /\ \E seen \in ReadOf(p) : seen.status = "APPROVED" /\ now <= seen.expires
  /\ Become(h, [kind |-> "gated", proposal |-> p])
  /\ late' = [late EXCEPT ![h] = UsedBefore(p)]
  /\ UNCHANGED <<now, store, voters, uses, firstUse>>

\* consumeQuorumProposal: the record is read again; its expiry is not checked again.
ConsumeRead(h) ==
  LET p == task[h].proposal IN
  /\ task[h].kind = "gated"
  /\ \E seen \in ReadOf(p) :
       /\ seen.status = "APPROVED"
       /\ Become(h, [kind |-> "claim", proposal |-> p, seen |-> seen])
  /\ UNCHANGED <<now, store, history>>

\* Then the lock is read, and the two writes are sent together.
ConsumeCheck(h) ==
  LET p == task[h].proposal
      seen == task[h].seen
  IN
  /\ task[h].kind = "claim"
  /\ ~Locked(p)
  /\ Become(h, [kind |-> "spend", proposal |-> p,
                new |-> [seen EXCEPT !.status = "CONSUMED"],
                ttl |-> TimeToLive(seen.expires), left |-> {"lock", "record"}])
  /\ UNCHANGED <<now, store, history>>

PutLock(h) ==
  LET p == task[h].proposal IN
  /\ task[h].kind = "spend"
  /\ "lock" \in task[h].left
  /\ lockUntil' = [lockUntil EXCEPT ![p] = now + task[h].ttl]
  /\ olderLocks' = [olderLocks EXCEPT ![p] = StillRead(
       @ \cup {[until |-> lockUntil[p], over |-> now]}, now)]
  /\ Become(h, [task[h] EXCEPT !.left = @ \ {"lock"}])
  /\ UNCHANGED <<now, rec, recUntil, olderRecs, history>>

PutRecord(h) ==
  /\ task[h].kind = "spend"
  /\ "record" \in task[h].left
  /\ PutRec(task[h].proposal, task[h].new, task[h].ttl)
  /\ Become(h, [task[h] EXCEPT !.left = @ \ {"record"}])
  /\ UNCHANGED <<now, lockUntil, olderLocks, history>>

\* Both writes have returned: the caller lets the action through.
Use(h) ==
  LET p == task[h].proposal IN
  /\ task[h].kind = "spend"
  /\ task[h].left = {}
  /\ uses' = [uses EXCEPT ![p] = @ + 1]
  /\ firstUse' = [firstUse EXCEPT ![p] = IF uses[p] = 0 THEN now ELSE @]
  /\ Become(h, Idle)
  /\ UNCHANGED <<now, store, voters, late>>

---------------------------------------------------------------------------
\* A check refuses the request, the store fails, or the Worker dies, between any two
\* of its steps.
Abandon(h) ==
  /\ task[h] # Idle
  /\ Become(h, Idle)
  /\ UNCHANGED <<now, store, history>>

Tick ==
  /\ now < MaxTime
  /\ now' = now + 1
  /\ olderRecs' = [p \in Proposals |-> StillRead(olderRecs[p], now')]
  /\ olderLocks' = [p \in Proposals |-> StillRead(olderLocks[p], now')]
  /\ UNCHANGED <<rec, recUntil, lockUntil, task, history>>

Next ==
  \/ \E p \in Proposals, life \in Lifetimes : Propose(p, life)
  \/ \E h \in Requests :
       \/ \E p \in Proposals :
            \/ \E who \in People, decision \in Decisions, at \in Dates :
                 VoteBegin(h, p, [who |-> who, decision |-> decision, at |-> at])
            \/ \E d \in Demands : GateVerify(h, p, d)
            \/ GateProxy(h, p)
       \/ VoteCommit(h)
       \/ ConsumeRead(h)
       \/ ConsumeCheck(h)
       \/ PutLock(h)
       \/ PutRecord(h)
       \/ Use(h)
       \/ Abandon(h)
  \/ Tick

Spec == Init /\ [][Next]_vars

---------------------------------------------------------------------------
(* Properties.                                                             *)

\* A record agrees with itself: one vote per person, all of them from people who may
\* vote; a rejection rejects; an approved or used proposal has the required approvals.
RecordSound(p, record) ==
  /\ \A a, b \in record.approvals : a.who = b.who => a = b
  /\ \A a \in record.approvals : MayVote(p, a.who)
  /\ record.status = "REJECTED" <=> \E a \in record.approvals : a.decision = "REJECT"
  /\ record.status \in {"APPROVED", "CONSUMED"} =>
       Cardinality(Approving(record.approvals)) >= Terms[p].min
  /\ record.status = "PENDING" => ~(Cardinality(Approving(record.approvals)) >= Terms[p].min)

\* However the writes overtake one another, and whatever a read misses, every record
\* a read can return is one that some single sequence of votes produces: votes may be
\* lost, never invented.
RecordsSound ==
  \A p \in Proposals : \A record \in Versions(p) :
    /\ RecordSound(p, record)
    /\ \A a \in record.approvals : a.who \in voters[p][a.decision]

\* No action passes on fewer than the required approvals, each sent by another person
\* than the proposer, whatever was lost, overwritten or repeated on the way.
UseEndorsed(p) ==
  uses'[p] # uses[p] =>
    Cardinality({who \in voters[p]["APPROVE"] : who # Terms[p].proposer}) >= Terms[p].min
UsesAreEndorsed == [][\A p \in Proposals : UseEndorsed(p)]_vars

\* A request that begins once every read sees that a proposal has been used never uses
\* it again, not even when a slow vote writes the record back to APPROVED: the lock
\* outlives the record's validity, up to the second the time to live is rounded down by.
PassesLockLate(h) == task[h].kind = "claim" /\ task'[h].kind = "spend" /\ late[h]
ReplayBounded ==
  [][\A h \in Requests : PassesLockLate(h) => now + Second > task[h].seen.expires]_vars

\* Once every read finds a proposal rejected or used, only a vote that was computed
\* from an older read can reopen it: without one in flight it stays closed, whatever
\* uses are still in flight, and no further request gets as far as using it.
IsClosed(record) == record.status \in {"REJECTED", "CONSUMED"}
Writing(h, p) == task[h].kind \in {"vote", "spend"} /\ task[h].proposal = p
Using(h, p) == task[h].kind \in {"claim", "spend"} /\ task[h].proposal = p
Closed(p) ==
  /\ \A record \in Versions(p) : IsClosed(record)
  /\ \A h \in Requests : Writing(h, p) => IsClosed(task[h].new)
StaysClosed(p) ==
  Closed(p) => /\ Closed(p)'
               /\ \A h \in Requests : Using(h, p)' => Using(h, p)
ClosedForGood == [][\A p \in Proposals : StaysClosed(p)]_vars

\* "Marks an approved quorum proposal as CONSUMED so it cannot be re-executed or
\* replayed": no proposal lets two actions through.
SingleUse == \A p \in Proposals : uses[p] <= 1
====
