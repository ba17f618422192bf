-------------------------- MODULE ChatCompletions --------------------------
(***************************************************************************)
(* The chat proxy (src/src/proxy/index.ts, POST /v1/chat/completions): the *)
(* prompt is checked, sent to a model, and the tool calls the model        *)
(* answers with are inspected one after the other; the first that fails a  *)
(* check refuses the whole answer.  A sensitive call needs the proposal    *)
(* the request names to be approved for exactly that call, and spends it.  *)
(*                                                                         *)
(* At every wait other requests proceed, votes arrive, entries are added   *)
(* to the denylist.  The loop detector (EdgeCircuitBreaker) and the        *)
(* lookups in the lists (SanctionsScreening) are here one step each, and   *)
(* of a proposal (QuorumProposals) what this handler reads and writes: its *)
(* status, its action and its lock.  The Worker has its stores configured. *)
(***************************************************************************)
EXTENDS FiniteSets, Sequences, SequencesExt

CONSTANTS
  Chats,        \* requests, each made once
  Proposals,    \* proposal ids, random
  ToolCalls,    \* tool calls a model may make, up to canonical JSON
  LeakyCalls,   \* those whose arguments hold a secret
  ListedCalls,  \* those that name a built-in sanctioned entity
  SensitiveCalls, \* those of a tool that needs dual control
  Replies,      \* the sequences of tool calls a model answers with
  NoProposal    \* stands for the id of no proposal

ASSUME ChatAssumption ==
  /\ ToolCalls # {}
  /\ LeakyCalls \cup ListedCalls \cup SensitiveCalls \subseteq ToolCalls
  /\ Replies \subseteq Seq(ToolCalls)
  /\ NoProposal \notin Proposals

VARIABLES
  chat,      \* what each request has come to
  proposal,  \* the record of each proposal
  lock,      \* proposals marked as used under their second key
  voting,    \* votes that have read a proposal's record and not written theirs
  approvals, \* history: proposals whose votes reached their number, with the action
  barred     \* tool calls that name an entity of the denylist in KV

chatVars == <<chat, proposal, lock, voting, approvals, barred>>

Refusals ==
  {"rejected", "SECRET_LEAK_PREVENTED", "CIRCUIT_TRIPPED", "SANCTIONED_ENTITY_MATCH",
   "SANCTIONS_50_RULE_VIOLATION", "PROPOSAL_NOT_FOUND", "PROPOSAL_ALREADY_CONSUMED",
   "PROPOSAL_EXPIRED", "QUORUM_ACTION_MISMATCH", "QUORUM_REQUIRED", "upstream_failed"}

ChatTypeOK ==
  /\ chat \in [Chats ->
       [stage : {"idle", "prompt", "upstream", "inspecting", "looping", "screening", "gated",
                 "claiming", "locking", "spending", "done"},
        answer : {"none", "STREAMED", "PASSED", "lost"} \cup Refusals,
        supplied : Proposals \cup {NoProposal},
        stream : BOOLEAN,
        reply : Replies \cup {<<>>},
        passed : Nat,
        unwritten : SUBSET {"lock", "record"},
        spent : SUBSET Proposals,
        barred : SUBSET ToolCalls]]
  /\ proposal \in [Proposals ->
       [status : {"ABSENT", "PENDING", "APPROVED", "REJECTED", "CONSUMED"},
        action : ToolCalls, expired : BOOLEAN]]
  /\ lock \subseteq Proposals
  /\ voting \subseteq Proposals
  /\ approvals \subseteq Proposals \X ToolCalls
  /\ barred \subseteq ToolCalls

NewChat ==
  [stage |-> "idle", answer |-> "none", supplied |-> NoProposal, stream |-> FALSE,
   reply |-> <<>>, passed |-> 0, unwritten |-> {}, spent |-> {}, barred |-> {}]

ChatInit ==
  /\ chat = [c \in Chats |-> NewChat]
  /\ proposal = [p \in Proposals |->
       [status |-> "ABSENT", action |-> CHOOSE t \in ToolCalls : TRUE, expired |-> FALSE]]
  /\ lock = {} /\ voting = {} /\ approvals = {} /\ barred = {}

At(c, stage) == chat[c].stage = stage

Goes(c, stage) == chat' = [chat EXCEPT ![c].stage = stage]

Ends(c, answer) == chat' = [chat EXCEPT ![c].stage = "done", ![c].answer = answer]

\* The tool call under inspection, and whether there is one.
Current(c) == chat[c].reply[chat[c].passed + 1]

Inspects(c) == chat[c].passed < Len(chat[c].reply)

\* Every check of the current call passed.
NextCall(c) == chat' = [chat EXCEPT ![c].stage = "inspecting", ![c].passed = @ + 1]

StoresUnchanged == UNCHANGED <<proposal, lock, voting, approvals, barred>>

---------------------------------------------------------------------------
(* Before the model.                                                       *)

\* Not authenticated, out of quota, not a chat request.
Reject(c) == At(c, "idle") /\ Ends(c, "rejected") /\ StoresUnchanged

\* The messages are scanned for secrets before anything else is done with them.
Arrive(c, supplied, stream, leaky) ==
  /\ At(c, "idle")
  /\ IF leaky
     THEN Ends(c, "SECRET_LEAK_PREVENTED")
     ELSE chat' = [chat EXCEPT ![c].stage = "prompt", ![c].supplied = supplied,
                               ![c].stream = stream]
  /\ StoresUnchanged

PromptTrips(c) == At(c, "prompt") /\ Ends(c, "CIRCUIT_TRIPPED") /\ StoresUnchanged

\* The upstream's URL is not allowed, or the answer is to be streamed and tools are offered.
RefuseUpstream(c) == At(c, "prompt") /\ Ends(c, "rejected") /\ StoresUnchanged

SendUpstream(c) == At(c, "prompt") /\ Goes(c, "upstream") /\ StoresUnchanged

\* No connection, a redirect, an error, a body that is not JSON.
ModelFails(c) == At(c, "upstream") /\ Ends(c, "upstream_failed") /\ StoresUnchanged

\* A streamed answer is handed on as it comes.
ModelAnswers(c, reply) ==
  /\ At(c, "upstream")
  /\ IF chat[c].stream
     THEN reply = <<>> /\ Ends(c, "STREAMED")
     ELSE chat' = [chat EXCEPT ![c].stage = "inspecting", ![c].reply = reply,
                               ![c].barred = barred]
  /\ StoresUnchanged

---------------------------------------------------------------------------
(* One tool call: secrets, then loops, then sanctions.                     *)

InspectArguments(c) ==
  /\ At(c, "inspecting")
  /\ Inspects(c)
  /\ IF Current(c) \in LeakyCalls THEN Ends(c, "SECRET_LEAK_PREVENTED") ELSE Goes(c, "looping")
  /\ StoresUnchanged

CheckLoop(c, tripped) ==
  /\ At(c, "looping")
  /\ IF tripped THEN Ends(c, "CIRCUIT_TRIPPED") ELSE Goes(c, "screening")
  /\ StoresUnchanged

BlockedCalls == ListedCalls \cup barred

\* A lookup that fails is a match; then come the owners that the arguments declare.
ScreenCall(c, fails, owned) ==
  /\ At(c, "screening")
  /\ IF fails \/ Current(c) \in BlockedCalls THEN Ends(c, "SANCTIONED_ENTITY_MATCH")
     ELSE IF owned THEN Ends(c, "SANCTIONS_50_RULE_VIOLATION")
     ELSE IF Current(c) \in SensitiveCalls THEN Goes(c, "gated")
     ELSE NextCall(c)
  /\ StoresUnchanged

---------------------------------------------------------------------------
(* The quorum gate.                                                        *)

\* Mutant: an approval holds for any call.
ForActionAny(p, call) == TRUE

ForAction(p, call) == proposal[p].action = call

\* The request names no proposal, or one that is still open or was rejected: a new one
\* is created for the call.
CreateProposal(c) ==
  /\ At(c, "gated")
  /\ chat[c].supplied # NoProposal =>
       LET p == chat[c].supplied IN
       /\ ForAction(p, Current(c))
       /\ \/ proposal[p].status = "PENDING" /\ ~proposal[p].expired
          \/ proposal[p].status = "REJECTED" /\ ~proposal[p].expired
  /\ \E new \in Proposals :
       /\ proposal[new].status = "ABSENT"
       /\ proposal' = [proposal EXCEPT ![new].status = "PENDING", ![new].action = Current(c)]
  /\ Ends(c, "QUORUM_REQUIRED")
  /\ UNCHANGED <<lock, voting, approvals, barred>>

\* What is wrong with the proposal a request names, in the order the code looks.
Objection(p, call) ==
  CASE proposal[p].status = "ABSENT" -> "PROPOSAL_NOT_FOUND"
    [] proposal[p].status = "CONSUMED" -> "PROPOSAL_ALREADY_CONSUMED"
    [] proposal[p].expired -> "PROPOSAL_EXPIRED"
    [] ~ForAction(p, call) -> "QUORUM_ACTION_MISMATCH"
    [] OTHER -> "none"

ReadProposal(c) ==
  LET p == chat[c].supplied IN
  /\ At(c, "gated")
  /\ p # NoProposal
  /\ IF Objection(p, Current(c)) # "none"
     THEN Ends(c, Objection(p, Current(c)))
     ELSE proposal[p].status = "APPROVED" /\ Goes(c, "claiming")
  /\ StoresUnchanged

\* consumeQuorumProposal reads the record once more, and then the lock.
ClaimProposal(c) ==
  LET p == chat[c].supplied IN
  /\ At(c, "claiming")
  /\ IF proposal[p].status = "APPROVED" /\ ForAction(p, Current(c))
     THEN Goes(c, "locking")
     ELSE Ends(c, "PROPOSAL_ALREADY_CONSUMED")
  /\ StoresUnchanged

\* Mutant: the lock is not read.
LockedNot(p) == FALSE

Locked(p) == p \in lock

ReadLock(c) ==
  /\ At(c, "locking")
  /\ IF Locked(chat[c].supplied)
     THEN Ends(c, "PROPOSAL_ALREADY_CONSUMED")
     ELSE chat' = [chat EXCEPT ![c].stage = "spending", ![c].unwritten = {"lock", "record"}]
  /\ StoresUnchanged

\* The two writes go out together and arrive in either order.
WriteLock(c) ==
  /\ At(c, "spending")
  /\ "lock" \in chat[c].unwritten
  /\ lock' = lock \cup {chat[c].supplied}
  /\ chat' = [chat EXCEPT ![c].unwritten = @ \ {"lock"}]
  /\ UNCHANGED <<proposal, voting, approvals, barred>>

WriteRecord(c) ==
  /\ At(c, "spending")
  /\ "record" \in chat[c].unwritten
  /\ proposal' = [proposal EXCEPT ![chat[c].supplied].status = "CONSUMED"]
  /\ chat' = [chat EXCEPT ![c].unwritten = @ \ {"record"},
                          ![c].spent = @ \cup {chat[c].supplied}]
  /\ UNCHANGED <<lock, voting, approvals, barred>>

CallApproved(c) ==
  /\ At(c, "spending")
  /\ chat[c].unwritten = {}
  /\ NextCall(c)
  /\ StoresUnchanged

\* No call is left: the answer, with a receipt.
Deliver(c) ==
  /\ At(c, "inspecting")
  /\ ~Inspects(c)
  /\ Ends(c, "PASSED")
  /\ StoresUnchanged

\* A store throws, or the Worker or the connection is gone: nothing is left of the request
\* but what it wrote.
Lose(c) ==
  /\ chat[c].stage \notin {"idle", "done"}
  /\ chat' = [chat EXCEPT ![c] = [NewChat EXCEPT !.stage = "done", !.answer = "lost"]]
  /\ StoresUnchanged

---------------------------------------------------------------------------
(* What others do meanwhile (QuorumProposals, SanctionsScreening).         *)

\* The vote that makes the number has read the record ...
BeginVote(p) ==
  /\ proposal[p].status \in {"PENDING", "APPROVED"}
  /\ ~proposal[p].expired
  /\ voting' = voting \cup {p}
  /\ UNCHANGED <<chat, proposal, lock, approvals, barred>>

\* ... and writes what it made of it over whatever is there by then.
EndVote(p, status) ==
  /\ p \in voting
  /\ voting' = voting \ {p}
  /\ proposal' = [proposal EXCEPT ![p].status = status]
  /\ approvals' = approvals \cup (IF status = "APPROVED" THEN {<<p, proposal[p].action>>} ELSE {})
  /\ UNCHANGED <<chat, lock, barred>>

Expire(p) ==
  /\ proposal[p].status # "ABSENT"
  /\ proposal' = [proposal EXCEPT ![p].expired = TRUE]
  /\ UNCHANGED <<chat, lock, voting, approvals, barred>>

Bar(call) ==
  /\ barred' = barred \cup {call}
  /\ UNCHANGED <<chat, proposal, lock, voting, approvals>>

---------------------------------------------------------------------------

ChatStep(c) ==
  \/ Reject(c)
  \/ \E supplied \in Proposals \cup {NoProposal}, stream, leaky \in BOOLEAN :
       Arrive(c, supplied, stream, leaky)
  \/ PromptTrips(c)
  \/ RefuseUpstream(c)
  \/ SendUpstream(c)
  \/ ModelFails(c)
  \/ \E reply \in Replies \cup {<<>>} : ModelAnswers(c, reply)
  \/ InspectArguments(c)
  \/ \E tripped \in BOOLEAN : CheckLoop(c, tripped)
  \/ \E fails, owned \in BOOLEAN : ScreenCall(c, fails, owned)
  \/ CreateProposal(c)
  \/ ReadProposal(c)
  \/ ClaimProposal(c)
  \/ ReadLock(c)
  \/ WriteLock(c)
  \/ WriteRecord(c)
  \/ CallApproved(c)
  \/ Deliver(c)
  \/ Lose(c)

ChatNext ==
  \/ \E c \in Chats : ChatStep(c)
  \/ \E p \in Proposals : BeginVote(p)
  \/ \E p \in Proposals, status \in {"PENDING", "APPROVED", "REJECTED"} : EndVote(p, status)
  \/ \E p \in Proposals : Expire(p)
  \/ \E call \in ToolCalls : Bar(call)

ChatSpec == ChatInit /\ [][ChatNext]_chatVars

---------------------------------------------------------------------------
(* Properties.                                                             *)

SensitiveIn(reply) == {i \in DOMAIN reply : reply[i] \in SensitiveCalls}

\* An answer that is delivered as PASSED is vetted as a whole: no call of it holds a secret
\* or names an entity that was listed when the model answered, and it has at most one
\* sensitive call, which the votes on the proposal the request named approved: two never
\* pass on one approval, not even when a slow vote reopens the record in between.
DeliveredVetted ==
  \A c \in Chats :
    LET sensitive == SensitiveIn(chat[c].reply) IN
    chat[c].answer = "PASSED" =>
      /\ ToSet(chat[c].reply) \cap (LeakyCalls \cup ListedCalls \cup chat[c].barred) = {}
      /\ Cardinality(sensitive) <= 1
      /\ \A i \in sensitive : <<chat[c].supplied, chat[c].reply[i]>> \in approvals

\* An approval is spent only on the call it was given for, and when the answer that spent
\* it is refused after all, it is refused for a later call of the same answer.
ApprovalsAccounted ==
  \A c \in Chats : \A p \in chat[c].spent : \E i \in DOMAIN chat[c].reply :
    /\ chat[c].reply[i] = proposal[p].action
    /\ chat[c].answer \in Refusals => i <= chat[c].passed /\ chat[c].passed < Len(chat[c].reply)
=============================================================================
