---------------------------- MODULE McpToolProxy ----------------------------
(***************************************************************************)
(* The MCP enforcement proxy (src/packages/mcp-proxy/src): it stands       *)
(* between an agent and an MCP server, has every tool call verified by     *)
(* Vizier and forwards the allowed ones.                                   *)
(*                                                                         *)
(* A call passes the checks of one POST, the allowlist and the loop        *)
(* detector, then waits for the grant, for the verdict and for the         *)
(* upstream server; at each wait other calls proceed.  The detector's      *)
(* history is shared by all calls and lives as long as the process.        *)
(*                                                                         *)
(* External: the service that judges calls, the file that holds the grant, *)
(* and the upstream server, which may perform a call long after the proxy  *)
(* gave up on it.  An answer of the service may be one for another call.   *)
(***************************************************************************)
EXTENDS ServiceClock, FiniteSets

CONSTANTS
  Calls,        \* the POSTs of a behaviour, each made once
  Tools,        \* tool names an agent may name
  AllowedTools, \* the proxy's allowlist
  Arguments,    \* arguments of a tool call, up to canonical JSON
  MaxRepeats,   \* circuitBreaker.maxRepeats
  Window,       \* circuitBreaker.windowMs
  GrantTerm,    \* how long a grant is still in force when it is loaded, at most
  Crashes,      \* bound: how often the process may crash
  None          \* stands for what is not there

Never == -1

\* What an agent is told when its call went no further.
NotForwarded == {"not_served", "tripped", "unavailable", "denied"}

ASSUME McpAssumption ==
  /\ IsFiniteSet(Calls)
  /\ AllowedTools \subseteq Tools
  /\ MaxRepeats \in Nat \ {0}
  /\ Window \in Nat
  /\ GrantTerm \in Nat
  /\ None \notin NotForwarded \cup {"result"}

VARIABLES
  options,     \* of the process, or None before it is started
  callHistory, \* the calls the loop detector remembers
  call,        \* what each call has come to
  verdict,     \* the service's judgement of each call, or None
  sent,        \* when each call was handed to the upstream server
  executed,    \* calls the upstream server performed
  crashes

mcpVars == <<options, callHistory, call, verdict, sent, executed, crashes>>

Signatures == Tools \X Arguments

Stages == {"idle", "hashing", "loading", "verifying", "listing", "forwarding", "done"}

Answers == NotForwarded \cup {None, "tools", "result", "upstream_failed", "disconnected"}

CallRecord ==
  [stage : Stages, answer : Answers, signature : Signatures, at : Int, grant : Int]

McpTypeOK ==
  /\ options \in {None} \cup [strict : BOOLEAN, grant : BOOLEAN, breaker : BOOLEAN]
  /\ callHistory \subseteq Calls
  /\ call \in [Calls -> CallRecord]
  /\ verdict \in [Calls -> {None} \cup [allow : BOOLEAN, signed : BOOLEAN]]
  /\ sent \in [Calls -> Int]
  /\ executed \subseteq Calls
  /\ crashes \in Nat

McpInit ==
  /\ options = None
  /\ callHistory = {}
  /\ call \in [Calls -> {[stage |-> "idle", answer |-> None, at |-> Never, grant |-> Never,
                          signature |-> CHOOSE s \in Signatures : TRUE]}]
  /\ verdict = [c \in Calls |-> None]
  /\ sent = [c \in Calls |-> Never]
  /\ executed = {}
  /\ crashes = 0

Awaits(c, stage) == call[c].stage = stage

MovesTo(c, stage) == call' = [call EXCEPT ![c].stage = stage]

AnswersWith(c, answer) == call' = [call EXCEPT ![c].stage = "done", ![c].answer = answer]

---------------------------------------------------------------------------
(* Starting the process.                                                   *)

RawOptions ==
  [requireSignedGrant : {"unset", "true", "false"}, grant : BOOLEAN, breaker : BOOLEAN]

\* The command line is strict when told so or given a grant, and sets no loop detector.
loadConfig(required, grantFile) ==
  [requireSignedGrant |-> IF required \/ grantFile THEN "true" ELSE "false",
   grant |-> grantFile, breaker |-> FALSE]

\* Unless told, the proxy is strict when it has a grant.
normalizeOptions(raw) ==
  [strict  |-> IF raw.requireSignedGrant = "unset" THEN raw.grant
               ELSE raw.requireSignedGrant = "true",
   grant   |-> raw.grant,
   breaker |-> raw.breaker]

\* Strict mode without a grant is refused.
Start(raw) ==
  /\ options = None
  /\ normalizeOptions(raw).strict => raw.grant
  /\ options' = normalizeOptions(raw)
  /\ UNCHANGED <<callHistory, call, verdict, sent, executed, crashes>>

StartFromCommandLine ==
  \E required, grantFile \in BOOLEAN : Start(loadConfig(required, grantFile))

StartEmbedded == \E raw \in RawOptions : Start(raw)

\* The process dies with its history and connections, and is started again.
Crash ==
  /\ options # None
  /\ crashes < Crashes
  /\ crashes' = crashes + 1
  /\ callHistory' = {}
  /\ call' = [c \in Calls |->
       IF call[c].stage \in {"idle", "done"} THEN [call[c] EXCEPT !.at = Never]
       ELSE [call[c] EXCEPT !.stage = "done", !.answer = "disconnected", !.at = Never]]
  /\ UNCHANGED <<options, verdict, sent, executed>>

---------------------------------------------------------------------------
(* One POST up to its first wait.                                          *)

Fresh(c) ==
  /\ options # None
  /\ Awaits(c, "idle")
  /\ UNCHANGED <<options, callHistory, verdict, sent, executed, crashes>>

\* A foreign origin, another HTTP method, a wrong token, an unreadable body, headers that
\* contradict it, invalid arguments; a method that is not served, or discovery, which is
\* answered without the upstream server.
NotServed(c) == Fresh(c) /\ AnswersWith(c, "not_served")

ListTools(c) == Fresh(c) /\ MovesTo(c, "listing")

CallTool(c, tool, argument) ==
  /\ Fresh(c)
  /\ IF tool \notin AllowedTools
     THEN AnswersWith(c, "not_served")
     ELSE call' = [call EXCEPT ![c].signature = <<tool, argument>>,
                               ![c].stage = IF options.breaker THEN "hashing" ELSE "loading"]

---------------------------------------------------------------------------
(* The loop detector: one step, from the hash to the next wait.            *)

\* Mutant: a call exactly one window old is forgotten.
WithinExclusive(h, t) == {d \in h : call[d].at > t - Window}

Within(h, t) == {d \in h : call[d].at >= t - Window}

Remembered == Within(callHistory, now)

Alike(c) == {d \in Remembered : call[d].signature = call[c].signature}

Detect(c) ==
  /\ Awaits(c, "hashing")
  /\ IF Cardinality(Alike(c)) >= MaxRepeats
     THEN /\ callHistory' = Remembered
          /\ AnswersWith(c, "tripped")
     ELSE /\ callHistory' = Remembered \cup {c}
          /\ call' = [call EXCEPT ![c].at = now, ![c].stage = "loading"]
  /\ UNCHANGED <<options, verdict, sent, executed, crashes>>

---------------------------------------------------------------------------
(* Verification.                                                           *)

\* The grant is read anew for every call: term is what is left of it.
LoadGrant(c, term) ==
  /\ Awaits(c, "loading")
  /\ options.grant
  /\ call' = [call EXCEPT ![c].grant = now + term, ![c].stage = "verifying"]
  /\ UNCHANGED <<options, callHistory, verdict, sent, executed, crashes>>

WithoutGrant(c) ==
  /\ Awaits(c, "loading")
  /\ ~options.grant
  /\ MovesTo(c, "verifying")
  /\ UNCHANGED <<options, callHistory, verdict, sent, executed, crashes>>

\* The grant cannot be read, or the service failed, timed out or made no sense.
VerificationFails(c) ==
  /\ call[c].stage \in {"loading", "verifying"}
  /\ AnswersWith(c, "unavailable")
  /\ UNCHANGED <<options, callHistory, verdict, sent, executed, crashes>>

\* The service judges the call; signed: under a grant in force of the proxy's principal
\* to the proxy's agent.  REVIEW is like BLOCK.
Judge(c, allow, signed) ==
  /\ Awaits(c, "verifying")
  /\ verdict[c] = None
  /\ signed => call[c].grant > now
  /\ verdict' = [verdict EXCEPT ![c] = [allow |-> allow, signed |-> signed]]
  /\ UNCHANGED <<options, callHistory, call, sent, executed, crashes>>

\* Mutant: the expiry of the grant is left to the service.
ProvesAnyTime(d, c) == d = c /\ verdict[d].signed

\* The receipt of d's verdict proves the delegation of call c: its request hash is c's,
\* which holds c's id, time and arguments.
Proves(d, c) == d = c /\ verdict[d].signed /\ call[d].grant > now

\* The answer given for d reaches c, whose wait is not over.
Decide(c, d) ==
  /\ Awaits(c, "verifying")
  /\ verdict[d] # None
  /\ IF verdict[d].allow /\ (options.strict => Proves(d, c))
     THEN MovesTo(c, "forwarding") /\ sent' = [sent EXCEPT ![c] = now]
     ELSE AnswersWith(c, "denied") /\ UNCHANGED sent
  /\ UNCHANGED <<options, callHistory, verdict, executed, crashes>>

---------------------------------------------------------------------------
(* The upstream server.                                                    *)

\* It performs what it was sent, now or later, or never.
Execute(c) ==
  /\ sent[c] # Never
  /\ c \notin executed
  /\ executed' = executed \cup {c}
  /\ UNCHANGED <<options, callHistory, call, verdict, sent, crashes>>

\* Mutant: one handler for verification and forwarding.
ForwardingFailedUnsaid == "unavailable"

\* What a call is told whose forwarding ended without a valid response.
ForwardingFailed == "upstream_failed"

\* A timeout, a redirect, a network failure, a response that is not for this call.
UpstreamFails(c) ==
  /\ call[c].stage \in {"listing", "forwarding"}
  /\ AnswersWith(c, IF Awaits(c, "listing") THEN "upstream_failed" ELSE ForwardingFailed)
  /\ UNCHANGED <<options, callHistory, verdict, sent, executed, crashes>>

\* A valid response: of a listing, filtered to the allowed tools, or of a performed call.
UpstreamAnswers(c) ==
  /\ \/ Awaits(c, "listing") /\ AnswersWith(c, "tools")
     \/ Awaits(c, "forwarding") /\ c \in executed /\ AnswersWith(c, "result")
  /\ UNCHANGED <<options, callHistory, verdict, sent, executed, crashes>>

---------------------------------------------------------------------------

ProcessStep ==
  \/ StartFromCommandLine
  \/ StartEmbedded
  \/ Crash

CallStep(c) ==
  \/ NotServed(c)
  \/ ListTools(c)
  \/ \E tool \in Tools, argument \in Arguments : CallTool(c, tool, argument)
  \/ Detect(c)
  \/ \E term \in 0..GrantTerm : LoadGrant(c, term)
  \/ WithoutGrant(c)
  \/ VerificationFails(c)
  \/ \E allow, signed \in BOOLEAN : Judge(c, allow, signed)
  \/ \E d \in Calls : Decide(c, d)
  \/ Execute(c)
  \/ UpstreamFails(c)
  \/ UpstreamAnswers(c)

McpStep == ProcessStep \/ \E c \in Calls : CallStep(c)

McpNext ==
  \/ McpStep /\ UNCHANGED now
  \/ Advance /\ UNCHANGED mcpVars

McpSpec == McpInit /\ ClockInit /\ [][McpNext]_<<now, mcpVars>>

---------------------------------------------------------------------------
(* Properties.                                                             *)

\* The calls identical to c let past the loop detector in the window c begins.
Repetitions(c) ==
  {d \in Calls : /\ call[d].at \in call[c].at..(call[c].at + Window)
                 /\ call[d].signature = call[c].signature}

\* In one life of the process no window has more than MaxRepeats identical calls past the
\* loop detector, however their waits interleave and whatever became of them.
LoopBound ==
  \A c \in Calls : call[c].at # Never => Cardinality(Repetitions(c)) <= MaxRepeats

\* An agent told that its call was not forwarded can make it again: the upstream server
\* has not performed it and never will.  One told a result has it.
AnswersHonest ==
  \A c \in Calls :
    /\ call[c].answer \in NotForwarded => sent[c] = Never /\ c \notin executed
    /\ call[c].answer = "result" => c \in executed

\* A strict proxy hands over, and the upstream server performs, only calls that the service
\* allowed by name under a grant that was still in force when they were sent.
ForwardsVetted ==
  \A c \in Calls :
    /\ c \in executed => sent[c] # Never
    /\ options # None /\ options.strict /\ sent[c] # Never =>
         verdict[c] # None /\ verdict[c].allow /\ verdict[c].signed /\ call[c].grant > sent[c]
=============================================================================
