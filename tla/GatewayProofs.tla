--------------------------- MODULE GatewayProofs ---------------------------
(***************************************************************************)
(* Theorems about what stands between an agent and the world: the MCP      *)
(* enforcement proxy, the chat proxy and sanctions screening.              *)
(*                                                                         *)
(* McpToolProxy, for any number of calls, tools and arguments, any limit   *)
(* and window of the loop detector, and any crashes.                       *)
(*                                                                         *)
(* ChatCompletions, for any chats, proposals, replies and votes that       *)
(* satisfy ChatAssumption: the invariant says what each stage has made     *)
(* sure of the call it inspects, and of the calls that have passed.        *)
(*                                                                         *)
(* SanctionsScreening, for any lists, requests and graphs of ownership     *)
(* that satisfy ScreeningAssumption.  Sums over owners and the rule's      *)
(* depths are recursive functions; induction on them goes by the least     *)
(* counterexample (LeastOf).                                               *)
(***************************************************************************)
EXTENDS McpToolProxy, ChatCompletions, SanctionsScreening, WellFoundedInduction,
        FiniteSetTheorems, TLAPS

---------------------------------------------------------------------------
(* The MCP enforcement proxy: types.                                       *)

TypeInv == McpTypeOK /\ now \in Nat

LEMMA NeverIsNoTime == Never = -1 /\ Never \in Int
BY DEF Never

LEMMA StageNames ==
  /\ "idle" \in Stages /\ "hashing" \in Stages /\ "loading" \in Stages
  /\ "verifying" \in Stages /\ "listing" \in Stages /\ "forwarding" \in Stages
  /\ "done" \in Stages
BY DEF Stages

LEMMA AnswerNames ==
  /\ None \in Answers /\ "not_served" \in Answers /\ "tripped" \in Answers
  /\ "unavailable" \in Answers /\ "denied" \in Answers /\ "tools" \in Answers
  /\ "result" \in Answers /\ "upstream_failed" \in Answers
  /\ "disconnected" \in Answers /\ ForwardingFailed \in Answers
BY DEF Answers, NotForwarded, ForwardingFailed

\* Initially everything has its type.
LEMMA TypeInit ==
  ASSUME McpInit, ClockInit, Signatures # {}
  PROVE  TypeInv
<1>1. (CHOOSE s \in Signatures : TRUE) \in Signatures
  OBVIOUS
<1> QED
  BY <1>1, NeverIsNoTime, StageNames, AnswerNames
     DEF McpInit, ClockInit, TypeInv, McpTypeOK, CallRecord

\* The two ways a step of a call changes its record most often.
LEMMA StageTyped ==
  ASSUME McpTypeOK, NEW c \in Calls, NEW s \in Stages, MovesTo(c, s)
  PROVE  call' \in [Calls -> CallRecord]
<1>1. [call[c] EXCEPT !.stage = s] \in CallRecord
  BY DEF McpTypeOK, CallRecord
<1> QED
  BY <1>1 DEF MovesTo, McpTypeOK

LEMMA AnswerTyped ==
  ASSUME McpTypeOK, NEW c \in Calls, NEW a \in Answers, AnswersWith(c, a)
  PROVE  call' \in [Calls -> CallRecord]
<1>1. [[call[c] EXCEPT !.stage = "done"] EXCEPT !.answer = a] \in CallRecord
  BY StageNames DEF McpTypeOK, CallRecord
<1> QED
  BY <1>1 DEF AnswersWith, McpTypeOK

\* Every step of the process or of a call keeps every type.
LEMMA TypeStep ==
  ASSUME McpAssumption, TypeInv, [McpNext]_<<now, mcpVars>>
  PROVE  TypeInv'
<1> USE NeverIsNoTime, StageNames, AnswerNames
<1>0. McpTypeOK /\ now \in Nat
  BY DEF TypeInv
<1>1. CASE UNCHANGED <<now, mcpVars>>
  BY <1>1 DEF McpTypeOK, mcpVars, TypeInv
<1>2. CASE Advance /\ UNCHANGED mcpVars
  BY <1>2 DEF McpTypeOK, mcpVars, Advance, TypeInv
<1>3. ASSUME ProcessStep
      PROVE  McpTypeOK'
  <2>1. ASSUME NEW raw \in RawOptions, Start(raw)
        PROVE  McpTypeOK'
    BY <1>0, <2>1 DEF Start, McpTypeOK, normalizeOptions, RawOptions
  <2>2. ASSUME NEW required \in BOOLEAN, NEW grantFile \in BOOLEAN,
               Start(loadConfig(required, grantFile))
        PROVE  McpTypeOK'
    <3>1. loadConfig(required, grantFile) \in RawOptions
      BY DEF loadConfig, RawOptions
    <3> QED
      BY <3>1, <2>1, <2>2
  <2>3. CASE Crash
    <3>1. /\ crashes' = crashes + 1 /\ callHistory' = {}
          /\ UNCHANGED <<options, verdict, sent, executed>>
      BY <2>3 DEF Crash
    <3>2. call' \in [Calls -> CallRecord]
      <4>1. ASSUME NEW c \in Calls
            PROVE  /\ [call[c] EXCEPT !.at = Never] \in CallRecord
                   /\ [call[c] EXCEPT !.stage = "done", !.answer = "disconnected",
                                      !.at = Never] \in CallRecord
        <5>1. call[c] \in CallRecord
          BY <1>0 DEF McpTypeOK
        <5> QED
          BY <5>1 DEF CallRecord
      <4> QED
        BY <2>3, <4>1 DEF Crash
    <3>3. crashes' \in Nat
      BY <1>0, <3>1 DEF McpTypeOK
    <3> QED
      BY <1>0, <3>1, <3>2, <3>3 DEF McpTypeOK
  <2> QED
    BY <1>3, <2>1, <2>2, <2>3 DEF ProcessStep, StartFromCommandLine, StartEmbedded
<1>4. ASSUME NEW c \in Calls, CallStep(c), UNCHANGED now
      PROVE  McpTypeOK'
  <2>0. call[c] \in CallRecord
    BY <1>0 DEF McpTypeOK
  <2>1. CASE NotServed(c)
    <3>1. call' \in [Calls -> CallRecord]
      BY <1>0, <2>1, AnswerTyped DEF NotServed
    <3> QED
      BY <1>0, <2>1, <3>1 DEF NotServed, Fresh, McpTypeOK
  <2>2. CASE ListTools(c)
    <3>1. call' \in [Calls -> CallRecord]
      BY <1>0, <2>2, StageTyped DEF ListTools
    <3> QED
      BY <1>0, <2>2, <3>1 DEF ListTools, Fresh, McpTypeOK
  <2>3. ASSUME NEW tool \in Tools, NEW argument \in Arguments, CallTool(c, tool, argument)
        PROVE  McpTypeOK'
    <3>1. call' \in [Calls -> CallRecord]
      <4>1. CASE tool \notin AllowedTools
        BY <1>0, <2>3, <4>1, AnswerTyped DEF CallTool
      <4>2. CASE tool \in AllowedTools
        <5>1. PICK s \in Stages : s = IF options.breaker THEN "hashing" ELSE "loading"
          OBVIOUS
        <5>2. call' = [call EXCEPT ![c].signature = <<tool, argument>>, ![c].stage = s]
          BY <2>3, <4>2, <5>1 DEF CallTool
        <5>3. <<tool, argument>> \in Signatures /\ s \in Stages
          BY <2>3, <5>1 DEF Signatures
        <5>4. [[call[c] EXCEPT !.signature = <<tool, argument>>] EXCEPT !.stage = s]
                \in CallRecord
          BY <2>0, <5>3 DEF CallRecord
        <5>5. call' = [call EXCEPT ![c] =
                [[call[c] EXCEPT !.signature = <<tool, argument>>] EXCEPT !.stage = s]]
          BY <1>0, <5>2 DEF McpTypeOK
        <5> QED
          BY <1>0, <5>4, <5>5 DEF McpTypeOK
      <4> QED
        BY <4>1, <4>2
    <3> QED
      BY <1>0, <2>3, <3>1 DEF CallTool, Fresh, McpTypeOK
  <2>4. CASE Detect(c)
    <3>1. call' \in [Calls -> CallRecord] /\ callHistory' \subseteq Calls
      <4>1. CASE Cardinality(Alike(c)) >= MaxRepeats
        BY <1>0, <2>4, <4>1, AnswerTyped DEF Detect, Remembered, Within, McpTypeOK
      <4>2. CASE ~(Cardinality(Alike(c)) >= MaxRepeats)
        <5>1. /\ call' = [call EXCEPT ![c].at = now, ![c].stage = "loading"]
              /\ callHistory' = Remembered \cup {c}
          BY <2>4, <4>2 DEF Detect
        <5>3. now \in Int
          BY <1>0
        <5>4. [call[c] EXCEPT !.at = now] \in CallRecord
          BY <2>0, <5>3 DEF CallRecord
        <5>2. [[call[c] EXCEPT !.at = now] EXCEPT !.stage = "loading"] \in CallRecord
          BY <5>4 DEF CallRecord
        <5> QED
          BY <1>0, <5>1, <5>2 DEF Remembered, Within, McpTypeOK
      <4> QED
        BY <4>1, <4>2
    <3> QED
      BY <1>0, <2>4, <3>1 DEF Detect, McpTypeOK
  <2>5. ASSUME NEW term \in 0..GrantTerm, LoadGrant(c, term)
        PROVE  McpTypeOK'
    <3>1. PICK g \in Int : g = now + term
      BY <1>0, <2>5 DEF McpAssumption
    <3>2. /\ call' = [call EXCEPT ![c].grant = g, ![c].stage = "verifying"]
          /\ UNCHANGED <<options, callHistory, verdict, sent, executed, crashes>>
      BY <2>5, <3>1 DEF LoadGrant
    <3>3. g \in Int
      BY <3>1
    <3>4. [[call[c] EXCEPT !.grant = g] EXCEPT !.stage = "verifying"] \in CallRecord
      BY <2>0, <3>3 DEF CallRecord
    <3>5. call' = [call EXCEPT ![c] =
                     [[call[c] EXCEPT !.grant = g] EXCEPT !.stage = "verifying"]]
      BY <1>0, <3>2 DEF McpTypeOK
    <3> QED
      BY <1>0, <3>2, <3>4, <3>5 DEF McpTypeOK
  <2>6. CASE WithoutGrant(c)
    <3>1. call' \in [Calls -> CallRecord]
      BY <1>0, <2>6, StageTyped DEF WithoutGrant
    <3> QED
      BY <1>0, <2>6, <3>1 DEF WithoutGrant, McpTypeOK
  <2>7. CASE VerificationFails(c)
    <3>1. call' \in [Calls -> CallRecord]
      BY <1>0, <2>7, AnswerTyped DEF VerificationFails
    <3> QED
      BY <1>0, <2>7, <3>1 DEF VerificationFails, McpTypeOK
  <2>8. ASSUME NEW allow \in BOOLEAN, NEW signed \in BOOLEAN, Judge(c, allow, signed)
        PROVE  McpTypeOK'
    BY <1>0, <2>8 DEF Judge, McpTypeOK
  <2>9. ASSUME NEW d \in Calls, Decide(c, d)
        PROVE  McpTypeOK'
    <3>1. call' \in [Calls -> CallRecord] /\ sent' \in [Calls -> Int]
      <4>1. CASE verdict[d].allow /\ (options.strict => Proves(d, c))
        BY <1>0, <2>9, <4>1, StageTyped DEF Decide, McpTypeOK
      <4>2. CASE ~(verdict[d].allow /\ (options.strict => Proves(d, c)))
        BY <1>0, <2>9, <4>2, AnswerTyped DEF Decide, McpTypeOK
      <4> QED
        BY <4>1, <4>2
    <3> QED
      BY <1>0, <2>9, <3>1 DEF Decide, McpTypeOK
  <2>10. CASE Execute(c)
    BY <1>0, <2>10 DEF Execute, McpTypeOK
  <2>11. CASE UpstreamFails(c)
    <3>1. call' \in [Calls -> CallRecord]
      BY <1>0, <2>11, AnswerTyped DEF UpstreamFails
    <3> QED
      BY <1>0, <2>11, <3>1 DEF UpstreamFails, McpTypeOK
  <2>12. CASE UpstreamAnswers(c)
    <3>1. call' \in [Calls -> CallRecord]
      BY <1>0, <2>12, AnswerTyped DEF UpstreamAnswers
    <3> QED
      BY <1>0, <2>12, <3>1 DEF UpstreamAnswers, McpTypeOK
  <2> QED
    BY <1>4, <2>1, <2>2, <2>3, <2>4, <2>5, <2>6, <2>7, <2>8, <2>9, <2>10, <2>11, <2>12
       DEF CallStep
<1> QED
  BY <1>0, <1>1, <1>2, <1>3, <1>4 DEF McpNext, McpStep, TypeInv

\* The state of the proxy keeps its type.
THEOREM TypeCorrect ==
  ASSUME McpAssumption, Signatures # {}
  PROVE  McpSpec => []McpTypeOK
<1>1. McpInit /\ ClockInit => TypeInv
  BY TypeInit
<1>2. TypeInv /\ [McpNext]_<<now, mcpVars>> => TypeInv'
  BY TypeStep
<1>3. TypeInv => McpTypeOK
  BY DEF TypeInv
<1> QED
  BY <1>1, <1>2, <1>3, PTL DEF McpSpec

---------------------------------------------------------------------------
(* What the agent is told, and what is forwarded.                          *)

\* Nothing is sent before the process runs; what was sent was vetted and is never denied;
\* what was performed was sent.
ForwardInv ==
  /\ options = None => \A c \in Calls : call[c].stage = "idle" /\ sent[c] = Never
  /\ \A c \in Calls :
       /\ sent[c] # Never => call[c].stage \in {"forwarding", "done"}
       /\ call[c].answer \in NotForwarded => sent[c] = Never
       /\ call[c].stage # "done" => call[c].answer = None
       /\ call[c].stage # "forwarding" /\ call[c].stage # "done" => sent[c] = Never
       /\ c \in executed => sent[c] # Never
       /\ call[c].answer = "result" => c \in executed
       /\ options # None /\ options.strict /\ sent[c] # Never =>
            /\ verdict[c] # None
            /\ verdict[c].allow
            /\ verdict[c].signed
            /\ call[c].grant > sent[c]

\* What a crash does to a call.
LEMMA Crashed ==
  ASSUME McpTypeOK, Crash, NEW c \in Calls
  PROVE  /\ call[c].stage \in {"idle", "done"} =>
              call'[c].stage = call[c].stage /\ call'[c].answer = call[c].answer
         /\ call[c].stage \notin {"idle", "done"} =>
              call'[c].stage = "done" /\ call'[c].answer = "disconnected"
         /\ call'[c].grant = call[c].grant
         /\ call'[c].at = Never
<1>1. call[c] \in [stage : Stages, answer : Answers, signature : Signatures,
                  at : Int, grant : Int]
  BY DEF McpTypeOK, CallRecord
<1>2. call'[c] = IF call[c].stage \in {"idle", "done"} THEN [call[c] EXCEPT !.at = Never]
                 ELSE [call[c] EXCEPT !.stage = "done", !.answer = "disconnected", !.at = Never]
  BY DEF Crash
<1>3. CASE call[c].stage \in {"idle", "done"}
  <2>1. call'[c] = [call[c] EXCEPT !.at = Never]
    BY <1>2, <1>3
  <2> QED
    BY <1>1, <1>3, <2>1
<1>4. CASE call[c].stage \notin {"idle", "done"}
  <2>1. call'[c] = [call[c] EXCEPT !.stage = "done", !.answer = "disconnected", !.at = Never]
    BY <1>2, <1>4
  <2> QED
    BY <1>1, <1>4, <2>1
<1> QED
  BY <1>3, <1>4

LEMMA ForwardStep ==
  ASSUME McpAssumption, TypeInv, ForwardInv, [McpNext]_<<now, mcpVars>>
  PROVE  ForwardInv'
<1> USE NeverIsNoTime
<1>1. CASE UNCHANGED <<now, mcpVars>>
  BY <1>1 DEF ForwardInv, mcpVars
<1>2. CASE Advance /\ UNCHANGED mcpVars
  BY <1>2 DEF ForwardInv, mcpVars
<1>3. CASE ProcessStep /\ UNCHANGED now
  <2>1. ASSUME NEW raw, Start(raw)
        PROVE  ForwardInv'
    BY <2>1 DEF Start, ForwardInv, TypeInv, McpTypeOK
  <2>2. CASE Crash
    <3>1. ASSUME NEW c \in Calls
          PROVE  /\ call[c].stage \in {"idle", "done"} =>
                      /\ call'[c].stage = call[c].stage
                      /\ call'[c].answer = call[c].answer
                 /\ call[c].stage \notin {"idle", "done"} =>
                      /\ call'[c].stage = "done"
                      /\ call'[c].answer = "disconnected"
                 /\ call'[c].grant = call[c].grant
      BY <2>2, Crashed DEF TypeInv
    <3>2. UNCHANGED <<options, verdict, sent, executed>>
      BY <2>2 DEF Crash
    <3>3. "disconnected" \notin NotForwarded
      BY DEF NotForwarded
    <3> QED
      BY <3>1, <3>2, <3>3 DEF ForwardInv
  <2> QED
    BY <1>3, <2>1, <2>2 DEF ProcessStep, StartFromCommandLine, StartEmbedded
<1>4. ASSUME NEW c \in Calls, CallStep(c), UNCHANGED now
      PROVE  ForwardInv'
  <2> USE DEF TypeInv, McpTypeOK, CallRecord, Awaits, McpAssumption
  <2>1. CASE NotServed(c) \/ ListTools(c)
    BY <2>1 DEF NotServed, ListTools, Fresh, ForwardInv, MovesTo, AnswersWith
  <2>2. ASSUME NEW tool \in Tools, NEW argument \in Arguments, CallTool(c, tool, argument)
        PROVE  ForwardInv'
    BY <2>2 DEF CallTool, Fresh, ForwardInv, AnswersWith
  <2>3. CASE Detect(c)
    BY <2>3 DEF Detect, ForwardInv, AnswersWith
  <2>4. ASSUME NEW term \in 0..GrantTerm, LoadGrant(c, term)
        PROVE  ForwardInv'
    BY <2>4 DEF LoadGrant, ForwardInv
  <2>5. CASE WithoutGrant(c) \/ VerificationFails(c)
    BY <2>5 DEF WithoutGrant, VerificationFails, ForwardInv, MovesTo, AnswersWith
  <2>6. ASSUME NEW allow \in BOOLEAN, NEW signed \in BOOLEAN, Judge(c, allow, signed)
        PROVE  ForwardInv'
    BY <2>6 DEF Judge, ForwardInv
  <2>7. ASSUME NEW d \in Calls, Decide(c, d)
        PROVE  ForwardInv'
    <3>1. CASE verdict[d].allow /\ (options.strict => Proves(d, c))
      <4>1. /\ call' = [call EXCEPT ![c].stage = "forwarding"]
            /\ sent' = [sent EXCEPT ![c] = now]
            /\ UNCHANGED <<options, callHistory, verdict, executed, crashes>>
            /\ call[c].stage = "verifying"
        BY <2>7, <3>1 DEF Decide, MovesTo
      <4>2. options.strict =>
              verdict[c] # None /\ verdict[c].allow /\ verdict[c].signed /\ call[c].grant > now
        BY <2>7, <3>1 DEF Decide, Proves
      <4>3. /\ sent[c] = Never /\ c \notin executed
            /\ call[c].answer = None
        BY <4>1 DEF ForwardInv
      <4>5. options # None
        BY <1>4, <4>1 DEF ForwardInv
      <4>4. call[c].answer \notin NotForwarded /\ call[c].answer # "result"
        BY <4>3 DEF McpAssumption
      <4> QED
        BY <4>1, <4>2, <4>3, <4>4, <4>5 DEF ForwardInv
    <3>2. CASE ~(verdict[d].allow /\ (options.strict => Proves(d, c)))
      BY <2>7, <3>2 DEF Decide, ForwardInv, AnswersWith
    <3> QED
      BY <3>1, <3>2
  <2>8. CASE Execute(c)
    BY <2>8 DEF Execute, ForwardInv
  <2>9. CASE UpstreamFails(c)
    BY <2>9 DEF UpstreamFails, ForwardingFailed, ForwardInv, AnswersWith, NotForwarded
  <2>10. CASE UpstreamAnswers(c)
    <3>1. CASE Awaits(c, "listing") /\ AnswersWith(c, "tools")
      BY <2>10, <3>1 DEF UpstreamAnswers, ForwardInv, AnswersWith, NotForwarded
    <3>2. CASE Awaits(c, "forwarding") /\ c \in executed /\ AnswersWith(c, "result")
      BY <2>10, <3>2 DEF UpstreamAnswers, ForwardInv, AnswersWith, NotForwarded
    <3> QED
      BY <2>10, <3>1, <3>2 DEF UpstreamAnswers
  <2> QED
    BY <1>4, <2>1, <2>2, <2>3, <2>4, <2>5, <2>6, <2>7, <2>8, <2>9, <2>10 DEF CallStep
<1> QED
  BY <1>1, <1>2, <1>3, <1>4 DEF McpNext, McpStep

LEMMA ForwardAlways ==
  ASSUME McpAssumption, Signatures # {}
  PROVE  McpSpec => [](TypeInv /\ ForwardInv)
<1>1. McpInit /\ ClockInit => TypeInv /\ ForwardInv
  <2> SUFFICES ASSUME McpInit, ClockInit PROVE ForwardInv
    BY TypeInit
  <2>1. TypeInv
    BY TypeInit
  <2>2. \A c \in Calls : call[c].stage = "idle" /\ call[c].answer = None
    BY DEF McpInit
  <2> QED
    BY <2>1, <2>2 DEF McpInit, ForwardInv, McpAssumption
<1>2. TypeInv /\ ForwardInv /\ [McpNext]_<<now, mcpVars>> => TypeInv' /\ ForwardInv'
  BY TypeStep, ForwardStep
<1> QED
  BY <1>1, <1>2, PTL DEF McpSpec

\* An agent that is told its call was not forwarded, or is given a result, is told the
\* truth, whatever timed out and whenever the upstream server acts.
THEOREM AnswersAreHonest ==
  ASSUME McpAssumption, Signatures # {}
  PROVE  McpSpec => []AnswersHonest
<1>1. ForwardInv => AnswersHonest
  BY DEF ForwardInv, AnswersHonest
<1> QED
  BY <1>1, ForwardAlways, PTL

\* A strict proxy lets the upstream server perform only what the service allowed by name
\* under a grant in force when the call was sent.
THEOREM ForwardsAreVetted ==
  ASSUME McpAssumption, Signatures # {}
  PROVE  McpSpec => []ForwardsVetted
<1>1. ForwardInv => ForwardsVetted
  BY DEF ForwardInv, ForwardsVetted
<1> QED
  BY <1>1, ForwardAlways, PTL

---------------------------------------------------------------------------
(* The loop detector.                                                      *)

\* The history holds every call let past within a window of now.
LoopInv ==
  /\ \A c \in Calls :
       /\ call[c].stage \in {"idle", "hashing"} => call[c].at = Never
       /\ call[c].at # Never => call[c].at >= 0 /\ call[c].at <= now
       /\ call[c].at # Never /\ call[c].at >= now - Window => c \in callHistory
  /\ \A c \in callHistory : call[c].at # Never

\* Steps that let no call past leave every window as it was.
LEMMA WindowsKept ==
  ASSUME TypeInv, LoopBound,
         \A d \in Calls : call'[d].at = call[d].at,
         \A d \in Calls : call[d].at # Never => call'[d].signature = call[d].signature,
         Window \in Nat, LoopInv
  PROVE  LoopBound'
<1> SUFFICES ASSUME NEW c \in Calls, call[c].at # Never
             PROVE  Repetitions(c)' = Repetitions(c)
  BY DEF LoopBound
<1>1. ASSUME NEW d \in Calls
      PROVE  call[d].at \in call[c].at..(call[c].at + Window) => call[d].at # Never
  BY NeverIsNoTime DEF TypeInv, McpTypeOK, CallRecord, LoopInv
<1>2. ASSUME NEW d \in Calls
      PROVE  d \in Repetitions(c)' <=> d \in Repetitions(c)
  BY <1>1 DEF Repetitions
<1>3. Repetitions(c) \subseteq Calls /\ Repetitions(c)' \subseteq Calls
  BY DEF Repetitions
<1> QED
  BY <1>2, <1>3

\* A step that leaves the history and the times past the detector alone keeps LoopInv.
LEMMA HistoryKept ==
  ASSUME TypeInv, LoopInv, LoopBound, Window \in Nat,
         callHistory' = callHistory, now' = now,
         \A d \in Calls : call'[d].at = call[d].at,
         \A d \in Calls : call[d].at # Never => call'[d].signature = call[d].signature,
         \A d \in Calls : call'[d].stage \in {"idle", "hashing"} => call[d].at = Never
  PROVE  LoopInv' /\ LoopBound'
<1>1. LoopBound'
  BY WindowsKept
<1>2. LoopInv'
  BY DEF LoopInv, TypeInv, McpTypeOK, CallRecord
<1> QED
  BY <1>1, <1>2

\* The step of the loop detector that lets a call past.
LEMMA DetectPass ==
  ASSUME McpAssumption, TypeInv, LoopInv, LoopBound, UNCHANGED now,
         NEW c \in Calls, Detect(c), Cardinality(Alike(c)) < MaxRepeats
  PROVE  LoopInv' /\ LoopBound'
<1> USE NeverIsNoTime
<1>1. /\ call[c].stage = "hashing"
      /\ callHistory' = Remembered \cup {c}
      /\ call' = [call EXCEPT ![c].at = now, ![c].stage = "loading"]
  <2>1. IsFiniteSet(Alike(c)) /\ Cardinality(Alike(c)) \in Nat
    <3>1. Alike(c) \subseteq Calls
      BY DEF Alike, Remembered, Within, TypeInv, McpTypeOK
    <3> QED
      BY <3>1, FS_Subset, FS_CardinalityType DEF McpAssumption
  <2> QED
    BY <2>1 DEF Detect, Awaits, McpAssumption
<1>2. /\ \A d \in Calls \ {c} : call'[d] = call[d]
      /\ call'[c].at = now /\ call'[c].stage = "loading"
      /\ call'[c].signature = call[c].signature
  BY <1>1 DEF TypeInv, McpTypeOK, CallRecord
<1>3. now \in Nat /\ Window \in Nat /\ MaxRepeats \in Nat
      /\ \A d \in Calls : call[d].at \in Int
  BY DEF TypeInv, McpTypeOK, CallRecord, McpAssumption
<1>4. call[c].at = Never
  BY <1>1 DEF LoopInv
<1>5. \A d \in Calls : call[d].at # Never /\ call[d].at >= now - Window => d \in Remembered
  BY DEF LoopInv, Remembered, Within
<1>6. LoopInv'
  <2>1. ASSUME NEW d \in Calls
        PROVE  /\ call'[d].stage \in {"idle", "hashing"} => call'[d].at = Never
               /\ call'[d].at # Never => call'[d].at >= 0 /\ call'[d].at <= now
               /\ call'[d].at # Never /\ call'[d].at >= now - Window => d \in callHistory'
    <3>1. CASE d = c
      BY <3>1, <1>1, <1>2, <1>3
    <3>2. CASE d # c
      BY <3>2, <1>1, <1>2, <1>5 DEF LoopInv
    <3> QED
      BY <3>1, <3>2
  <2>2. ASSUME NEW d \in callHistory'
        PROVE  call'[d].at # Never
    BY <1>1, <1>2, <1>3 DEF LoopInv, Remembered, Within, TypeInv, McpTypeOK
  <2> QED
    BY <2>1, <2>2 DEF LoopInv
<1>7. \* any window that c joins lies within what the detector remembers
      ASSUME NEW x \in Calls, call'[x].at # Never, c \in Repetitions(x)'
      PROVE  Repetitions(x)' \subseteq Alike(c) \cup {c}
  <2>1. /\ now \in call'[x].at..(call'[x].at + Window)
        /\ call'[x].signature = call[c].signature
    BY <1>2, <1>7 DEF Repetitions
  <2>2. call'[x].at \in Int
    BY <1>2, <1>3
  <2>3. ASSUME NEW d \in Repetitions(x)', d # c
        PROVE  d \in Alike(c)
    <3>1. d \in Calls /\ call[d].at >= call'[x].at /\ call[d].signature = call[c].signature
      BY <2>1, <2>2, <2>3, <1>2, <1>3 DEF Repetitions
    <3>2. call'[x].at >= 0
      BY <1>2, <1>3, <1>7 DEF LoopInv
    <3>3. call[d].at >= now - Window /\ call[d].at # Never
      BY <2>1, <2>2, <3>1, <3>2, <1>3
    <3> QED
      BY <3>1, <3>3, <1>5 DEF Alike
  <2> QED
    BY <2>3
<1>8. IsFiniteSet(Calls)
  BY DEF McpAssumption
<1>9. ASSUME NEW x \in Calls, call'[x].at # Never
      PROVE  Cardinality(Repetitions(x)') <= MaxRepeats
  <2>1. IsFiniteSet(Alike(c)) /\ Cardinality(Alike(c)) \in Nat
    <3>1. Alike(c) \subseteq Calls
      BY DEF Alike, Remembered, Within, TypeInv, McpTypeOK
    <3> QED
      BY <3>1, <1>8, FS_Subset, FS_CardinalityType
  <2>2. CASE c \in Repetitions(x)'
    <3>1. Repetitions(x)' \subseteq Alike(c) \cup {c}
      BY <1>7, <1>9, <2>2
    <3>2. /\ IsFiniteSet(Alike(c) \cup {c})
          /\ Cardinality(Alike(c) \cup {c}) <= Cardinality(Alike(c)) + 1
      <4> DEFINE Others == Alike(c)
      <4>1. IsFiniteSet(Others) /\ Cardinality(Others) \in Nat
        BY <2>1
      <4> HIDE DEF Others
      <4>2. /\ IsFiniteSet(Others \cup {c})
            /\ Cardinality(Others \cup {c}) =
                 IF c \in Others THEN Cardinality(Others) ELSE Cardinality(Others) + 1
        BY <4>1, FS_AddElement
      <4>3. Cardinality(Others \cup {c}) <= Cardinality(Others) + 1
        BY <4>1, <4>2
      <4> QED
        BY <4>2, <4>3 DEF Others
    <3>3. Cardinality(Repetitions(x)') <= Cardinality(Alike(c) \cup {c})
      BY <3>1, <3>2, FS_Subset
    <3>4. Cardinality(Repetitions(x)') \in Nat /\ Cardinality(Alike(c) \cup {c}) \in Nat
      BY <3>1, <3>2, FS_Subset, FS_CardinalityType
    <3> QED
      BY <3>2, <3>3, <3>4, <2>1, <1>3
  <2>3. CASE c \notin Repetitions(x)'
    <3>1. x # c
      <4>1. ASSUME x = c PROVE c \in Repetitions(x)'
        BY <4>1, <1>2, <1>3 DEF Repetitions
      <4> QED
        BY <4>1, <2>3
    <3>2. Repetitions(x)' \subseteq Repetitions(x)
      BY <2>3, <3>1, <1>2 DEF Repetitions
    <3>3. call[x].at # Never
      BY <3>1, <1>2, <1>9
    <3>4. Cardinality(Repetitions(x)) <= MaxRepeats
      BY <3>3 DEF LoopBound
    <3>5. IsFiniteSet(Repetitions(x))
      BY <1>8, FS_Subset DEF Repetitions
    <3>6. Cardinality(Repetitions(x)') <= Cardinality(Repetitions(x))
      BY <3>2, <3>5, FS_Subset
    <3>7. Cardinality(Repetitions(x)') \in Nat /\ Cardinality(Repetitions(x)) \in Nat
      BY <3>2, <3>5, FS_Subset, FS_CardinalityType
    <3> QED
      BY <3>4, <3>6, <3>7, <1>3
  <2> QED
    BY <2>2, <2>3
<1>10. LoopBound'
  BY <1>9 DEF LoopBound
<1> QED
  BY <1>6, <1>10

\* Every step keeps the history and the bound.
LEMMA LoopStep ==
  ASSUME McpAssumption, TypeInv, LoopInv, LoopBound, [McpNext]_<<now, mcpVars>>
  PROVE  LoopInv' /\ LoopBound'
<1> USE NeverIsNoTime
<1> USE DEF Awaits, AnswersWith, MovesTo
<1>0. /\ Window \in Nat
      /\ \A c \in Calls : call[c].stage \in {"idle", "hashing"} => call[c].at = Never
  BY DEF McpAssumption, LoopInv
<1>1. CASE UNCHANGED <<now, mcpVars>>
  BY <1>1, <1>0, HistoryKept DEF mcpVars
<1>2. CASE Advance /\ UNCHANGED mcpVars
  <2>1. LoopBound'
    BY <1>2, <1>0, WindowsKept DEF mcpVars
  <2>2. now' = now + 1 /\ UNCHANGED <<call, callHistory>> /\ now \in Nat
    BY <1>2 DEF Advance, mcpVars, TypeInv
  <2>3. LoopInv'
    BY <2>2, <1>0 DEF LoopInv, TypeInv, McpTypeOK, CallRecord
  <2> QED
    BY <2>1, <2>3
<1>3. CASE ProcessStep /\ UNCHANGED now
  <2>1. ASSUME NEW raw, Start(raw)
        PROVE  LoopInv' /\ LoopBound'
    BY <1>3, <2>1, <1>0, HistoryKept DEF Start
  <2>2. CASE Crash
    <3>1. callHistory' = {} /\ \A c \in Calls : call'[c].at = Never
      <4>1. callHistory' = {}
        BY <2>2 DEF Crash
      <4> QED
        BY <2>2, <4>1, Crashed DEF TypeInv
    <3> QED
      BY <3>1 DEF LoopInv, LoopBound
  <2> QED
    BY <1>3, <2>1, <2>2 DEF ProcessStep, StartFromCommandLine, StartEmbedded
<1>4. ASSUME NEW c \in Calls, CallStep(c), UNCHANGED now
      PROVE  LoopInv' /\ LoopBound'
  <2> USE DEF TypeInv, McpTypeOK, CallRecord
  <2>1. ASSUME callHistory' = callHistory,
               \A d \in Calls : call'[d].at = call[d].at,
               \A d \in Calls : call[d].at # Never => call'[d].signature = call[d].signature,
               \A d \in Calls : call'[d].stage \in {"idle", "hashing"} => call[d].at = Never
        PROVE  LoopInv' /\ LoopBound'
    BY <1>4, <2>1, <1>0, HistoryKept
  <2>2. CASE NotServed(c) \/ ListTools(c)
    BY <2>2, <2>1, <1>0 DEF NotServed, ListTools, Fresh
  <2>3. ASSUME NEW tool \in Tools, NEW argument \in Arguments, CallTool(c, tool, argument)
        PROVE  LoopInv' /\ LoopBound'
    <3>1. call[c].at = Never
      BY <2>3, <1>0 DEF CallTool, Fresh
    <3>2. CASE tool \notin AllowedTools
      BY <2>3, <3>1, <3>2, <2>1, <1>0 DEF CallTool, Fresh
    <3>3. CASE tool \in AllowedTools
      <4>1. PICK s : s = IF options.breaker THEN "hashing" ELSE "loading"
        OBVIOUS
      <4>2. /\ call' = [call EXCEPT ![c].signature = <<tool, argument>>, ![c].stage = s]
            /\ callHistory' = callHistory
        BY <2>3, <3>3, <4>1 DEF CallTool, Fresh
      <4>3. ASSUME NEW d \in Calls
            PROVE  /\ call'[d].at = call[d].at
                   /\ d # c => call'[d] = call[d]
        BY <4>2
      <4> QED
        BY <4>2, <4>3, <3>1, <2>1, <1>0
    <3> QED
      BY <3>2, <3>3
  <2>4. CASE Detect(c)
    <3>1. CASE Cardinality(Alike(c)) < MaxRepeats
      BY <1>4, <2>4, <3>1, DetectPass
    <3>2. CASE ~(Cardinality(Alike(c)) < MaxRepeats)
      <4>1. IsFiniteSet(Alike(c)) /\ Cardinality(Alike(c)) \in Nat
        <5>1. Alike(c) \subseteq Calls
          BY DEF Alike, Remembered, Within
        <5> QED
          BY <5>1, FS_Subset, FS_CardinalityType DEF McpAssumption
      <4>2. /\ callHistory' = Remembered
            /\ call' = [call EXCEPT ![c].stage = "done", ![c].answer = "tripped"]
        BY <2>4, <3>2, <4>1 DEF Detect, McpAssumption
      <4>3. /\ \A d \in Calls : call'[d].at = call[d].at /\ call'[d].signature = call[d].signature
            /\ \A d \in Calls : call'[d].stage \in {"idle", "hashing"} => call[d].at = Never
        BY <4>2, <1>0
      <4>4. LoopBound'
        BY <4>3, <1>0, WindowsKept
      <4>5. LoopInv'
        BY <1>4, <4>2, <4>3, <1>0 DEF LoopInv, Remembered, Within
      <4> QED
        BY <4>4, <4>5
    <3> QED
      BY <3>1, <3>2
  <2>5. ASSUME NEW term \in 0..GrantTerm, LoadGrant(c, term)
        PROVE  LoopInv' /\ LoopBound'
    <3>1. PICK g : g = now + term
      OBVIOUS
    <3>2. /\ call' = [call EXCEPT ![c].grant = g, ![c].stage = "verifying"]
          /\ callHistory' = callHistory
      BY <2>5, <3>1 DEF LoadGrant
    <3> QED
      BY <3>2, <2>1, <1>0
  <2>6. CASE WithoutGrant(c)
    BY <2>6, <2>1, <1>0 DEF WithoutGrant
  <2>11. CASE VerificationFails(c)
    BY <2>11, <2>1, <1>0 DEF VerificationFails
  <2>7. ASSUME NEW allow \in BOOLEAN, NEW signed \in BOOLEAN, Judge(c, allow, signed)
        PROVE  LoopInv' /\ LoopBound'
    BY <2>7, <2>1, <1>0 DEF Judge
  <2>8. ASSUME NEW d \in Calls, Decide(c, d)
        PROVE  LoopInv' /\ LoopBound'
    <3>1. CASE verdict[d].allow /\ (options.strict => Proves(d, c))
      <4>1. call' = [call EXCEPT ![c].stage = "forwarding"] /\ callHistory' = callHistory
        BY <2>8, <3>1 DEF Decide
      <4> QED
        BY <4>1, <2>1, <1>0
    <3>2. CASE ~(verdict[d].allow /\ (options.strict => Proves(d, c)))
      <4>1. /\ call' = [call EXCEPT ![c].stage = "done", ![c].answer = "denied"]
            /\ callHistory' = callHistory
        BY <2>8, <3>2 DEF Decide
      <4> QED
        BY <4>1, <2>1, <1>0
    <3> QED
      BY <3>1, <3>2
  <2>9. CASE Execute(c)
    BY <2>9, <2>1, <1>0 DEF Execute
  <2>10. CASE UpstreamFails(c) \/ UpstreamAnswers(c)
    BY <2>10, <2>1, <1>0 DEF UpstreamFails, UpstreamAnswers, ForwardingFailed
  <2> QED
    BY <1>4, <2>2, <2>3, <2>4, <2>5, <2>6, <2>7, <2>8, <2>9, <2>10, <2>11 DEF CallStep
<1> QED
  BY <1>1, <1>2, <1>3, <1>4 DEF McpNext, McpStep

\* However calls interleave with the detector's shared history and its pruning, no window of
\* one life of the process has more than MaxRepeats identical calls past it.
THEOREM LoopsAreBounded ==
  ASSUME McpAssumption, Signatures # {}
  PROVE  McpSpec => []LoopBound
<1>1. McpInit /\ ClockInit => TypeInv /\ LoopInv /\ LoopBound
  <2> SUFFICES ASSUME McpInit, ClockInit PROVE TypeInv /\ LoopInv /\ LoopBound
    OBVIOUS
  <2>1. callHistory = {} /\ \A c \in Calls : call[c].at = Never
    BY DEF McpInit
  <2> QED
    BY <2>1, TypeInit DEF LoopInv, LoopBound
<1>2. TypeInv /\ LoopInv /\ LoopBound /\ [McpNext]_<<now, mcpVars>>
        => TypeInv' /\ LoopInv' /\ LoopBound'
  BY TypeStep, LoopStep
<1> QED
  BY <1>1, <1>2, PTL DEF McpSpec

---------------------------------------------------------------------------
(* The chat proxy.                                                         *)

ChatRecord ==
  [stage : {"idle", "prompt", "upstream", "inspecting", "looping", "screening", "gated",
            "claiming", "locking", "spending", "done"},
   answer : {"none", "STREAMED", "PASSED", "lost"} \cup Refusals,
   supplied : Proposals \cup {NoProposal},
   stream : BOOLEAN,
   reply : Replies \cup {<<>>},
   passed : Nat,
   unwritten : SUBSET {"lock", "record"},
   spent : SUBSET Proposals,
   barred : SUBSET ToolCalls]

ProposalRecord ==
  [status : {"ABSENT", "PENDING", "APPROVED", "REJECTED", "CONSUMED"},
   action : ToolCalls, expired : BOOLEAN]

Made(p) == proposal[p].status # "ABSENT"

\* What the stores say of each other: an approved record was approved by its votes.
StoresInv ==
  /\ \A p \in Proposals :
       proposal[p].status = "APPROVED" => <<p, proposal[p].action>> \in approvals
  /\ \A p \in voting : Made(p)

\* The calls a chat has let pass are vetted, and a sensitive one among them is the only
\* one, is approved, and has taken the lock of its proposal.
Prefix(c) == 1..chat[c].passed

Vetted(c, asked) == asked \notin LeakyCalls \cup ListedCalls \cup chat[c].barred

PassedInv(c) ==
  /\ chat[c].passed <= Len(chat[c].reply)
  /\ chat[c].barred \subseteq barred
  /\ \A i \in Prefix(c) :
       /\ Vetted(c, chat[c].reply[i])
       /\ chat[c].reply[i] \in SensitiveCalls =>
            /\ chat[c].supplied \in lock
            /\ <<chat[c].supplied, chat[c].reply[i]>> \in approvals
  /\ \A i, j \in Prefix(c) :
       chat[c].reply[i] \in SensitiveCalls /\ chat[c].reply[j] \in SensitiveCalls => i = j

\* What a stage says of the call under inspection and of the proposal for it.
Claims(c, stage) ==
  /\ stage \in {"idle", "prompt", "upstream"} =>
       chat[c].reply = <<>> /\ chat[c].passed = 0 /\ chat[c].spent = {}
  /\ stage \in {"looping", "screening", "gated", "claiming", "locking", "spending"} =>
       Inspects(c) /\ Current(c) \notin LeakyCalls
  /\ stage \in {"gated", "claiming", "locking", "spending"} =>
       Vetted(c, Current(c)) /\ Current(c) \in SensitiveCalls
  /\ stage \in {"claiming", "locking", "spending"} =>
       /\ chat[c].supplied \in Proposals /\ Made(chat[c].supplied)
       /\ ForAction(chat[c].supplied, Current(c))
       /\ <<chat[c].supplied, Current(c)>> \in approvals
  /\ stage = "spending" =>
       /\ "lock" \notin chat[c].unwritten => chat[c].supplied \in lock
       /\ \A i \in Prefix(c) : chat[c].reply[i] \notin SensitiveCalls

StageInv(c) ==
  /\ Claims(c, chat[c].stage)
  /\ chat[c].stage # "done" => chat[c].answer = "none"
  /\ chat[c].answer = "PASSED" => chat[c].passed = Len(chat[c].reply)

\* Where in the answer the call is that a proposal was spent on.
SpentInv(c) ==
  /\ \A p \in chat[c].spent :
       /\ Made(p)
       /\ \E i \in DOMAIN chat[c].reply :
            /\ chat[c].reply[i] = proposal[p].action
            /\ i <= chat[c].passed \/ (chat[c].stage = "spending" /\ i = chat[c].passed + 1)
  /\ chat[c].answer \in Refusals /\ chat[c].spent # {} =>
       chat[c].stage = "done" /\ chat[c].passed < Len(chat[c].reply)

CallInv(c) == PassedInv(c) /\ StageInv(c) /\ SpentInv(c)

ChatInv == ChatTypeOK /\ StoresInv /\ \A c \in Chats : CallInv(c)

ChatStages ==
  {"idle", "prompt", "upstream", "inspecting", "looping", "screening", "gated", "claiming",
   "locking", "spending", "done"}

ChatAnswers == {"none", "STREAMED", "PASSED", "lost"} \cup Refusals

StoresTyped ==
  /\ proposal \in [Proposals -> ProposalRecord]
  /\ lock \subseteq Proposals /\ voting \subseteq Proposals
  /\ approvals \subseteq Proposals \X ToolCalls /\ barred \subseteq ToolCalls

LEMMA ChatTypes ==
  /\ ChatTypeOK <=> chat \in [Chats -> ChatRecord] /\ StoresTyped
  /\ NewChat \in ChatRecord
BY DEF ChatTypeOK, ChatRecord, ProposalRecord, StoresTyped, NewChat

LEMMA ChatFields ==
  ASSUME ChatTypeOK, NEW c \in Chats
  PROVE  /\ chat[c] \in ChatRecord
         /\ chat[c].stage \in ChatStages /\ chat[c].answer \in ChatAnswers
         /\ chat[c].supplied \in Proposals \cup {NoProposal} /\ chat[c].stream \in BOOLEAN
         /\ chat[c].reply \in Replies \cup {<<>>} /\ chat[c].reply \in Seq(ToolCalls)
         /\ Len(chat[c].reply) \in Nat /\ DOMAIN chat[c].reply = 1..Len(chat[c].reply)
         /\ chat[c].passed \in Nat /\ chat[c].unwritten \subseteq {"lock", "record"}
         /\ chat[c].spent \subseteq Proposals /\ chat[c].barred \subseteq ToolCalls
<1>1. chat[c] \in ChatRecord
  BY ChatTypes
<1>2. chat[c].reply \in Replies \cup {<<>>}
  BY <1>1 DEF ChatRecord
<1>3. chat[c].reply \in Seq(ToolCalls)
  <2>1. Replies \subseteq Seq(ToolCalls)
    BY ChatAssumption
  <2>2. <<>> \in Seq(ToolCalls)
    OBVIOUS
  <2> QED BY <1>2, <2>1, <2>2, Zenon
<1>4. Len(chat[c].reply) \in Nat /\ DOMAIN chat[c].reply = 1..Len(chat[c].reply)
  <2>1. \A s \in Seq(ToolCalls) : Len(s) \in Nat /\ DOMAIN s = 1..Len(s)
    OBVIOUS
  <2> QED BY <1>3, <2>1, Zenon
<1> QED BY <1>1, <1>2, <1>3, <1>4 DEF ChatRecord, ChatStages, ChatAnswers

\* The stores only ever learn: approvals, locks and bars stay, and so does the action of a
\* proposal once it is made.
StoresGrow ==
  /\ lock \subseteq lock' /\ approvals \subseteq approvals' /\ barred \subseteq barred'
  /\ \A p \in Proposals : Made(p) => Made(p)' /\ proposal'[p].action = proposal[p].action

LEMMA StoresStay ==
  ASSUME ChatInv, StoresUnchanged
  PROVE  StoresGrow /\ StoresTyped' /\ StoresInv'
BY ChatTypes DEF ChatInv, StoresUnchanged, StoresGrow, StoresTyped, StoresInv, Made

\* The calls of a chat that its step leaves alone stay as they are.
LEMMA OthersKeep ==
  ASSUME ChatTypeOK, NEW c \in Chats, CallInv(c), chat'[c] = chat[c], StoresGrow
  PROVE  CallInv(c)'
<1>0. Inspects(c)' = Inspects(c) /\ Current(c)' = Current(c) /\ Prefix(c)' = Prefix(c)
  BY DEF Inspects, Current, Prefix
<1>1. PassedInv(c)'
  BY <1>0 DEF CallInv, PassedInv, StoresGrow, Vetted
<1>2. StageInv(c)'
  <2>1. Claims(c, chat[c].stage)'
    BY <1>0 DEF CallInv, StageInv, Claims, StoresGrow, Vetted, ForAction
  <2> QED BY <2>1 DEF CallInv, StageInv
<1>3. SpentInv(c)'
  <2>1. \A p \in chat[c].spent : p \in Proposals
    BY ChatFields
  <2> QED BY <2>1 DEF CallInv, SpentInv, StoresGrow
<1> QED BY <1>1, <1>2, <1>3 DEF CallInv

\* A chat becomes another record.
ChatIs(c, r) == chat' = [chat EXCEPT ![c] = r]

LEMMA ChatBecomes ==
  ASSUME ChatTypeOK, NEW c \in Chats, NEW r \in ChatRecord, ChatIs(c, r)
  PROVE  /\ chat' \in [Chats -> ChatRecord]
         /\ chat'[c] = r
         /\ \A d \in Chats : d # c => chat'[d] = chat[d]
BY ChatTypes DEF ChatIs

LEMMA OneChat ==
  ASSUME ChatInv, NEW c \in Chats, NEW r \in ChatRecord, ChatIs(c, r),
         StoresGrow, StoresTyped', StoresInv', CallInv(c)'
  PROVE  ChatInv'
<1>1. /\ chat' \in [Chats -> ChatRecord]
      /\ \A d \in Chats : d # c => chat'[d] = chat[d]
  BY ChatBecomes DEF ChatInv
<1>2. \A d \in Chats : CallInv(d)'
  BY <1>1, OthersKeep DEF ChatInv
<1>3. ChatTypeOK'
  <2>1. ChatTypeOK' <=> (chat \in [Chats -> ChatRecord] /\ StoresTyped)'
    BY DEF ChatTypeOK, ChatRecord, ProposalRecord, StoresTyped
  <2> QED BY <1>1, <2>1
<1> QED BY <1>2, <1>3 DEF ChatInv

LEMMA ChatInvOf ==
  ASSUME ChatInv, NEW c \in Chats
  PROVE  ChatTypeOK /\ StoresInv /\ PassedInv(c) /\ StageInv(c) /\ SpentInv(c)
BY DEF ChatInv, CallInv

\* What a step leaves of a chat, but for its stage and its answer.
SameBut(c) ==
  /\ chat'[c].supplied = chat[c].supplied /\ chat'[c].reply = chat[c].reply
  /\ chat'[c].unwritten = chat[c].unwritten /\ chat'[c].spent = chat[c].spent
  /\ chat'[c].barred = chat[c].barred

\* A chat goes on to a stage whose claims hold already.
LEMMA GoesKeeps ==
  ASSUME ChatInv, NEW c \in Chats,
         NEW stage \in ChatStages \ {"spending", "done"},
         chat[c].stage \notin {"spending", "done"},
         Goes(c, stage), StoresUnchanged, Claims(c, stage)
  PROVE  ChatInv'
<1> DEFINE r == [chat[c] EXCEPT !.stage = stage]
<1>0. ChatTypeOK /\ PassedInv(c) /\ StageInv(c) /\ SpentInv(c)
  BY ChatInvOf
<1>1. chat[c] \in ChatRecord
  BY <1>0, ChatFields
<1>2. r \in ChatRecord
  BY <1>1 DEF ChatRecord, ChatStages
<1>3. ChatIs(c, r)
  BY <1>0, ChatTypes DEF Goes, ChatIs
<1> HIDE DEF r
<1>4. chat'[c] = r
  BY <1>0, <1>2, <1>3, ChatBecomes
<1>5. /\ SameBut(c) /\ chat'[c].passed = chat[c].passed /\ chat'[c].answer = chat[c].answer
      /\ chat'[c].stage = stage
  BY <1>1, <1>4 DEF r, ChatRecord, SameBut
<1>6. StoresGrow /\ StoresTyped' /\ StoresInv'
  BY StoresStay
<1>7. Inspects(c)' = Inspects(c) /\ Current(c)' = Current(c) /\ Prefix(c)' = Prefix(c)
  BY <1>5 DEF Inspects, Current, Prefix, SameBut
<1>8. PassedInv(c)'
  BY <1>0, <1>5, <1>6, <1>7 DEF PassedInv, StoresGrow, Vetted, SameBut
<1>9. StageInv(c)'
  <2>1. Claims(c, stage)'
    BY <1>5, <1>6, <1>7 DEF Claims, StoresGrow, Vetted, ForAction, SameBut
  <2> QED BY <1>0, <1>5, <2>1 DEF StageInv, SameBut
<1>10. SpentInv(c)'
  <2>1. \A p \in chat[c].spent : p \in Proposals
    BY <1>0, ChatFields
  <2> QED BY <1>0, <1>5, <1>6, <2>1 DEF SpentInv, StoresGrow, SameBut
<1> QED BY <1>2, <1>3, <1>6, <1>8, <1>9, <1>10, OneChat DEF CallInv

\* A chat is refused, or streamed, before it inspects a call or while it does.
LEMMA EndsKeeps ==
  ASSUME ChatInv, NEW c \in Chats, NEW answer \in Refusals \cup {"STREAMED"},
         chat[c].stage \notin {"spending", "done"},
         Inspects(c) \/ chat[c].spent = {},
         Ends(c, answer), StoresGrow, StoresTyped', StoresInv'
  PROVE  ChatInv'
<1> DEFINE r == [[chat[c] EXCEPT !.stage = "done"] EXCEPT !.answer = answer]
<1>0. ChatTypeOK /\ PassedInv(c) /\ StageInv(c) /\ SpentInv(c)
  BY ChatInvOf
<1>1. chat[c] \in ChatRecord
  BY <1>0, ChatFields
<1>2. r \in ChatRecord
  BY <1>1 DEF ChatRecord
<1>3. ChatIs(c, r)
  BY <1>0, ChatTypes DEF Ends, ChatIs
<1> HIDE DEF r
<1>4. chat'[c] = r
  BY <1>0, <1>2, <1>3, ChatBecomes
<1>5. /\ SameBut(c) /\ chat'[c].passed = chat[c].passed /\ chat'[c].answer = answer
      /\ chat'[c].stage = "done"
  BY <1>1, <1>4 DEF r, ChatRecord, SameBut
<1>6. answer # "PASSED"
  BY DEF Refusals
<1>7. Prefix(c)' = Prefix(c)
  BY <1>5 DEF Prefix
<1>8. PassedInv(c)'
  BY <1>0, <1>5, <1>7 DEF PassedInv, StoresGrow, Vetted, SameBut
<1>9. StageInv(c)'
  BY <1>5, <1>6 DEF StageInv, Claims
<1>10. SpentInv(c)'
  <2>1. \A p \in chat[c].spent : p \in Proposals
    BY <1>0, ChatFields
  <2> QED BY <1>0, <1>5, <2>1 DEF SpentInv, StoresGrow, SameBut, Inspects
<1> QED BY <1>2, <1>3, <1>8, <1>9, <1>10, OneChat DEF CallInv

\* The current call passes: it is vetted, and if it is sensitive, the first, and approved.
LEMMA NextKeeps ==
  ASSUME ChatInv, NEW c \in Chats,
         chat[c].stage \in {"screening", "spending"},
         Inspects(c), Vetted(c, Current(c)),
         Current(c) \in SensitiveCalls =>
           /\ chat[c].supplied \in lock
           /\ <<chat[c].supplied, Current(c)>> \in approvals
           /\ \A i \in Prefix(c) : chat[c].reply[i] \notin SensitiveCalls,
         NextCall(c), StoresUnchanged
  PROVE  ChatInv'
<1> DEFINE n == chat[c].passed + 1
           r == [[chat[c] EXCEPT !.stage = "inspecting"] EXCEPT !.passed = n]
<1>0. ChatTypeOK /\ PassedInv(c) /\ StageInv(c) /\ SpentInv(c)
  BY ChatInvOf
<1>1. chat[c] \in ChatRecord /\ chat[c].passed \in Nat /\ Len(chat[c].reply) \in Nat
  BY <1>0, ChatFields
<1>2. r \in ChatRecord
  <2>1. n \in Nat
    BY <1>1
  <2> HIDE DEF n
  <2> QED BY <1>1, <2>1 DEF ChatRecord
<1>3. ChatIs(c, r)
  BY <1>0, ChatTypes DEF NextCall, ChatIs
<1> HIDE DEF r
<1>4. chat'[c] = r
  BY <1>0, <1>2, <1>3, ChatBecomes
<1>5. /\ SameBut(c) /\ chat'[c].passed = n /\ chat'[c].answer = chat[c].answer
      /\ chat'[c].stage = "inspecting"
  BY <1>1, <1>4 DEF r, ChatRecord, SameBut
<1>6. StoresGrow /\ StoresTyped' /\ StoresInv'
  BY StoresStay
<1>7. /\ n <= Len(chat[c].reply) /\ Current(c) = chat[c].reply[n]
      /\ \A i \in Prefix(c)' : i \in Prefix(c) \/ i = n
      /\ n \notin Prefix(c)
  <2>1. n <= Len(chat[c].reply) /\ Current(c) = chat[c].reply[n]
    BY <1>1 DEF Inspects, Current
  <2>2. Prefix(c)' = 1..n /\ Prefix(c) = 1..chat[c].passed
    BY <1>5 DEF Prefix
  <2>3. \A i \in 1..n : i \in 1..chat[c].passed \/ i = n
    BY <1>1
  <2>4. n \notin 1..chat[c].passed
    BY <1>1
  <2> QED BY <2>1, <2>2, <2>3, <2>4
<1> HIDE DEF n
<1>8. PassedInv(c)'
  <2>1. \A i \in Prefix(c)' :
          /\ Vetted(c, chat[c].reply[i])
          /\ chat[c].reply[i] \in SensitiveCalls =>
               /\ chat[c].supplied \in lock
               /\ <<chat[c].supplied, chat[c].reply[i]>> \in approvals
    BY <1>0, <1>7 DEF PassedInv
  <2>2. \A i, j \in Prefix(c)' :
          chat[c].reply[i] \in SensitiveCalls /\ chat[c].reply[j] \in SensitiveCalls => i = j
    BY <1>0, <1>7 DEF PassedInv
  <2> QED BY <1>0, <1>5, <1>6, <1>7, <2>1, <2>2 DEF PassedInv, StoresGrow, Vetted, SameBut
<1>9. StageInv(c)'
  <2>1. chat[c].answer = "none"
    BY <1>0 DEF StageInv
  <2> QED BY <1>5, <2>1 DEF StageInv, Claims
<1>10. SpentInv(c)'
  <2>1. \A p \in chat[c].spent : p \in Proposals
    BY <1>0, ChatFields
  <2>2. chat[c].answer = "none" /\ "none" \notin Refusals
    BY <1>0 DEF StageInv, Refusals
  <2>3. \A i \in DOMAIN chat[c].reply :
          i <= chat[c].passed \/ i = chat[c].passed + 1 => i <= n
    BY <1>0, <1>1, ChatFields DEF n
  <2> QED BY <1>0, <1>5, <1>6, <2>1, <2>2, <2>3 DEF SpentInv, StoresGrow, SameBut
<1> QED BY <1>2, <1>3, <1>6, <1>8, <1>9, <1>10, OneChat DEF CallInv

LEMMA ArriveKeeps ==
  ASSUME ChatInv, NEW c \in Chats, NEW supplied \in Proposals \cup {NoProposal},
         NEW stream \in BOOLEAN, Arrive(c, supplied, stream, FALSE)
  PROVE  ChatInv'
<1> DEFINE r == [[[chat[c] EXCEPT !.stage = "prompt"] EXCEPT !.supplied = supplied]
                   EXCEPT !.stream = stream]
<1>0. ChatTypeOK /\ PassedInv(c) /\ StageInv(c) /\ SpentInv(c)
  BY ChatInvOf
<1>1. chat[c] \in ChatRecord
  BY <1>0, ChatFields
<1>2. r \in ChatRecord
  BY <1>1 DEF ChatRecord
<1>3. ChatIs(c, r)
  BY <1>0, ChatTypes DEF Arrive, ChatIs
<1> HIDE DEF r
<1>4. chat'[c] = r
  BY <1>0, <1>2, <1>3, ChatBecomes
<1>5. /\ chat'[c].reply = <<>> /\ chat'[c].passed = 0 /\ chat'[c].spent = {}
      /\ chat'[c].barred = chat[c].barred
      /\ chat'[c].answer = "none" /\ chat'[c].stage = "prompt"
  <2>1. chat[c].reply = <<>> /\ chat[c].passed = 0 /\ chat[c].spent = {}
        /\ chat[c].answer = "none"
    BY <1>0 DEF Arrive, At, StageInv, Claims
  <2> QED BY <1>1, <1>4, <2>1 DEF r, ChatRecord
<1>6. StoresGrow /\ StoresTyped' /\ StoresInv'
  BY StoresStay DEF Arrive
<1>7. Prefix(c)' = {}
  BY <1>5 DEF Prefix
<1>8. PassedInv(c)'
  BY <1>0, <1>5, <1>6, <1>7 DEF PassedInv, StoresGrow
<1>9. StageInv(c)' /\ SpentInv(c)'
  BY <1>5 DEF StageInv, Claims, SpentInv
<1> QED BY <1>2, <1>3, <1>6, <1>8, <1>9, OneChat DEF CallInv

\* Nothing of an answer that has just come has passed.
LEMMA AnswerKeeps ==
  ASSUME ChatInv, NEW c \in Chats, NEW reply \in Replies \cup {<<>>},
         ModelAnswers(c, reply), ~chat[c].stream
  PROVE  ChatInv'
<1> DEFINE r == [[[chat[c] EXCEPT !.stage = "inspecting"] EXCEPT !.reply = reply]
                   EXCEPT !.barred = barred]
<1>0. ChatTypeOK /\ PassedInv(c) /\ StageInv(c) /\ SpentInv(c)
  BY ChatInvOf
<1>1. chat[c] \in ChatRecord /\ barred \subseteq ToolCalls
  BY <1>0, ChatFields, ChatTypes DEF StoresTyped
<1>2. r \in ChatRecord
  BY <1>1 DEF ChatRecord
<1>3. ChatIs(c, r)
  BY <1>0, ChatTypes DEF ModelAnswers, ChatIs
<1> HIDE DEF r
<1>4. chat'[c] = r
  BY <1>0, <1>2, <1>3, ChatBecomes
<1>5. /\ chat'[c].reply = reply /\ chat'[c].passed = 0 /\ chat'[c].spent = {}
      /\ chat'[c].barred = barred
      /\ chat'[c].answer = "none" /\ chat'[c].stage = "inspecting"
  <2>1. chat[c].passed = 0 /\ chat[c].spent = {} /\ chat[c].answer = "none"
    BY <1>0 DEF ModelAnswers, At, StageInv, Claims
  <2> QED BY <1>1, <1>4, <2>1 DEF r, ChatRecord
<1>6. StoresGrow /\ StoresTyped' /\ StoresInv'
  BY StoresStay DEF ModelAnswers
<1>7. Prefix(c)' = {} /\ 0 <= Len(reply)
  <2>1. Len(reply) \in Nat
    <3>1. Replies \subseteq Seq(ToolCalls)
      BY ChatAssumption
    <3>2. <<>> \in Seq(ToolCalls) /\ \A q \in Seq(ToolCalls) : Len(q) \in Nat
      OBVIOUS
    <3> QED BY <3>1, <3>2, Zenon
  <2> QED BY <1>5, <2>1 DEF Prefix
<1>8. PassedInv(c)'
  BY <1>5, <1>6, <1>7 DEF PassedInv, StoresGrow
<1>9. StageInv(c)' /\ SpentInv(c)'
  BY <1>5 DEF StageInv, Claims, SpentInv
<1> QED BY <1>2, <1>3, <1>6, <1>8, <1>9, OneChat DEF CallInv

\* A chat that finds its proposal's lock free has let no sensitive call pass.
LEMMA LockKeeps ==
  ASSUME ChatInv, NEW c \in Chats, ReadLock(c), ~Locked(chat[c].supplied)
  PROVE  ChatInv'
<1> DEFINE r == [[chat[c] EXCEPT !.stage = "spending"] EXCEPT !.unwritten = {"lock", "record"}]
<1>0. ChatTypeOK /\ PassedInv(c) /\ StageInv(c) /\ SpentInv(c)
  BY ChatInvOf
<1>1. chat[c] \in ChatRecord
  BY <1>0, ChatFields
<1>2. r \in ChatRecord
  BY <1>1 DEF ChatRecord
<1>3. ChatIs(c, r)
  BY <1>0, ChatTypes DEF ReadLock, ChatIs
<1> HIDE DEF r
<1>4. chat'[c] = r
  BY <1>0, <1>2, <1>3, ChatBecomes
<1>5. /\ chat'[c].supplied = chat[c].supplied /\ chat'[c].reply = chat[c].reply
      /\ chat'[c].spent = chat[c].spent /\ chat'[c].barred = chat[c].barred
      /\ chat'[c].passed = chat[c].passed /\ chat'[c].answer = chat[c].answer
      /\ chat'[c].stage = "spending" /\ chat'[c].unwritten = {"lock", "record"}
  BY <1>1, <1>4 DEF r, ChatRecord
<1>6. StoresGrow /\ StoresTyped' /\ StoresInv'
  BY StoresStay DEF ReadLock
<1>7. Inspects(c)' = Inspects(c) /\ Current(c)' = Current(c) /\ Prefix(c)' = Prefix(c)
  BY <1>5 DEF Inspects, Current, Prefix
<1>8. PassedInv(c)'
  BY <1>0, <1>5, <1>6, <1>7 DEF PassedInv, StoresGrow, Vetted
<1>9. StageInv(c)'
  <2>1. chat[c].stage = "locking" /\ chat[c].answer = "none"
    BY <1>0 DEF ReadLock, At, StageInv
  <2>2. \A i \in Prefix(c) : chat[c].reply[i] \notin SensitiveCalls
    BY <1>0 DEF PassedInv, Locked
  <2>3. Claims(c, "spending")'
    BY <1>0, <1>5, <1>6, <1>7, <2>1, <2>2
       DEF StageInv, Claims, StoresGrow, Vetted, ForAction
  <2> QED BY <1>5, <2>1, <2>3 DEF StageInv
<1>10. SpentInv(c)'
  <2>1. \A p \in chat[c].spent : p \in Proposals
    BY <1>0, ChatFields
  <2>2. chat[c].stage = "locking" /\ chat[c].answer = "none" /\ "none" \notin Refusals
    BY <1>0 DEF ReadLock, At, StageInv, Refusals
  <2> QED BY <1>0, <1>5, <1>6, <2>1, <2>2 DEF SpentInv, StoresGrow
<1> QED BY <1>2, <1>3, <1>6, <1>8, <1>9, <1>10, OneChat DEF CallInv

\* The two writes of a chat that spends its proposal, and what they make of its record.
LEMMA SpendingKeeps ==
  ASSUME ChatInv, NEW c \in Chats, WriteLock(c) \/ WriteRecord(c)
  PROVE  ChatInv'
<1> DEFINE p == chat[c].supplied
           unwritten == chat[c].unwritten \ IF WriteLock(c) THEN {"lock"} ELSE {"record"}
           spent == chat[c].spent \cup IF WriteLock(c) THEN {} ELSE {p}
           r == [[chat[c] EXCEPT !.unwritten = unwritten] EXCEPT !.spent = spent]
<1>0. ChatTypeOK /\ StoresInv /\ PassedInv(c) /\ StageInv(c) /\ SpentInv(c)
  BY ChatInvOf
<1>1. chat[c] \in ChatRecord /\ StoresTyped
  BY <1>0, ChatFields, ChatTypes
<1>2. /\ chat[c].stage = "spending" /\ Claims(c, "spending") /\ chat[c].answer = "none"
      /\ p \in Proposals /\ Made(p) /\ proposal[p].action = Current(c)
  BY <1>0 DEF WriteLock, WriteRecord, At, StageInv, Claims, ForAction
<1>3. unwritten \subseteq {"lock", "record"} /\ spent \subseteq Proposals
  BY <1>0, <1>2, ChatFields
<1>4. /\ "lock" \notin unwritten => p \in lock'
      /\ spent \subseteq chat[c].spent \cup {p}
  BY <1>2 DEF WriteLock, WriteRecord, Claims
<1>5. ChatIs(c, r)
  <2>1. CASE WriteLock(c)
    <3>1. chat' = [chat EXCEPT ![c].unwritten = unwritten]
      BY <2>1 DEF WriteLock
    <3>2. spent = chat[c].spent
      BY <2>1
    <3> HIDE DEF unwritten, spent
    <3>3. [chat[c] EXCEPT !.unwritten = unwritten] = r
      BY <1>1, <3>2 DEF ChatRecord
    <3> QED BY <1>0, <3>1, <3>3, ChatTypes DEF ChatIs
  <2>2. CASE ~WriteLock(c)
    <3>1. chat' = [chat EXCEPT ![c].unwritten = unwritten, ![c].spent = spent]
      BY <2>2 DEF WriteRecord
    <3> HIDE DEF unwritten, spent
    <3> QED BY <1>0, <3>1, ChatTypes DEF ChatIs
  <2> QED BY <2>1, <2>2
<1> HIDE DEF unwritten, spent
<1>6. r \in ChatRecord
  BY <1>1, <1>3 DEF ChatRecord
<1> HIDE DEF r
<1>7. chat'[c] = r
  BY <1>0, <1>5, <1>6, ChatBecomes
<1>8. /\ chat'[c].supplied = p /\ chat'[c].reply = chat[c].reply
      /\ chat'[c].barred = chat[c].barred
      /\ chat'[c].passed = chat[c].passed /\ chat'[c].answer = "none"
      /\ chat'[c].stage = "spending"
      /\ chat'[c].unwritten = unwritten /\ chat'[c].spent = spent
  BY <1>1, <1>2, <1>7 DEF r, ChatRecord
<1> HIDE DEF p
<1>9. StoresGrow /\ StoresTyped' /\ StoresInv'
  <2>1. CASE WriteLock(c)
    <3>1. lock' = lock \cup {p} /\ UNCHANGED <<proposal, voting, approvals, barred>>
      BY <2>1 DEF WriteLock, p
    <3> QED BY <1>0, <1>1, <1>2, <3>1 DEF StoresGrow, StoresTyped, StoresInv, Made
  <2>2. CASE WriteRecord(c)
    <3>1. /\ proposal' = [proposal EXCEPT ![p].status = "CONSUMED"]
          /\ UNCHANGED <<lock, voting, approvals, barred>>
      BY <2>2 DEF WriteRecord, p
    <3>2. /\ proposal' \in [Proposals -> ProposalRecord]
          /\ proposal'[p].status = "CONSUMED" /\ proposal'[p].action = proposal[p].action
          /\ \A q \in Proposals : q # p => proposal'[q] = proposal[q]
      BY <1>1, <1>2, <3>1 DEF StoresTyped, ProposalRecord
    <3> QED BY <1>0, <1>1, <1>2, <3>1, <3>2 DEF StoresGrow, StoresTyped, StoresInv, Made
  <2> QED BY <2>1, <2>2
<1>10. Inspects(c)' = Inspects(c) /\ Current(c)' = Current(c) /\ Prefix(c)' = Prefix(c)
  BY <1>8 DEF Inspects, Current, Prefix
<1>11. PassedInv(c)'
  BY <1>0, <1>8, <1>9, <1>10 DEF PassedInv, StoresGrow, Vetted, p
<1>12. StageInv(c)'
  <2>1. Claims(c, "spending")'
    BY <1>2, <1>4, <1>8, <1>9, <1>10 DEF Claims, StoresGrow, Vetted, ForAction, p
  <2> QED BY <1>8, <2>1 DEF StageInv
<1>13. SpentInv(c)'
  <2>1. \A q \in chat[c].spent : q \in Proposals
    BY <1>0, ChatFields
  <2>2. "none" \notin Refusals
    BY DEF Refusals
  <2> DEFINE k == chat[c].passed + 1
  <2>3. k \in DOMAIN chat[c].reply
    <3>1. chat[c].passed < Len(chat[c].reply)
      BY <1>2 DEF Claims, Inspects
    <3>2. /\ chat[c].passed \in Nat /\ Len(chat[c].reply) \in Nat
          /\ DOMAIN chat[c].reply = 1..Len(chat[c].reply)
      BY <1>0, ChatFields
    <3> QED BY <3>1, <3>2
  <2>4. chat[c].reply[k] = proposal[p].action
    BY <1>2 DEF Current
  <2> HIDE DEF k
  <2>5. proposal'[p].status # "ABSENT" /\ proposal'[p].action = proposal[p].action
    BY <1>2, <1>9 DEF StoresGrow, Made
  <2>6. ASSUME NEW q \in spent
        PROVE  /\ Made(q)'
               /\ \E i \in DOMAIN chat[c].reply :
                    /\ chat[c].reply[i] = proposal'[q].action
                    /\ i <= chat[c].passed \/ i = k
    <3>1. CASE q = p
      BY <2>3, <2>4, <2>5, <3>1 DEF Made
    <3>2. CASE q # p
      <4>1. chat[c].stage = "spending" /\ q \in chat[c].spent /\ q \in Proposals
        BY <1>2, <1>4, <2>1, <3>2
      <4>2. /\ Made(q)
            /\ \E i \in DOMAIN chat[c].reply :
                 /\ chat[c].reply[i] = proposal[q].action
                 /\ i <= chat[c].passed \/ i = k
        BY <1>0, <4>1 DEF SpentInv, k
      <4> QED BY <1>9, <4>1, <4>2 DEF StoresGrow
    <3> QED BY <3>1, <3>2
  <2> QED BY <1>8, <2>2, <2>6 DEF SpentInv, k
<1> QED BY <1>5, <1>6, <1>9, <1>11, <1>12, <1>13, OneChat DEF CallInv

\* An answer is delivered when all of its calls have passed.
LEMMA DeliverKeeps ==
  ASSUME ChatInv, NEW c \in Chats, Deliver(c)
  PROVE  ChatInv'
<1> DEFINE r == [[chat[c] EXCEPT !.stage = "done"] EXCEPT !.answer = "PASSED"]
<1>0. ChatTypeOK /\ PassedInv(c) /\ StageInv(c) /\ SpentInv(c)
  BY ChatInvOf
<1>1. chat[c] \in ChatRecord
  BY <1>0, ChatFields
<1>2. r \in ChatRecord
  BY <1>1 DEF ChatRecord
<1>3. ChatIs(c, r)
  BY <1>0, ChatTypes DEF Deliver, Ends, ChatIs
<1> HIDE DEF r
<1>4. chat'[c] = r
  BY <1>0, <1>2, <1>3, ChatBecomes
<1>5. /\ SameBut(c) /\ chat'[c].passed = chat[c].passed /\ chat'[c].answer = "PASSED"
      /\ chat'[c].stage = "done" /\ chat[c].stage = "inspecting"
  BY <1>1, <1>4 DEF r, ChatRecord, SameBut, Deliver, At
<1>6. StoresGrow /\ StoresTyped' /\ StoresInv'
  BY StoresStay DEF Deliver
<1>7. Prefix(c)' = Prefix(c)
  BY <1>5 DEF Prefix
<1>8. PassedInv(c)'
  BY <1>0, <1>5, <1>6, <1>7 DEF PassedInv, StoresGrow, Vetted, SameBut
<1>9. StageInv(c)'
  <2>1. chat[c].passed = Len(chat[c].reply)
    <3>1. chat[c].passed <= Len(chat[c].reply) /\ ~(chat[c].passed < Len(chat[c].reply))
      BY <1>0 DEF PassedInv, Deliver, Inspects
    <3> QED BY <1>0, <3>1, ChatFields
  <2> QED BY <1>5, <2>1 DEF StageInv, Claims, SameBut
<1>10. SpentInv(c)'
  <2>1. \A p \in chat[c].spent : p \in Proposals
    BY <1>0, ChatFields
  <2>2. "PASSED" \notin Refusals
    BY DEF Refusals
  <2> QED BY <1>0, <1>5, <1>6, <2>1, <2>2 DEF SpentInv, StoresGrow, SameBut
<1> QED BY <1>2, <1>3, <1>6, <1>8, <1>9, <1>10, OneChat DEF CallInv

LEMMA LoseKeeps ==
  ASSUME ChatInv, NEW c \in Chats, Lose(c)
  PROVE  ChatInv'
<1> DEFINE r == [[NewChat EXCEPT !.stage = "done"] EXCEPT !.answer = "lost"]
<1>0. ChatTypeOK
  BY ChatInvOf
<1>1. r \in ChatRecord
  BY ChatTypes DEF ChatRecord
<1>2. ChatIs(c, r)
  BY DEF Lose, ChatIs
<1>3. /\ r.stage = "done" /\ r.answer = "lost" /\ r.reply = <<>> /\ r.passed = 0
      /\ r.spent = {} /\ r.barred = {}
  BY DEF NewChat
<1> HIDE DEF r
<1>4. /\ chat'[c].stage = "done" /\ chat'[c].answer = "lost" /\ chat'[c].reply = <<>>
      /\ chat'[c].passed = 0 /\ chat'[c].spent = {} /\ chat'[c].barred = {}
  BY <1>0, <1>1, <1>2, <1>3, ChatBecomes
<1>5. StoresGrow /\ StoresTyped' /\ StoresInv'
  BY StoresStay DEF Lose
<1>6. Prefix(c)' = {} /\ Len(<<>>) = 0
  BY <1>4 DEF Prefix
<1>7. PassedInv(c)'
  BY <1>4, <1>6 DEF PassedInv
<1>8. StageInv(c)' /\ SpentInv(c)'
  BY <1>4 DEF StageInv, Claims, SpentInv
<1> QED BY <1>1, <1>2, <1>5, <1>7, <1>8, OneChat DEF CallInv

\* A new proposal is one that was not made.
LEMMA CreateKeeps ==
  ASSUME ChatInv, NEW c \in Chats, CreateProposal(c)
  PROVE  ChatInv'
<1>0. ChatTypeOK /\ StoresInv /\ StageInv(c) /\ StoresTyped
  BY ChatInvOf, ChatTypes
<1>1. /\ chat[c].stage = "gated" /\ Inspects(c) /\ Current(c) \in SensitiveCalls
      /\ Ends(c, "QUORUM_REQUIRED") /\ UNCHANGED <<lock, voting, approvals, barred>>
  BY <1>0 DEF CreateProposal, At, StageInv, Claims
<1>2. PICK new \in Proposals :
        /\ ~Made(new)
        /\ proposal' = [proposal EXCEPT ![new].status = "PENDING", ![new].action = Current(c)]
  BY DEF CreateProposal, Made
<1>3. Current(c) \in ToolCalls
  BY <1>1, ChatAssumption
<1> DEFINE asked == Current(c)
<1>4. /\ proposal' \in [Proposals -> ProposalRecord] /\ proposal'[new].status = "PENDING"
      /\ \A p \in Proposals : p # new => proposal'[p] = proposal[p]
  <2>1. proposal' = [proposal EXCEPT ![new].status = "PENDING", ![new].action = asked]
    BY <1>2
  <2>2. asked \in ToolCalls
    BY <1>3
  <2> HIDE DEF asked
  <2> QED BY <1>0, <2>1, <2>2 DEF StoresTyped, ProposalRecord
<1>5. StoresGrow
  BY <1>1, <1>2, <1>4 DEF StoresGrow, Made
<1>6. StoresTyped' /\ StoresInv'
  BY <1>0, <1>1, <1>2, <1>4 DEF StoresTyped, StoresInv, Made
<1>7. "QUORUM_REQUIRED" \in Refusals
  BY DEF Refusals
<1> QED BY <1>1, <1>5, <1>6, <1>7, EndsKeeps

\* What others do to the stores leaves every chat's calls as they are.
LEMMA WorldKeeps ==
  ASSUME ChatInv, chat' = chat, StoresGrow, StoresTyped', StoresInv'
  PROVE  ChatInv'
<1>1. \A d \in Chats : CallInv(d)'
  BY OthersKeep DEF ChatInv
<1>2. ChatTypeOK'
  <2>1. ChatTypeOK' <=> (chat \in [Chats -> ChatRecord] /\ StoresTyped)'
    BY DEF ChatTypeOK, ChatRecord, ProposalRecord, StoresTyped
  <2>2. chat \in [Chats -> ChatRecord]
    BY ChatTypes DEF ChatInv
  <2> QED BY <2>1, <2>2
<1> QED BY <1>1, <1>2 DEF ChatInv

LEMMA VotesKeep ==
  ASSUME ChatInv, NEW p \in Proposals,
         \/ BeginVote(p)
         \/ \E status \in {"PENDING", "APPROVED", "REJECTED"} : EndVote(p, status)
         \/ Expire(p)
  PROVE  ChatInv'
<1>0. StoresInv /\ StoresTyped
  BY ChatTypes DEF ChatInv
<1>1. CASE BeginVote(p)
  <2>1. /\ Made(p) /\ voting' = voting \cup {p}
        /\ UNCHANGED <<chat, proposal, lock, approvals, barred>>
    BY <1>1 DEF BeginVote, Made
  <2>2. StoresGrow /\ StoresTyped' /\ StoresInv'
    BY <1>0, <2>1 DEF StoresGrow, StoresTyped, StoresInv, Made
  <2> QED BY <2>1, <2>2, WorldKeeps
<1>2. ASSUME NEW status \in {"PENDING", "APPROVED", "REJECTED"}, EndVote(p, status)
      PROVE  ChatInv'
  <2>1. /\ Made(p) /\ voting' = voting \ {p} /\ UNCHANGED <<chat, lock, barred>>
        /\ proposal' = [proposal EXCEPT ![p].status = status]
        /\ approvals \subseteq approvals'
        /\ approvals' \subseteq approvals \cup {<<p, proposal[p].action>>}
        /\ status = "APPROVED" => <<p, proposal[p].action>> \in approvals'
    BY <1>0, <1>2 DEF EndVote, StoresInv
  <2>2. /\ proposal' \in [Proposals -> ProposalRecord]
        /\ proposal'[p].status = status /\ proposal'[p].action = proposal[p].action
        /\ \A q \in Proposals : q # p => proposal'[q] = proposal[q]
    BY <1>0, <2>1 DEF StoresTyped, ProposalRecord
  <2>3. StoresTyped'
    <3>1. proposal[p].action \in ToolCalls
      BY <1>0 DEF StoresTyped, ProposalRecord
    <3> QED BY <1>0, <2>1, <2>2, <3>1 DEF StoresTyped
  <2>4. StoresGrow /\ StoresInv'
    BY <1>0, <2>1, <2>2 DEF StoresGrow, StoresTyped, StoresInv, Made
  <2> QED BY <2>1, <2>3, <2>4, WorldKeeps
<1>3. CASE Expire(p)
  <2>1. /\ proposal' = [proposal EXCEPT ![p].expired = TRUE]
        /\ UNCHANGED <<chat, lock, voting, approvals, barred>>
    BY <1>3 DEF Expire
  <2>2. /\ proposal' \in [Proposals -> ProposalRecord]
        /\ proposal'[p].status = proposal[p].status
        /\ proposal'[p].action = proposal[p].action
        /\ \A q \in Proposals : q # p => proposal'[q] = proposal[q]
    BY <1>0, <2>1 DEF StoresTyped, ProposalRecord
  <2>3. StoresGrow /\ StoresTyped' /\ StoresInv'
    BY <1>0, <2>1, <2>2 DEF StoresGrow, StoresTyped, StoresInv, Made
  <2> QED BY <2>1, <2>3, WorldKeeps
<1> QED BY <1>1, <1>2, <1>3

LEMMA BarKeeps ==
  ASSUME ChatInv, NEW asked \in ToolCalls, Bar(asked)
  PROVE  ChatInv'
<1>1. StoresInv /\ StoresTyped
  BY ChatTypes DEF ChatInv
<1>2. StoresGrow /\ StoresTyped' /\ StoresInv' /\ chat' = chat
  BY <1>1 DEF Bar, StoresGrow, StoresTyped, StoresInv, Made
<1> QED BY <1>2, WorldKeeps

\* A chat that is refused: where, and why.
LEMMA RefusalKeeps ==
  ASSUME ChatInv, NEW c \in Chats, NEW answer \in Refusals \cup {"STREAMED"},
         \/ At(c, "idle") \/ At(c, "prompt") \/ At(c, "upstream")
         \/ (At(c, "inspecting") /\ Inspects(c))
         \/ At(c, "looping") \/ At(c, "screening") \/ At(c, "gated")
         \/ At(c, "claiming") \/ At(c, "locking"),
         Ends(c, answer), StoresUnchanged
  PROVE  ChatInv'
<1>1. Inspects(c) \/ chat[c].spent = {}
  BY ChatInvOf DEF StageInv, Claims, At
<1>2. chat[c].stage \notin {"spending", "done"}
  BY DEF At
<1> QED BY <1>1, <1>2, StoresStay, EndsKeeps

\* The checks of a call that lead on to the next one.
LEMMA PassingKeeps ==
  ASSUME ChatInv, NEW c \in Chats, StoresUnchanged,
         \/ SendUpstream(c)
         \/ InspectArguments(c) /\ Current(c) \notin LeakyCalls
         \/ CheckLoop(c, FALSE)
         \/ ReadProposal(c) /\ Objection(chat[c].supplied, Current(c)) = "none"
         \/ /\ ClaimProposal(c) /\ proposal[chat[c].supplied].status = "APPROVED"
            /\ ForAction(chat[c].supplied, Current(c))
  PROVE  ChatInv'
<1>0. ChatTypeOK /\ StoresInv /\ PassedInv(c) /\ StageInv(c) /\ SpentInv(c)
  BY ChatInvOf
<1>1. CASE SendUpstream(c)
  BY <1>0, <1>1, GoesKeeps DEF SendUpstream, At, StageInv, Claims, ChatStages
<1>2. CASE InspectArguments(c) /\ Current(c) \notin LeakyCalls
  BY <1>0, <1>2, GoesKeeps DEF InspectArguments, At, Claims, ChatStages
<1>3. CASE CheckLoop(c, FALSE)
  BY <1>0, <1>3, GoesKeeps DEF CheckLoop, At, StageInv, Claims, ChatStages
<1> DEFINE p == chat[c].supplied
<1>4. CASE ReadProposal(c) /\ Objection(p, Current(c)) = "none"
  <2>1. /\ chat[c].stage = "gated" /\ p # NoProposal /\ proposal[p].status = "APPROVED"
        /\ Goes(c, "claiming")
    BY <1>4 DEF ReadProposal, At
  <2>2. p \in Proposals /\ Made(p)
    BY <1>0, <2>1, ChatFields DEF Made
  <2>3. ForAction(p, Current(c))
    BY <1>4, <2>1 DEF Objection
  <2>4. <<p, Current(c)>> \in approvals
    BY <1>0, <2>1, <2>2, <2>3 DEF StoresInv, ForAction
  <2>5. Claims(c, "claiming")
    BY <1>0, <2>1, <2>2, <2>3, <2>4 DEF StageInv, Claims
  <2> QED BY <2>1, <2>5, GoesKeeps DEF ChatStages
<1>5. CASE ClaimProposal(c) /\ proposal[p].status = "APPROVED" /\ ForAction(p, Current(c))
  <2>1. chat[c].stage = "claiming" /\ Goes(c, "locking")
    BY <1>5 DEF ClaimProposal, At
  <2>2. Claims(c, "locking")
    BY <1>0, <2>1 DEF StageInv, Claims
  <2> QED BY <2>1, <2>2, GoesKeeps DEF ChatStages
<1> QED BY <1>1, <1>2, <1>3, <1>4, <1>5

LEMMA ScreeningKeeps ==
  ASSUME ChatInv, NEW c \in Chats, NEW fails \in BOOLEAN, NEW owned \in BOOLEAN,
         ScreenCall(c, fails, owned)
  PROVE  ChatInv'
<1>0. PassedInv(c) /\ StageInv(c) /\ At(c, "screening") /\ StoresUnchanged
  BY ChatInvOf DEF ScreenCall
<1>1. CASE fails \/ Current(c) \in BlockedCalls
  <2>1. Ends(c, "SANCTIONED_ENTITY_MATCH") /\ "SANCTIONED_ENTITY_MATCH" \in Refusals
    BY <1>1 DEF ScreenCall, Refusals
  <2> QED BY <1>0, <2>1, RefusalKeeps
<1>2. CASE ~(fails \/ Current(c) \in BlockedCalls) /\ owned
  <2>1. /\ Ends(c, "SANCTIONS_50_RULE_VIOLATION")
        /\ "SANCTIONS_50_RULE_VIOLATION" \in Refusals
    BY <1>2 DEF ScreenCall, Refusals
  <2> QED BY <1>0, <2>1, RefusalKeeps
<1>3. CASE ~(fails \/ Current(c) \in BlockedCalls) /\ ~owned
  <2>1. Inspects(c) /\ Vetted(c, Current(c)) /\ Current(c) \notin LeakyCalls
    BY <1>0, <1>3 DEF At, StageInv, Claims, Vetted, BlockedCalls, PassedInv
  <2>2. CASE Current(c) \in SensitiveCalls
    <3>1. Goes(c, "gated")
      BY <1>3, <2>2 DEF ScreenCall
    <3>2. Claims(c, "gated")
      BY <2>1, <2>2 DEF Claims
    <3> QED BY <1>0, <3>1, <3>2, GoesKeeps DEF At, ChatStages
  <2>3. CASE Current(c) \notin SensitiveCalls
    <3>1. NextCall(c)
      BY <1>3, <2>3 DEF ScreenCall
    <3> QED BY <1>0, <2>1, <2>3, <3>1, NextKeeps DEF At
  <2> QED BY <2>2, <2>3
<1> QED BY <1>1, <1>2, <1>3

LEMMA ApprovedKeeps ==
  ASSUME ChatInv, NEW c \in Chats, CallApproved(c)
  PROVE  ChatInv'
<1>1. /\ chat[c].stage = "spending" /\ chat[c].unwritten = {}
      /\ NextCall(c) /\ StoresUnchanged /\ StageInv(c)
  BY ChatInvOf DEF CallApproved, At
<1>2. /\ Inspects(c) /\ Vetted(c, Current(c)) /\ chat[c].supplied \in lock
      /\ <<chat[c].supplied, Current(c)>> \in approvals
      /\ \A i \in Prefix(c) : chat[c].reply[i] \notin SensitiveCalls
  BY <1>1 DEF StageInv, Claims
<1> QED BY <1>1, <1>2, NextKeeps

LEMMA ChatStepKeeps ==
  ASSUME ChatInv, NEW c \in Chats, ChatStep(c)
  PROVE  ChatInv'
<1>1. {"rejected", "SECRET_LEAK_PREVENTED", "CIRCUIT_TRIPPED", "PROPOSAL_ALREADY_CONSUMED",
       "upstream_failed"} \subseteq Refusals
  BY DEF Refusals
<1>2. CASE \/ Reject(c) \/ PromptTrips(c) \/ RefuseUpstream(c) \/ ModelFails(c)
  BY <1>1, <1>2, RefusalKeeps DEF Reject, PromptTrips, RefuseUpstream, ModelFails
<1>3. ASSUME NEW supplied \in Proposals \cup {NoProposal}, NEW stream \in BOOLEAN,
             NEW leaky \in BOOLEAN, Arrive(c, supplied, stream, leaky)
      PROVE  ChatInv'
  <2>1. CASE leaky
    BY <1>1, <1>3, <2>1, RefusalKeeps DEF Arrive
  <2>2. CASE leaky = FALSE
    BY <1>3, <2>2, ArriveKeeps
  <2> QED BY <2>1, <2>2
<1>4. ASSUME NEW reply \in Replies \cup {<<>>}, ModelAnswers(c, reply)
      PROVE  ChatInv'
  <2>1. CASE chat[c].stream
    BY <1>4, <2>1, RefusalKeeps DEF ModelAnswers
  <2>2. CASE ~chat[c].stream
    BY <1>4, <2>2, AnswerKeeps
  <2> QED BY <2>1, <2>2
<1>5. CASE InspectArguments(c)
  <2>1. CASE Current(c) \in LeakyCalls
    BY <1>1, <1>5, <2>1, RefusalKeeps DEF InspectArguments
  <2>2. CASE Current(c) \notin LeakyCalls
    BY <1>5, <2>2, PassingKeeps DEF InspectArguments
  <2> QED BY <2>1, <2>2
<1>6. ASSUME NEW tripped \in BOOLEAN, CheckLoop(c, tripped)
      PROVE  ChatInv'
  <2>1. CASE tripped
    BY <1>1, <1>6, <2>1, RefusalKeeps DEF CheckLoop
  <2>2. CASE tripped = FALSE
    BY <1>6, <2>2, PassingKeeps DEF CheckLoop
  <2> QED BY <2>1, <2>2
<1>7. CASE ReadProposal(c)
  <2> DEFINE o == Objection(chat[c].supplied, Current(c))
  <2>1. CASE o = "none"
    BY <1>7, <2>1, PassingKeeps DEF ReadProposal
  <2>2. CASE o # "none"
    <3>1. o \in Refusals
      BY <2>2 DEF Objection, Refusals
    <3> QED BY <1>7, <2>2, <3>1, RefusalKeeps DEF ReadProposal
  <2> QED BY <2>1, <2>2
<1>8. CASE ClaimProposal(c)
  <2> DEFINE granted == /\ proposal[chat[c].supplied].status = "APPROVED"
                        /\ ForAction(chat[c].supplied, Current(c))
  <2>1. CASE granted
    BY <1>8, <2>1, PassingKeeps DEF ClaimProposal
  <2>2. CASE ~granted
    BY <1>1, <1>8, <2>2, RefusalKeeps DEF ClaimProposal
  <2> QED BY <2>1, <2>2
<1>9. CASE ReadLock(c)
  <2>1. CASE Locked(chat[c].supplied)
    BY <1>1, <1>9, <2>1, RefusalKeeps DEF ReadLock
  <2> QED BY <1>9, <2>1, LockKeeps
<1>10. CASE SendUpstream(c)
  BY <1>10, PassingKeeps DEF SendUpstream
<1> QED
  BY <1>2, <1>3, <1>4, <1>5, <1>6, <1>7, <1>8, <1>9, <1>10, ScreeningKeeps, CreateKeeps,
     SpendingKeeps, ApprovedKeeps, DeliverKeeps, LoseKeeps DEF ChatStep

LEMMA ChatStarts == ChatInit => ChatInv
<1> SUFFICES ASSUME ChatInit PROVE ChatInv
  OBVIOUS
<1>1. \A c \in Chats : chat[c] = NewChat
  BY DEF ChatInit
<1>2. ASSUME NEW p \in Proposals
      PROVE  proposal[p] \in ProposalRecord /\ proposal[p].status = "ABSENT"
  <2>1. (CHOOSE t \in ToolCalls : TRUE) \in ToolCalls
    BY ChatAssumption
  <2> QED BY <2>1 DEF ChatInit, ProposalRecord
<1>3. ChatTypeOK
  <2>1. chat \in [Chats -> ChatRecord]
    BY ChatTypes DEF ChatInit
  <2>2. proposal \in [Proposals -> ProposalRecord]
    BY <1>2 DEF ChatInit
  <2> QED BY <2>1, <2>2, ChatTypes DEF ChatInit, StoresTyped
<1>4. StoresInv
  BY <1>2 DEF ChatInit, StoresInv
<1>5. ASSUME NEW c \in Chats PROVE CallInv(c)
  <2>1. /\ chat[c].stage = "idle" /\ chat[c].answer = "none" /\ chat[c].reply = <<>>
        /\ chat[c].passed = 0 /\ chat[c].spent = {} /\ chat[c].barred = {}
    BY <1>1 DEF NewChat
  <2>2. Prefix(c) = {} /\ Len(<<>>) = 0
    BY <2>1 DEF Prefix
  <2>3. PassedInv(c)
    BY <2>1, <2>2 DEF PassedInv
  <2> QED BY <2>1, <2>3 DEF CallInv, StageInv, Claims, SpentInv
<1> QED BY <1>3, <1>4, <1>5 DEF ChatInv

LEMMA ChatKeeps == ChatInv /\ [ChatNext]_chatVars => ChatInv'
<1> SUFFICES ASSUME ChatInv, [ChatNext]_chatVars PROVE ChatInv'
  OBVIOUS
<1>1. CASE UNCHANGED chatVars
  <2>1. chat' = chat /\ StoresUnchanged
    BY <1>1 DEF chatVars, StoresUnchanged
  <2> QED BY <2>1, StoresStay, WorldKeeps
<1>2. CASE ChatNext
  BY <1>2, ChatStepKeeps, VotesKeep, BarKeeps DEF ChatNext
<1> QED BY <1>1, <1>2

\* The chat proxy keeps to its types, whatever chats, votes and bars overlap.
THEOREM ChatTypeCorrect ==
  ChatSpec => []ChatTypeOK
<1>1. ChatInv => ChatTypeOK
  BY DEF ChatInv
<1> QED BY <1>1, ChatStarts, ChatKeeps, PTL DEF ChatSpec

\* Whatever the model answers and however chats, votes and bars overlap, a delivered answer
\* holds no secret and no listed name, and at most one sensitive call, which was approved.
THEOREM DeliveriesAreVetted ==
  ChatSpec => []DeliveredVetted
<1>1. ChatInv => DeliveredVetted
  <2> SUFFICES ASSUME ChatInv, NEW c \in Chats, chat[c].answer = "PASSED"
               PROVE  /\ ToSet(chat[c].reply) \cap
                           (LeakyCalls \cup ListedCalls \cup chat[c].barred) = {}
                      /\ Cardinality(SensitiveIn(chat[c].reply)) <= 1
                      /\ \A i \in SensitiveIn(chat[c].reply) :
                           <<chat[c].supplied, chat[c].reply[i]>> \in approvals
    BY DEF DeliveredVetted
  <2>1. ChatTypeOK /\ PassedInv(c) /\ StageInv(c)
    BY ChatInvOf
  <2>2. DOMAIN chat[c].reply = Prefix(c)
    BY <2>1, ChatFields DEF StageInv, Prefix
  <2>3. ToSet(chat[c].reply) \cap (LeakyCalls \cup ListedCalls \cup chat[c].barred) = {}
    BY <2>1, <2>2 DEF ToSet, PassedInv, Vetted
  <2>4. SensitiveIn(chat[c].reply) \subseteq Prefix(c)
    BY <2>2 DEF SensitiveIn
  <2>5. \A i, j \in SensitiveIn(chat[c].reply) : i = j
    BY <2>1, <2>4 DEF PassedInv, SensitiveIn
  <2>6. Cardinality(SensitiveIn(chat[c].reply)) <= 1
    <3>1. CASE SensitiveIn(chat[c].reply) = {}
      BY <3>1, FS_EmptySet
    <3>2. CASE \E i : i \in SensitiveIn(chat[c].reply)
      <4>1. PICK i : SensitiveIn(chat[c].reply) = {i}
        BY <2>5, <3>2
      <4>2. Cardinality({i}) = 1
        BY FS_Singleton
      <4> QED BY <4>1, <4>2
    <3> QED BY <3>1, <3>2
  <2>7. \A i \in SensitiveIn(chat[c].reply) : <<chat[c].supplied, chat[c].reply[i]>> \in approvals
    BY <2>1, <2>4 DEF PassedInv, SensitiveIn
  <2> QED BY <2>3, <2>6, <2>7
<1> QED BY <1>1, ChatStarts, ChatKeeps, PTL DEF ChatSpec

\* An approval is spent on the call it was given for, and the answer that spent it is only
\* ever refused for a later call.
THEOREM ApprovalsAreAccounted ==
  ChatSpec => []ApprovalsAccounted
<1>1. ChatInv => ApprovalsAccounted
  BY ChatInvOf DEF ApprovalsAccounted, SpentInv
<1> QED BY <1>1, ChatStarts, ChatKeeps, PTL DEF ChatSpec

---------------------------------------------------------------------------
(* Sanctions screening: sums of shares.                                    *)

\* A set of numbers has a least one: how the proofs below do their inductions.
LEMMA LeastOf ==
  ASSUME NEW B, B \subseteq Nat, B # {}
  PROVE  \E n \in B : \A m \in B : n <= m
<1>1. PICK n \in B : \A m \in B : ~(<<m, n>> \in OpToRel(<, Nat))
  BY WFMin, NatLessThanWellFounded, Zenon
<1>2. \A m \in Nat, k \in Nat : m < k => <<m, k>> \in OpToRel(<, Nat)
  BY Zenon DEF OpToRel
<1>3. \A m \in B : ~(m < n)
  BY <1>1, <1>2, Zenon
<1> QED BY <1>3

\* g sums the weights w over the subsets of E.
Sums(w, E, g) ==
  /\ g \in [SUBSET E -> Nat]
  /\ g[{}] = 0
  /\ \A s \in SUBSET E, x \in E : x \notin s => g[s \cup {x}] = w[x] + g[s]
  /\ \A s, t \in SUBSET E : s \subseteq t => g[s] <= g[t]

\* From the sums over all but one element to those over all.
LEMMA SumsExtend ==
  ASSUME NEW F, NEW x \in F, NEW w, \A y \in F : w[y] \in Nat,
         NEW g, Sums(w, F \ {x}, g)
  PROVE  \E h : Sums(w, F, h)
<1> DEFINE D == F \ {x}
           h == [s \in SUBSET F |-> IF x \in s THEN w[x] + g[s \ {x}] ELSE g[s]]
<1>1. /\ g \in [SUBSET D -> Nat] /\ g[{}] = 0
      /\ \A s \in SUBSET D, y \in D : y \notin s => g[s \cup {y}] = w[y] + g[s]
      /\ \A s, t \in SUBSET D : s \subseteq t => g[s] <= g[t]
  BY DEF Sums
<1>2. \A s \in SUBSET F : s \ {x} \in SUBSET D /\ (x \notin s => s \in SUBSET D)
  OBVIOUS
<1>3. /\ \A s \in SUBSET F : x \in s => h[s] = w[x] + g[s \ {x}]
      /\ \A s \in SUBSET F : x \notin s => h[s] = g[s]
  OBVIOUS
<1>4. \A s \in SUBSET F : g[s \ {x}] \in Nat /\ (x \notin s => g[s] \in Nat)
  BY <1>1, <1>2
<1>5. h \in [SUBSET F -> Nat] /\ h[{}] = 0
  BY <1>1, <1>4
<1> HIDE DEF h, D
<1>6. ASSUME NEW s \in SUBSET F, NEW y \in F, y \notin s
      PROVE  h[s \cup {y}] = w[y] + h[s]
  <2>1. CASE y = x
    <3>1. (s \cup {y}) \ {x} = s /\ x \in s \cup {y} /\ x \notin s /\ s \cup {y} \in SUBSET F
      BY <1>6, <2>1
    <3> QED BY <1>3, <2>1, <3>1
  <2>2. CASE y # x /\ x \in s
    <3>1. /\ s \cup {y} \in SUBSET F /\ x \in s \cup {y} /\ y \in D
          /\ (s \cup {y}) \ {x} = (s \ {x}) \cup {y} /\ y \notin s \ {x}
          /\ s \ {x} \in SUBSET D
      BY <1>2, <1>6, <2>2 DEF D
    <3>2. h[s \cup {y}] = w[x] + g[(s \ {x}) \cup {y}] /\ h[s] = w[x] + g[s \ {x}]
      BY <1>3, <2>2, <3>1
    <3>3. g[(s \ {x}) \cup {y}] = w[y] + g[s \ {x}]
      BY <1>1, <3>1
    <3>4. w[x] \in Nat /\ w[y] \in Nat /\ g[s \ {x}] \in Nat
      BY <1>4
    <3> QED BY <3>2, <3>3, <3>4
  <2>3. CASE y # x /\ x \notin s
    <3>1. s \cup {y} \in SUBSET F /\ x \notin s \cup {y} /\ y \in D /\ s \in SUBSET D
      BY <1>2, <2>3 DEF D
    <3> QED BY <1>1, <1>3, <1>6, <2>3, <3>1
  <2> QED BY <2>1, <2>2, <2>3
<1>7. ASSUME NEW s \in SUBSET F, NEW t \in SUBSET F, s \subseteq t
      PROVE  h[s] <= h[t]
  <2>0. s \ {x} \subseteq t \ {x} /\ (x \notin s => s \subseteq t \ {x})
    BY <1>7
  <2>1. g[s \ {x}] <= g[t \ {x}] /\ (x \notin s => g[s] <= g[t \ {x}])
    BY <1>1, <1>2, <2>0
  <2>2. /\ w[x] \in Nat /\ g[s \ {x}] \in Nat /\ g[t \ {x}] \in Nat
        /\ x \notin s => g[s] \in Nat
    BY <1>4
  <2>3. CASE x \in s
    BY <1>3, <1>7, <2>1, <2>2, <2>3
  <2>4. CASE x \notin s /\ x \in t
    BY <1>3, <2>1, <2>2, <2>4
  <2>5. CASE x \notin t
    <3>1. x \notin s /\ s \in SUBSET D /\ t \in SUBSET D
      BY <1>2, <1>7, <2>5
    <3> QED BY <1>1, <1>3, <1>7, <2>5, <3>1
  <2> QED BY <2>3, <2>4, <2>5
<1> QED BY <1>5, <1>6, <1>7 DEF Sums

LEMMA SumsExist ==
  ASSUME NEW E, IsFiniteSet(E), NEW w, \A y \in E : w[y] \in Nat
  PROVE  \E g : Sums(w, E, g)
<1> DEFINE Lacks(F) == ~\E g : Sums(w, F, g)
           B == {n \in Nat : \E F \in SUBSET E : Cardinality(F) = n /\ Lacks(F)}
<1>1. SUFFICES ASSUME Lacks(E) PROVE FALSE
  OBVIOUS
<1>2. Cardinality(E) \in B
  BY <1>1, FS_CardinalityType
<1> HIDE DEF Lacks
<1>3. PICK n \in B : \A m \in B : n <= m
  BY <1>2, LeastOf
<1>4. PICK F \in SUBSET E : Cardinality(F) = n /\ Lacks(F)
  BY <1>3
<1>5. IsFiniteSet(F)
  BY <1>4, FS_Subset
<1>6. CASE F = {}
  <2>1. Sums(w, {}, [s \in SUBSET {} |-> 0])
    BY DEF Sums
  <2> QED BY <1>4, <1>6, <2>1 DEF Lacks
<1>7. CASE F # {}
  <2>1. PICK x : x \in F
    BY <1>7
  <2>2. Cardinality(F \ {x}) = n - 1 /\ n \in Nat /\ Cardinality(F \ {x}) \in Nat
    BY <1>4, <1>5, <2>1, FS_RemoveElement, FS_CardinalityType
  <2>3. Cardinality(F \ {x}) \notin B
    BY <1>3, <2>2
  <2>4. ~Lacks(F \ {x})
    BY <2>2, <2>3
  <2>5. PICK g : Sums(w, F \ {x}, g)
    BY <2>4 DEF Lacks
  <2>6. \A y \in F : w[y] \in Nat
    OBVIOUS
  <2>7. \E h : Sums(w, F, h)
    BY <2>1, <2>5, <2>6, SumsExtend
  <2> QED BY <1>4, <2>7 DEF Lacks
<1> QED BY <1>6, <1>7

Pick(s) == CHOOSE x \in s : TRUE

\* What the fold of Total makes of every subset of S.
Folded(w, S, it) ==
  it = [s \in SUBSET S |-> IF s = {} THEN 0 ELSE w[Pick(s)] + it[s \ {Pick(s)}]]

LEMMA FoldedIsSum ==
  ASSUME NEW E, IsFiniteSet(E), NEW w, NEW g, Sums(w, E, g), NEW S \in SUBSET E
  PROVE  /\ \E it : Folded(w, S, it)
         /\ \A it : Folded(w, S, it) => it[S] = g[S]
<1>1. ASSUME NEW s \in SUBSET S, s # {}
      PROVE  /\ Pick(s) \in s /\ s \ {Pick(s)} \in SUBSET S
             /\ g[s] = w[Pick(s)] + g[s \ {Pick(s)}]
  <2>1. Pick(s) \in s
    BY <1>1 DEF Pick
  <2> DEFINE p == Pick(s)
  <2> HIDE DEF p
  <2>2. /\ s \ {p} \in SUBSET E /\ s \ {p} \in SUBSET S /\ p \in E /\ p \notin s \ {p}
        /\ (s \ {p}) \cup {p} = s
    BY <2>1 DEF p
  <2>3. g[s] = w[p] + g[s \ {p}]
    BY <2>2 DEF Sums
  <2> QED BY <2>1, <2>2, <2>3 DEF p
<1>2. \E it : Folded(w, S, it)
  <2> DEFINE it == [s \in SUBSET S |-> g[s]]
             next == [s \in SUBSET S |-> IF s = {} THEN 0 ELSE w[Pick(s)] + it[s \ {Pick(s)}]]
  <2>1. ASSUME NEW s \in SUBSET S PROVE next[s] = it[s]
    <3>1. CASE s = {}
      BY <3>1 DEF Sums
    <3>2. CASE s # {}
      BY <1>1, <3>2
    <3> QED BY <3>1, <3>2
  <2>2. next = it
    BY <2>1
  <2> QED BY <2>2 DEF Folded
<1>3. ASSUME NEW it, Folded(w, S, it) PROVE it[S] = g[S]
  <2> DEFINE B == {n \in Nat : \E s \in SUBSET S : Cardinality(s) = n /\ it[s] # g[s]}
  <2>1. SUFFICES ASSUME it[S] # g[S] PROVE FALSE
    OBVIOUS
  <2>2. \A s \in SUBSET S : IsFiniteSet(s) /\ Cardinality(s) \in Nat
    BY FS_Subset, FS_CardinalityType
  <2>3. Cardinality(S) \in B
    BY <2>1, <2>2
  <2>4. PICK n \in B : \A m \in B : n <= m
    BY <2>3, LeastOf
  <2>5. PICK s \in SUBSET S : Cardinality(s) = n /\ it[s] # g[s]
    BY <2>4
  <2>6. it[s] = IF s = {} THEN 0 ELSE w[Pick(s)] + it[s \ {Pick(s)}]
    BY <1>3, Zenon DEF Folded
  <2>7. s # {}
    BY <2>5, <2>6 DEF Sums
  <2> DEFINE d == s \ {Pick(s)}
  <2>8. d \in SUBSET S /\ Cardinality(d) = n - 1 /\ Cardinality(d) \in Nat /\ n \in Nat
    BY <1>1, <2>2, <2>5, <2>7, FS_RemoveElement
  <2>9. Cardinality(d) \notin B
    <3> HIDE DEF d, B
    <3> QED BY <2>4, <2>8
  <2>10. it[d] = g[d]
    <3>1. \A t \in SUBSET S : Cardinality(t) \notin B => it[t] = g[t]
      BY <2>2
    <3> HIDE DEF d, B
    <3> QED BY <2>8, <2>9, <3>1
  <2> QED BY <1>1, <2>5, <2>6, <2>7, <2>10
<1> QED BY <1>2, <1>3

LEMMA ClampedTypes ==
  ASSUME NEW share \in Int
  PROVE  Clamped(share) \in Nat
<1>1. PICK low \in {100000, share} : \A y \in {100000, share} : low <= y
  OBVIOUS
<1> DEFINE a == Min({100000, share})
<1>2. a \in Int
  BY <1>1 DEF Min
<1> HIDE DEF a
<1>3. \E x \in {0, a} : \A y \in {0, a} : x >= y
  BY <1>2
<1>4. Max({0, a}) \in {0, a} /\ Max({0, a}) >= 0
  BY <1>3 DEF Max
<1> QED BY <1>2, <1>4 DEF a, Clamped

\* What some owners hold together is a number, and more owners hold no less.
LEMMA TotalsGrow ==
  ASSUME NEW r \in ScreeningRequest, NEW e \in Entities,
         NEW T \in SUBSET Entities, NEW S \in SUBSET T
  PROVE  /\ Total(r.stake, S, e) \in Nat /\ Total(r.stake, T, e) \in Nat
         /\ Total(r.stake, S, e) <= Total(r.stake, T, e)
<1> DEFINE w == [h \in Entities |-> Clamped(r.stake[h][e])]
<1>1. \A h \in Entities : w[h] \in Nat
  <2>1. r.stake \in [Entities -> [Entities -> Int]]
    BY DEF ScreeningRequest
  <2>2. \A h \in Entities : r.stake[h][e] \in Int
    BY <2>1
  <2> QED BY <2>2, ClampedTypes
<1>2. IsFiniteSet(Entities)
  BY ScreeningAssumption
<1>3. \A h \in Entities : w[h] = Clamped(r.stake[h][e])
  OBVIOUS
<1> HIDE DEF w
<1>4. PICK g : Sums(w, Entities, g)
  BY <1>1, <1>2, SumsExist
<1>5. ASSUME NEW O \in SUBSET Entities PROVE Total(r.stake, O, e) = g[O]
  <2> DEFINE Fold(it) ==
        it = [s \in SUBSET O |->
                IF s = {} THEN 0 ELSE Clamped(r.stake[Pick(s)][e]) + it[s \ {Pick(s)}]]
  <2>1. Total(r.stake, O, e) = (CHOOSE it : Fold(it))[O]
    BY Zenon DEF Total, MapThenSumSet, MapThenFoldSet, Pick
  <2>2. ASSUME NEW it PROVE Fold(it) <=> Folded(w, O, it)
    <3>1. \A s \in SUBSET O : s # {} => w[Pick(s)] = Clamped(r.stake[Pick(s)][e])
      <4>1. \A s \in SUBSET O : s # {} => Pick(s) \in s
        BY DEF Pick
      <4> QED BY <1>3, <4>1
    <3>2. [s \in SUBSET O |->
             IF s = {} THEN 0 ELSE Clamped(r.stake[Pick(s)][e]) + it[s \ {Pick(s)}]]
          = [s \in SUBSET O |-> IF s = {} THEN 0 ELSE w[Pick(s)] + it[s \ {Pick(s)}]]
      BY <3>1
    <3> QED BY <3>2, Zenon DEF Folded
  <2>3. /\ \E it : Folded(w, O, it)
        /\ \A it : Folded(w, O, it) => it[O] = g[O]
    BY <1>2, <1>4, FoldedIsSum
  <2> HIDE DEF Fold
  <2>4. Fold(CHOOSE it : Fold(it))
    BY <2>2, <2>3, Zenon
  <2> QED BY <2>1, <2>2, <2>3, <2>4, Zenon
<1>6. S \in SUBSET Entities /\ T \in SUBSET Entities
  OBVIOUS
<1>7. Total(r.stake, S, e) = g[S] /\ Total(r.stake, T, e) = g[T]
  BY <1>5, <1>6
<1>8. g[S] \in Nat /\ g[T] \in Nat /\ g[S] <= g[T]
  BY <1>4, <1>6 DEF Sums
<1> QED BY <1>7, <1>8

---------------------------------------------------------------------------
(* Sanctions screening: the 50 percent rule.                               *)

\* Who is blocked when the owners in S are, and when they are asked about to a depth k.
Deemed(r, found, S) ==
  {e \in Entities :
     e \in found \/ Rounded(Total(r.stake, Owners(found, S, e), e)) >= r.threshold}

AtDepth(r, found, V, k) ==
  {e \in Entities :
     \/ e \in found
     \/ k > 0 /\ Rounded(Total(r.stake, Owners(found, V[k - 1], e), e)) >= r.threshold}

Chain(r, found, n, V) == V = [k \in 0..n |-> AtDepth(r, found, V, k)]

LEMMA AtDepths ==
  ASSUME NEW r, NEW found, NEW V, NEW k \in Nat
  PROVE  /\ k = 0 => AtDepth(r, found, V, k) = found \cap Entities
         /\ k > 0 => AtDepth(r, found, V, k) = Deemed(r, found, V[k - 1])
<1>1. CASE k = 0
  BY <1>1 DEF AtDepth
<1>2. CASE k > 0
  <2>1. AtDepth(r, found, V, k) = Deemed(r, found, V[k - 1])
    BY <1>2, Zenon DEF AtDepth, Deemed
  <2> QED BY <1>2, <2>1
<1> QED BY <1>1, <1>2

LEMMA ChainExtends ==
  ASSUME NEW r, NEW found, NEW n \in Nat, NEW V, n > 0 => Chain(r, found, n - 1, V)
  PROVE  \E U : Chain(r, found, n, U)
<1> DEFINE U == [k \in 0..n |-> IF k < n THEN V[k] ELSE AtDepth(r, found, V, n)]
<1>1. ASSUME NEW k \in 0..n PROVE AtDepth(r, found, U, k) = U[k]
  <2>1. k > 0 => U[k - 1] = V[k - 1]
    BY <1>1
  <2>2. AtDepth(r, found, U, k) = AtDepth(r, found, V, k)
    <3> HIDE DEF U
    <3>1. k \in Nat /\ (k = 0 \/ k > 0)
      BY <1>1
    <3>2. CASE k = 0
      <4>1. /\ AtDepth(r, found, U, k) = found \cap Entities
            /\ AtDepth(r, found, V, k) = found \cap Entities
        BY <3>1, <3>2, AtDepths
      <4> QED BY <4>1
    <3>3. CASE k > 0
      <4>1. /\ AtDepth(r, found, U, k) = Deemed(r, found, U[k - 1])
            /\ AtDepth(r, found, V, k) = Deemed(r, found, V[k - 1])
        BY <3>1, <3>3, AtDepths
      <4> QED BY <2>1, <3>3, <4>1
    <3> QED BY <3>1, <3>2, <3>3
  <2>3. k < n => V[k] = AtDepth(r, found, V, k)
    <3>1. SUFFICES ASSUME k < n PROVE V[k] = AtDepth(r, found, V, k)
      OBVIOUS
    <3>2. k \in 0..(n - 1) /\ n > 0
      BY <3>1
    <3>3. V = [j \in 0..(n - 1) |-> AtDepth(r, found, V, j)]
      BY <3>2 DEF Chain
    <3> QED BY <3>2, <3>3, Zenon
  <2>4. ~(k < n) => k = n
    BY <1>1
  <2> QED BY <2>2, <2>3, <2>4
<1>2. [k \in 0..n |-> AtDepth(r, found, U, k)] = [k \in 0..n |-> U[k]]
  BY <1>1, Zenon
<1>3. U = [k \in 0..n |-> U[k]]
  OBVIOUS
<1> HIDE DEF U
<1>4. Chain(r, found, n, U)
  BY <1>2, <1>3, Zenon DEF Chain
<1> QED BY <1>4

LEMMA ChainExists ==
  ASSUME NEW r, NEW found, NEW n \in Nat
  PROVE  \E V : Chain(r, found, n, V)
<1> DEFINE Has(m) == \E V : Chain(r, found, m, V)
           B == {m \in Nat : ~Has(m)}
<1>1. SUFFICES ASSUME ~Has(n) PROVE FALSE
  OBVIOUS
<1>2. PICK m \in B : \A j \in B : m <= j
  BY <1>1, LeastOf
<1>3. CASE m = 0
  <2>1. Has(m)
    BY <1>3, ChainExtends
  <2> QED BY <2>1
<1>4. CASE m > 0
  <2>1. m - 1 \in Nat /\ m - 1 \notin B
    <3> HIDE DEF B
    <3>1. m \in Nat
      BY DEF B
    <3> QED BY <1>2, <1>4, <3>1
  <2>2. Has(m - 1)
    BY <2>1
  <2>3. PICK V : Chain(r, found, m - 1, V)
    BY <2>2
  <2>4. Has(m)
    BY <1>4, <2>3, ChainExtends
  <2> QED BY <2>4
<1> QED BY <1>3, <1>4

\* What the code computes is the end of a chain.
LEMMA RuleIsChain ==
  ASSUME NEW r, r.depth \in Nat, NEW found
  PROVE  \E V : /\ Chain(r, found, r.depth, V)
                /\ evaluateSanctions50Rule(r, found) <=> r.root \in V[r.depth]
<1> DEFINE V == CHOOSE W : Chain(r, found, r.depth, W)
<1>1. Chain(r, found, r.depth, V)
  BY ChainExists, Zenon
<1>2. evaluateSanctions50Rule(r, found) <=> r.root \in V[r.depth]
  BY Zenon DEF evaluateSanctions50Rule, Chain, AtDepth
<1> QED BY <1>1, <1>2, Zenon

LEMMA ChainSteps ==
  ASSUME NEW r, NEW found, NEW n \in Nat, NEW V, Chain(r, found, n, V)
  PROVE  /\ V[0] = found \cap Entities
         /\ \A k \in 0..n : V[k] \subseteq Entities
         /\ \A k \in 0..n : k > 0 => V[k] = Deemed(r, found, V[k - 1])
<1>1. \A k \in 0..n : V[k] = AtDepth(r, found, V, k)
  BY Zenon DEF Chain
<1>2. \A k \in 0..n : V[k] \subseteq Entities
  BY <1>1 DEF AtDepth
<1> QED BY <1>1, <1>2, AtDepths

\* Rounding to a hundredth of a percent keeps the order, and is 5 thousandths off at most.
LEMMA Roundings ==
  /\ \A x, y \in Int : x <= y => Rounded(x) <= Rounded(y)
  /\ \A x \in Int : Rounded(x) \in Int /\ x - Rounding <= Rounded(x) /\ Rounded(x) <= x + Rounding
<1>1. ASSUME NEW x \in Int
      PROVE  /\ (x + 5) \div 10 \in Int /\ 10 * ((x + 5) \div 10) <= x + 5
             /\ x + 5 < 10 * ((x + 5) \div 10) + 10
  OBVIOUS
<1>2. \A x, y \in Int : x <= y => (x + 5) \div 10 <= (y + 5) \div 10
  BY <1>1
<1> QED BY <1>1, <1>2 DEF Rounded, Rounding

\* More blocked owners block no fewer.
LEMMA DeemedGrows ==
  ASSUME NEW r \in ScreeningRequest, NEW found \in SUBSET Entities,
         NEW T \in SUBSET Entities, NEW S \in SUBSET T
  PROVE  Deemed(r, found, S) \subseteq Deemed(r, found, T)
<1> SUFFICES ASSUME NEW e \in Deemed(r, found, S), e \notin found
             PROVE  e \in Deemed(r, found, T)
  BY DEF Deemed
<1> DEFINE o == Owners(found, S, e)
           p == Owners(found, T, e)
<1>1. e \in Entities /\ p \in SUBSET Entities /\ o \in SUBSET p
  BY DEF Deemed, Owners
<1>2. Rounded(Total(r.stake, o, e)) >= r.threshold
  BY DEF Deemed
<1> HIDE DEF o, p
<1>3. /\ Total(r.stake, o, e) \in Nat /\ Total(r.stake, p, e) \in Nat
      /\ Total(r.stake, o, e) <= Total(r.stake, p, e)
  BY <1>1, TotalsGrow
<1>4. /\ Rounded(Total(r.stake, o, e)) <= Rounded(Total(r.stake, p, e))
      /\ Rounded(Total(r.stake, o, e)) \in Int /\ Rounded(Total(r.stake, p, e)) \in Int
  BY <1>3, Roundings
<1>5. r.threshold \in Int
  BY DEF ScreeningRequest
<1>6. Rounded(Total(r.stake, p, e)) >= r.threshold
  BY <1>2, <1>4, <1>5
<1> QED BY <1>1, <1>6 DEF Deemed, p

\* A chain only grows, from what was found.
LEMMA ChainGrows ==
  ASSUME NEW r \in ScreeningRequest, NEW found \in SUBSET Entities,
         NEW n \in Nat, NEW V, Chain(r, found, n, V)
  PROVE  \A k \in 0..n : found \subseteq V[k] /\ (k > 0 => V[k - 1] \subseteq V[k])
<1> DEFINE Grown(k) == found \subseteq V[k] /\ (k > 0 => V[k - 1] \subseteq V[k])
           B == {k \in 0..n : ~Grown(k)}
<1>0. /\ V[0] = found
      /\ \A k \in 0..n : V[k] \subseteq Entities
      /\ \A k \in 0..n : k > 0 => V[k] = Deemed(r, found, V[k - 1])
  <2>1. V[0] = found \cap Entities
    BY ChainSteps
  <2>2. \A k \in 0..n : V[k] \subseteq Entities
    BY ChainSteps
  <2>3. ASSUME NEW k \in 0..n, k > 0 PROVE V[k] = Deemed(r, found, V[k - 1])
    BY <2>3, ChainSteps
  <2> QED BY <2>1, <2>2, <2>3
<1>1. SUFFICES ASSUME B # {} PROVE FALSE
  OBVIOUS
<1>2. B \subseteq Nat
  OBVIOUS
<1>3. PICK k \in B : \A j \in B : k <= j
  BY <1>1, <1>2, LeastOf
<1>4. k \in 0..n /\ ~Grown(k)
  OBVIOUS
<1> HIDE DEF B
<1>5. k # 0
  BY <1>0, <1>4
<1>6. k - 1 \in 0..n /\ k - 1 \notin B /\ k > 0
  BY <1>3, <1>4, <1>5
<1>7. Grown(k - 1)
  BY <1>6 DEF B
<1>8. found \subseteq V[k]
  BY <1>0, <1>4, <1>6 DEF Deemed
<1>9. V[k - 1] \subseteq V[k]
  <2>1. CASE k = 1
    BY <1>0, <1>8, <2>1
  <2>2. CASE k > 1
    <3>1. k - 2 \in 0..n /\ k - 1 > 0 /\ k - 1 - 1 = k - 2
      BY <1>4, <2>2
    <3>2. V[k - 2] \subseteq V[k - 1] /\ V[k - 1] = Deemed(r, found, V[k - 2])
      BY <1>0, <1>6, <1>7, <3>1
    <3>3. V[k - 2] \subseteq Entities /\ V[k - 1] \subseteq Entities
      BY <1>0, <1>6, <3>1
    <3>4. Deemed(r, found, V[k - 2]) \subseteq Deemed(r, found, V[k - 1])
      BY <3>2, <3>3, DeemedGrows
    <3> QED BY <1>0, <1>4, <1>6, <3>2, <3>4
  <2> QED BY <1>4, <1>6, <2>1, <2>2
<1> QED BY <1>4, <1>8, <1>9

\* As many steps as there are entities find everyone: another step adds no one.
LEMMA ChainStops ==
  ASSUME NEW r \in ScreeningRequest, NEW found \in SUBSET Entities,
         NEW n \in Nat, n >= Cardinality(Entities), NEW V, Chain(r, found, n, V)
  PROVE  Deemed(r, found, V[n]) \subseteq V[n]
<1> DEFINE Stops(k) == Deemed(r, found, V[k]) \subseteq V[k] \/ Cardinality(V[k]) >= k
           B == {k \in 0..n : ~Stops(k)}
<1>0. /\ \A k \in 0..n : V[k] \subseteq Entities
      /\ \A k \in 0..n : k > 0 => V[k] = Deemed(r, found, V[k - 1])
      /\ \A k \in 0..n : k > 0 => V[k - 1] \subseteq V[k]
  <2>1. \A k \in 0..n : V[k] \subseteq Entities
    BY ChainSteps
  <2>2. ASSUME NEW k \in 0..n, k > 0
        PROVE  V[k] = Deemed(r, found, V[k - 1]) /\ V[k - 1] \subseteq V[k]
    <3>1. V[k] = Deemed(r, found, V[k - 1])
      BY <2>2, ChainSteps
    <3>2. V[k - 1] \subseteq V[k]
      BY <2>2, ChainGrows
    <3> QED BY <3>1, <3>2
  <2> QED BY <2>1, <2>2
<1>1. IsFiniteSet(Entities) /\ Cardinality(Entities) \in Nat
  BY ScreeningAssumption, FS_CardinalityType
<1>2. \A k \in 0..n : IsFiniteSet(V[k]) /\ Cardinality(V[k]) \in Nat
  BY <1>0, <1>1, FS_Subset, FS_CardinalityType
<1>3. B = {}
  <2>1. SUFFICES ASSUME B # {} PROVE FALSE
    OBVIOUS
  <2>2. B \subseteq Nat
    OBVIOUS
  <2>3. PICK k \in B : \A j \in B : k <= j
    BY <2>1, <2>2, LeastOf
  <2>4. k \in 0..n /\ ~Stops(k)
    OBVIOUS
  <2> HIDE DEF B
  <2>5. k # 0
    BY <1>2, <2>4
  <2>6. k - 1 \in 0..n /\ k - 1 \notin B /\ k > 0
    BY <2>3, <2>4, <2>5
  <2>7. Stops(k - 1)
    BY <2>6 DEF B
  <2> DEFINE S == V[k - 1]
             T == V[k]
  <2>8. /\ T = Deemed(r, found, S) /\ S \subseteq T /\ IsFiniteSet(T)
        /\ Cardinality(S) \in Nat /\ Cardinality(T) \in Nat
    BY <1>0, <1>2, <2>4, <2>6
  <2>9. CASE Deemed(r, found, S) \subseteq S
    <3>1. S = T
      BY <2>8, <2>9
    <3>2. Deemed(r, found, T) \subseteq T
      BY <2>8, <3>1
    <3> QED BY <2>4, <3>2
  <2>10. CASE ~(Deemed(r, found, S) \subseteq S)
    <3> HIDE DEF S, T
    <3>1. S # T
      BY <2>8, <2>10
    <3>2. Cardinality(S) <= Cardinality(T) /\ Cardinality(S) # Cardinality(T)
      BY <2>8, <3>1, FS_Subset
    <3>3. Cardinality(S) >= k - 1
      BY <2>7, <2>10 DEF S
    <3>4. Cardinality(T) >= k
      BY <2>4, <2>6, <2>8, <3>2, <3>3
    <3> QED BY <2>4, <3>4 DEF T
  <2> QED BY <2>9, <2>10
<1>4. Stops(n)
  BY <1>3
<1>5. CASE Cardinality(V[n]) >= n
  <2>1. V[n] \in SUBSET Entities /\ Cardinality(V[n]) \in Nat
    BY <1>0, <1>2
  <2>2. Cardinality(V[n]) <= Cardinality(Entities)
    BY <1>1, <2>1, FS_Subset
  <2>3. Cardinality(V[n]) = Cardinality(Entities)
    BY <1>1, <1>5, <2>1, <2>2
  <2>4. V[n] = Entities
    BY <1>1, <2>1, <2>3, FS_Subset
  <2> QED BY <2>4 DEF Deemed
<1> QED BY <1>4, <1>5

\* What a lookup finds grows with the entries, and a failure only takes from it.
LEMMA ListedGrows ==
  ASSUME NEW r, NEW entries, NEW more, entries \subseteq more
  PROVE  /\ \A n, type : Hit(n, type, r, entries) => Hit(n, type, r, more)
         /\ Listed(r, entries) \subseteq Listed(r, more)
         /\ \A errors : OwnersFound(r, entries, errors) \subseteq Listed(r, more)
         /\ OwnersFound(r, entries, {}) = Listed(r, entries)
<1>1. ASSUME NEW part, part \subseteq more, NEW n, NEW type, Hit(n, type, r, part)
      PROVE  Hit(n, type, r, more)
  BY <1>1 DEF Hit
<1>2. \A errors : ReadOf(entries, errors) \subseteq more
  BY DEF ReadOf
<1>3. ReadOf(entries, {}) = entries
  BY DEF ReadOf
<1>4. \A n, type : Hit(n, type, r, entries) => Hit(n, type, r, more)
  BY <1>1
<1>5. Listed(r, entries) \subseteq Listed(r, more)
  BY <1>4 DEF Listed
<1>6. \A errors : OwnersFound(r, entries, errors) \subseteq Listed(r, more)
  BY <1>1, <1>2 DEF OwnersFound, Listed
<1>7. OwnersFound(r, entries, {}) = Listed(r, entries)
  BY <1>3, Zenon DEF OwnersFound, Listed
<1> QED BY <1>4, <1>5, <1>6, <1>7

\* Asked to a depth of as many steps as there are entities, the rule misses no one whom
\* what is found, and the shares but for their rounding, make blocked.
LEMMA RuleMissesNoOne ==
  ASSUME NEW r \in ScreeningRequest, r.depth >= Cardinality(Entities),
         NEW found \in SUBSET Entities, ~evaluateSanctions50Rule(r, found),
         NEW entries, Listed(r, entries) \subseteq found
  PROVE  r.root \notin BlockedBy(r, entries, r.threshold + Rounding)
<1> SUFFICES ASSUME r.root \in BlockedBy(r, entries, r.threshold + Rounding) PROVE FALSE
  OBVIOUS
<1>1. r.depth \in Nat /\ r.threshold \in Int
  BY DEF ScreeningRequest
<1>2. PICK V : Chain(r, found, r.depth, V) /\ ~(r.root \in V[r.depth])
  BY <1>1, RuleIsChain
<1> DEFINE S == V[r.depth]
<1>3. r.depth \in 0..r.depth
  BY <1>1
<1>4. \A k \in 0..r.depth : V[k] \subseteq Entities
  BY <1>1, <1>2, ChainSteps
<1>5. \A k \in 0..r.depth : found \subseteq V[k]
  BY <1>1, <1>2, ChainGrows
<1>6. Deemed(r, found, V[r.depth]) \subseteq V[r.depth]
  BY <1>1, <1>2, ChainStops
<1>7. S \in SUBSET Entities /\ found \subseteq S /\ Deemed(r, found, S) \subseteq S
      /\ r.root \notin S
  BY <1>2, <1>3, <1>4, <1>5, <1>6
<1> HIDE DEF S
<1>8. ASSUME NEW o \in Entities, Total(r.stake, S \ {o}, o) >= r.threshold + Rounding
      PROVE  o \in S
  <2> DEFINE t == Total(r.stake, S \ {o}, o)
  <2>1. S \ {o} \in SUBSET Entities
    BY <1>7
  <2>2. t \in Nat
    BY <2>1, TotalsGrow
  <2>3. Owners(found, S, o) = S \ {o}
    BY <1>7 DEF Owners
  <2>4. t >= r.threshold + Rounding
    BY <1>8
  <2> HIDE DEF t
  <2>5. Rounded(t) >= r.threshold
    BY <1>1, <2>2, <2>4, Roundings DEF Rounding
  <2>6. Rounded(Total(r.stake, Owners(found, S, o), o)) >= r.threshold
    BY <2>3, <2>5, Zenon DEF t
  <2>7. o \in Deemed(r, found, S)
    BY <2>6 DEF Deemed
  <2> QED BY <1>7, <2>7
<1>9. \A U \in SUBSET Entities :
        (/\ Listed(r, entries) \subseteq U
         /\ \A o \in Entities :
              Total(r.stake, U \ {o}, o) >= r.threshold + Rounding => o \in U)
        => r.root \in U
  BY Zenon DEF BlockedBy
<1>10. Listed(r, entries) \subseteq S
  BY <1>7
<1> QED BY <1>7, <1>8, <1>9, <1>10

\* To whatever depth, the rule blocks no one whom the entries, and the shares but for their
\* rounding, do not make blocked.
LEMMA RuleBlocksRightly ==
  ASSUME NEW r \in ScreeningRequest, NEW found \in SUBSET Entities,
         evaluateSanctions50Rule(r, found), NEW entries, found \subseteq Listed(r, entries)
  PROVE  r.root \in BlockedBy(r, entries, r.threshold - Rounding)
<1>1. r.depth \in Nat /\ r.threshold \in Int /\ r.root \in Entities
  BY DEF ScreeningRequest
<1>2. PICK V : Chain(r, found, r.depth, V) /\ r.root \in V[r.depth]
  BY <1>1, RuleIsChain
<1>3. /\ V[0] = found \cap Entities
      /\ \A k \in 0..r.depth : V[k] \subseteq Entities
      /\ \A k \in 0..r.depth : k > 0 => V[k] = Deemed(r, found, V[k - 1])
  <2> DEFINE n == r.depth
  <2>1. n \in Nat /\ Chain(r, found, n, V)
    BY <1>1, <1>2
  <2> HIDE DEF n
  <2>2. V[0] = found \cap Entities
    BY <2>1, ChainSteps
  <2>3. \A k \in 0..n : V[k] \subseteq Entities
    BY <2>1, ChainSteps
  <2>4. ASSUME NEW k \in 0..n, k > 0 PROVE V[k] = Deemed(r, found, V[k - 1])
    BY <2>1, <2>4, ChainSteps
  <2> QED BY <2>2, <2>3, <2>4 DEF n
<1>4. ASSUME NEW S \in SUBSET Entities, Listed(r, entries) \subseteq S,
             \A o \in Entities : Total(r.stake, S \ {o}, o) >= r.threshold - Rounding => o \in S
      PROVE  r.root \in S
  <2> DEFINE B == {k \in 0..r.depth : ~(V[k] \subseteq S)}
  <2>1. SUFFICES ASSUME B # {} PROVE FALSE
    <3>1. r.depth \in 0..r.depth
      BY <1>1
    <3>2. B = {} => V[r.depth] \subseteq S
      BY <3>1
    <3> QED BY <1>2, <3>2
  <2>2. B \subseteq Nat
    OBVIOUS
  <2>3. PICK k \in B : \A j \in B : k <= j
    BY <2>1, <2>2, LeastOf
  <2>4. k \in 0..r.depth /\ ~(V[k] \subseteq S)
    OBVIOUS
  <2> HIDE DEF B
  <2>5. k # 0
    BY <1>3, <1>4, <2>4
  <2>6. k - 1 \in 0..r.depth /\ k - 1 \notin B /\ k > 0
    BY <1>1, <2>3, <2>4, <2>5
  <2>7. V[k - 1] \subseteq S
    BY <2>6 DEF B
  <2>8. PICK e \in V[k] : e \notin S
    BY <2>4
  <2>9. e \in Entities /\ e \in Deemed(r, found, V[k - 1])
    BY <1>3, <2>4, <2>6
  <2>10. e \notin found
    BY <1>4, <2>8
  <2> DEFINE p == Owners(found, V[k - 1], e)
             q == S \ {e}
             t == Total(r.stake, p, e)
             u == Total(r.stake, q, e)
  <2>11. Rounded(t) >= r.threshold
    BY <2>9, <2>10 DEF Deemed
  <2>12. q \in SUBSET Entities /\ p \in SUBSET q
    BY <1>4, <2>7 DEF Owners
  <2> HIDE DEF p, q
  <2>13. t \in Nat /\ u \in Nat /\ t <= u
    BY <2>9, <2>12, TotalsGrow
  <2>14. u >= r.threshold - Rounding
    <3> HIDE DEF t, u
    <3> QED BY <1>1, <2>11, <2>13, Roundings DEF Rounding
  <2>15. e \in S
    BY <1>4, <2>9, <2>14 DEF q
  <2> QED BY <2>8, <2>15
<1> QED BY <1>1, <1>4, Zenon DEF BlockedBy

\* What evaluateSanctions50Rule computes, without regard to the order in which it meets owners
\* and to their cycles: asked to a depth of as many steps as there are entities, it blocks
\* exactly the members of the least set that holds what was found and everyone its own
\* rounded sums block.
THEOREM RuleIsLeastFixedPoint ==
  ASSUME NEW r \in ScreeningRequest, r.depth >= Cardinality(Entities),
         NEW found \in SUBSET Entities
  PROVE  evaluateSanctions50Rule(r, found) <=>
           \A S \in SUBSET Entities : Deemed(r, found, S) \subseteq S => r.root \in S
<1> DEFINE n == r.depth
<1>1. n \in Nat /\ n \in 0..n
  BY DEF ScreeningRequest
<1>2. PICK V : Chain(r, found, n, V) /\ (evaluateSanctions50Rule(r, found) <=> r.root \in V[n])
  BY <1>1, RuleIsChain
<1>3. V[n] \in SUBSET Entities /\ Deemed(r, found, V[n]) \subseteq V[n]
  <2>1. \A k \in 0..n : V[k] \subseteq Entities
    BY <1>1, <1>2, ChainSteps
  <2>2. Deemed(r, found, V[n]) \subseteq V[n]
    BY <1>1, <1>2, ChainStops
  <2> QED BY <1>1, <2>1, <2>2
<1> HIDE DEF n
<1>4. ASSUME NEW S \in SUBSET Entities, Deemed(r, found, S) \subseteq S
      PROVE  V[n] \subseteq S
  <2> DEFINE B == {k \in 0..n : ~(V[k] \subseteq S)}
  <2>1. SUFFICES ASSUME B # {} PROVE FALSE
    BY <1>1
  <2>2. B \subseteq Nat
    OBVIOUS
  <2>3. PICK k \in B : \A j \in B : k <= j
    BY <2>1, <2>2, LeastOf
  <2>4. k \in 0..n /\ ~(V[k] \subseteq S)
    OBVIOUS
  <2> HIDE DEF B
  <2>5. V[0] = found \cap Entities
    BY <1>1, <1>2, ChainSteps
  <2>6. k # 0
    BY <1>4, <2>4, <2>5 DEF Deemed
  <2>7. k - 1 \in 0..n /\ k - 1 \notin B /\ k > 0
    BY <1>1, <2>3, <2>4, <2>6
  <2>8. V[k - 1] \in SUBSET S
    BY <2>7 DEF B
  <2>9. V[k] = Deemed(r, found, V[k - 1])
    BY <1>1, <1>2, <2>4, <2>7, ChainSteps
  <2>10. Deemed(r, found, V[k - 1]) \subseteq Deemed(r, found, S)
    BY <2>8, DeemedGrows
  <2> QED BY <1>4, <2>4, <2>9, <2>10
<1> QED BY <1>2, <1>3, <1>4

\* An answer is one that was right for some entries between those there were when screening
\* began and those there are.
ScreeningInv ==
  /\ ScreeningTypeOK
  /\ screening.stage = "done" =>
       \E seen \in SUBSET denylist :
         /\ screening.from \subseteq seen
         /\ screening.clean <=> Clean(screening.request, seen, screening.errors)

LEMMA ScreeningStep ==
  ScreeningInv /\ [ScreeningNext]_screeningVars => ScreeningInv'
<1> SUFFICES ASSUME ScreeningInv, [ScreeningNext]_screeningVars PROVE ScreeningInv'
  OBVIOUS
<1>1. ASSUME NEW n \in Names, NEW type \in Types, addCustomSanctionsEntry(n, type)
      PROVE  ScreeningInv'
  <2>1. /\ denylist \subseteq denylist' /\ denylist' \subseteq Entries
        /\ screening' = screening
    BY <1>1 DEF addCustomSanctionsEntry, ScreeningInv, ScreeningTypeOK, Entries
  <2>2. ScreeningTypeOK'
    BY <2>1 DEF ScreeningInv, ScreeningTypeOK
  <2>3. ASSUME screening.stage = "done"
        PROVE  \E seen \in SUBSET denylist' :
                 /\ screening.from \subseteq seen
                 /\ screening.clean <=> Clean(screening.request, seen, screening.errors)
    <3>1. PICK seen \in SUBSET denylist :
                 /\ screening.from \subseteq seen
                 /\ screening.clean <=> Clean(screening.request, seen, screening.errors)
      BY <2>3 DEF ScreeningInv
    <3>2. seen \in SUBSET denylist'
      BY <2>1
    <3> QED BY <3>1, <3>2
  <2> QED BY <2>1, <2>2, <2>3 DEF ScreeningInv
<1>2. ASSUME NEW r \in Requests, BeginScreening(r)
      PROVE  ScreeningInv'
  <2>1. /\ screening' = [stage |-> "reading", request |-> r, from |-> denylist]
        /\ denylist' = denylist /\ r \in ScreeningRequest
    BY <1>2, ScreeningAssumption DEF BeginScreening
  <2>2. screening'.stage = "reading" /\ screening'.request = r /\ screening'.from = denylist
    BY <2>1
  <2> QED BY <2>1, <2>2 DEF ScreeningInv, ScreeningTypeOK
<1>3. ASSUME NEW errors \in SUBSET Names, FinishScreening(errors)
      PROVE  ScreeningInv'
  <2>1. PICK seen \in Seen :
          screening' = [stage |-> "done", request |-> screening.request,
                        from |-> screening.from, errors |-> errors,
                        clean |-> Clean(screening.request, seen, errors)]
    BY <1>3 DEF FinishScreening
  <2>2. /\ screening.stage = "reading" /\ denylist' = denylist
        /\ screening.request \in ScreeningRequest /\ screening.from \subseteq denylist
    BY <1>3 DEF FinishScreening, ScreeningInv, ScreeningTypeOK
  <2>3. seen \in SUBSET denylist /\ screening.from \subseteq seen
    BY <2>2 DEF Seen
  <2> DEFINE answer == Clean(screening.request, seen, errors)
  <2>4. answer \in BOOLEAN
    BY DEF Clean
  <2> HIDE DEF answer
  <2>5. /\ screening'.stage = "done" /\ screening'.request = screening.request
        /\ screening'.from = screening.from /\ screening'.errors = errors
        /\ screening'.clean = answer
    BY <2>1 DEF answer
  <2>6. ScreeningTypeOK'
    BY <2>2, <2>4, <2>5 DEF ScreeningInv, ScreeningTypeOK
  <2>7. screening'.clean <=> Clean(screening'.request, seen, screening'.errors)
    BY <2>4, <2>5, Zenon DEF answer
  <2>8. seen \in SUBSET denylist' /\ screening'.from \subseteq seen
    BY <2>2, <2>3, <2>5
  <2> QED BY <2>6, <2>7, <2>8 DEF ScreeningInv
<1>4. CASE UNCHANGED screeningVars
  BY <1>4 DEF screeningVars, ScreeningInv, ScreeningTypeOK
<1>5. \A errors \in {{}} \cup {{n} : n \in Names} : errors \in SUBSET Names
  OBVIOUS
<1> QED BY <1>1, <1>2, <1>3, <1>4, <1>5 DEF ScreeningNext

LEMMA ScreeningAlways == ScreeningSpec => []ScreeningInv
<1>1. ScreeningInit => ScreeningInv
  BY DEF ScreeningInit, ScreeningInv, ScreeningTypeOK
<1> QED BY <1>1, ScreeningStep, PTL DEF ScreeningSpec

\* Screening keeps to its types: the request screened, what was listed when it began, and
\* the answer.
THEOREM ScreeningTypeCorrect == ScreeningSpec => []ScreeningTypeOK
<1>1. ScreeningInv => ScreeningTypeOK
  BY DEF ScreeningInv
<1> QED BY <1>1, ScreeningAlways, PTL

\* A clean answer mentions no name listed when screening began, and clears no entity that was
\* blocked then by the 50 percent rule, whatever the cycles of ownership, when no lookup failed
\* and the owners were sent to a depth of as many steps as there are entities.
THEOREM ClearancesAreSafe == ScreeningSpec => []ClearedSafely
<1>1. ScreeningInv => ClearedSafely
  <2> SUFFICES ASSUME ScreeningInv, screening.stage = "done", screening.clean
               PROVE  ClearedSafely
    BY DEF ClearedSafely
  <2> DEFINE r == screening.request
             errors == screening.errors
             begun == screening.from
  <2>1. r \in ScreeningRequest
    BY DEF ScreeningInv, ScreeningTypeOK
  <2>2. PICK seen \in SUBSET denylist : begun \subseteq seen /\ Clean(r, seen, errors)
    BY DEF ScreeningInv
  <2>3. ASSUME NEW n \in r.candidates PROVE ~Hit(n, ScreenedAs[n], r, begun)
    <3>1. ~Hit(n, ScreenedAs[n], r, seen)
      BY <2>2 DEF Clean, CandidateBlocked
    <3> QED BY <2>2, <3>1, ListedGrows
  <2>4. ASSUME r.owned, r.depth >= Cardinality(Entities), errors = {}
        PROVE  r.root \notin BlockedBy(r, begun, r.threshold + Rounding)
    <3>1. OwnersFound(r, seen, {}) = Listed(r, seen)
      BY ListedGrows
    <3>2. ~evaluateSanctions50Rule(r, Listed(r, seen))
      BY <2>2, <2>4, <3>1, Zenon DEF Clean
    <3>3. Listed(r, begun) \subseteq Listed(r, seen) /\ Listed(r, seen) \in SUBSET Entities
      BY <2>2, ListedGrows DEF Listed
    <3> HIDE DEF r, begun
    <3> QED BY <2>1, <2>4, <3>2, <3>3, RuleMissesNoOne
  <2> QED BY <2>3, <2>4 DEF ClearedSafely
<1> QED BY <1>1, ScreeningAlways, PTL

\* A refusal has its reason: a mentioned name listed by now, a lookup of one that failed, or
\* owners who make the entity blocked by the entries there are now, to whatever depth they
\* were sent and whatever the lookups that failed.
THEOREM BlocksAreRight == ScreeningSpec => []BlockedRightly
<1>1. ScreeningInv => BlockedRightly
  <2> SUFFICES ASSUME ScreeningInv, screening.stage = "done", ~screening.clean
               PROVE  BlockedRightly
    BY DEF BlockedRightly
  <2> DEFINE r == screening.request
             errors == screening.errors
  <2>1. r \in ScreeningRequest
    BY DEF ScreeningInv, ScreeningTypeOK
  <2>2. PICK seen \in SUBSET denylist : ~Clean(r, seen, errors)
    BY DEF ScreeningInv
  <2>3. CASE \E n \in r.candidates : CandidateBlocked(n, r, seen, errors)
    <3>1. PICK n \in r.candidates : CandidateBlocked(n, r, seen, errors)
      BY <2>3
    <3>2. Hit(n, ScreenedAs[n], r, denylist) \/ n \in errors
      BY <2>2, <3>1, ListedGrows DEF CandidateBlocked
    <3> QED BY <3>2 DEF BlockedRightly
  <2>4. CASE r.owned /\ evaluateSanctions50Rule(r, OwnersFound(r, seen, errors))
    <3> DEFINE found == OwnersFound(r, seen, errors)
    <3>1. found \in SUBSET Entities
      BY DEF OwnersFound
    <3>2. found \subseteq Listed(r, denylist)
      BY <2>2, ListedGrows
    <3>3. r.root \in BlockedBy(r, denylist, r.threshold - Rounding)
      <4> HIDE DEF r, errors, found
      <4> QED BY <2>1, <2>4, <3>1, <3>2, RuleBlocksRightly DEF found
    <3> QED BY <2>4, <3>3 DEF BlockedRightly
  <2> QED BY <2>2, <2>3, <2>4 DEF Clean
<1> QED BY <1>1, ScreeningAlways, PTL
=============================================================================
