--------------------------- MODULE EvidenceProofs ---------------------------
(***************************************************************************)
(* Theorems about what is recorded with the time it was seen: the action   *)
(* covenants and the observations of a wallet.                             *)
(*                                                                         *)
(* ActionCovenants, for any runs, clock offsets and lifetimes that satisfy *)
(* CovenantAssumption: the invariant follows one run, whose steps leave    *)
(* all other runs alone (StepsAreLocal).                                   *)
(*                                                                         *)
(* WalletMonitor, for any scans, times and chain that satisfy              *)
(* MonitorAssumption and ChainAssumption: the invariant follows one scan,  *)
(* whatever the others and the chain do.                                   *)
(***************************************************************************)
EXTENDS ActionCovenants, WalletMonitor, TLAPS

---------------------------------------------------------------------------
(* Action covenants.                                                       *)

TypeInv == CovenantTypeOK /\ now \in Nat

\* When a run began, by the service's clock.
Begun(r) == run[r].observed - run[r].offset

\* What an authorization under a covenant says.
Issued(r) ==
  /\ authorization[r].expires <= Expires(r)
  /\ Begun(r) <= authorization[r].at /\ authorization[r].at <= now
  /\ authorization[r].decision = "ALLOW" =>
       /\ ~run[r].dirty
       /\ authorization[r].at - EvidenceAge <= run[r].observed
       /\ run[r].observed <= authorization[r].at
       /\ authorization[r].at < Expires(r)

\* When a run under a covenant started, and where its authorization stood then.
Started(r) ==
  /\ authorization[r].state = "made" /\ authorization[r].decision = "ALLOW"
  /\ run[r].started < authorization[r].expires
  /\ authorization[r].at + run[r].offset <= run[r].started
  /\ authorization[r].at <= Begun(r) + 2 * Timeout
  /\ run[r].started <= now + run[r].offset

\* Where the client is, and what the service can have made by then.
StepInv(r) ==
  /\ run[r].step = "idle" =>
       /\ request[r] = "none" /\ covenant[r].state = "none"
       /\ authorization[r].state = "none" /\ ~run[r].ran
  /\ run[r].step = "activating" =>
       /\ request[r] \in {"none", "activate"} /\ authorization[r].state = "none" /\ ~run[r].ran
       /\ run[r].since = Begun(r)
  /\ run[r].step = "authorizing" =>
       /\ request[r] \in {"none", "authorize"} /\ Covenanted(r) /\ ~run[r].ran
       /\ run[r].since <= Begun(r) + Timeout
  /\ run[r].step = "verifying" =>
       /\ request[r] \in {"none", "verify"} /\ covenant[r].state = "none" /\ ~run[r].ran
  /\ run[r].step = "executing" => request[r] = "none" /\ run[r].ran
  /\ run[r].step = "recording" => run[r].ran
  /\ run[r].step \notin {"recording", "ended"} => outcome[r].state = "none"
  /\ run[r].step # "ended" => run[r].result = "none"

\* What a call on its way is about: nothing that it asks for is there yet.
RequestInv(r) ==
  /\ request[r] \in {"activate", "verify"} =>
       covenant[r].state = "none" /\ authorization[r].state = "none" /\ ~run[r].ran
  /\ request[r] = "authorize" =>
       Covenanted(r) /\ authorization[r].state = "none" /\ ~run[r].ran
  /\ request[r] = "record" =>
       /\ Covenanted(r) /\ run[r].ran
       /\ run[r].started <= run[r].finished
       /\ run[r].finished <= now + run[r].offset

\* What the service has made.
MadeInv(r) ==
  /\ Begun(r) <= now
  /\ Covenanted(r) => covenant[r].at < Expires(r)
  /\ Covenanted(r) /\ authorization[r].state = "made" => Issued(r)
  /\ Covenanted(r) /\ run[r].ran => Started(r)
  /\ outcome[r].state # "refused"
  /\ outcome[r].state = "made" =>
       Covenanted(r) /\ run[r].ran /\ run[r].started <= run[r].finished
  /\ run[r].result \in {"stopped", "error"} => ~run[r].ran
  /\ run[r].result \in {"deployed", "failed"} =>
       run[r].ran /\ (Covenanted(r) => outcome[r].state = "made")

RunInv(r) == StepInv(r) /\ RequestInv(r) /\ MadeInv(r)

\* A row, stored or still to be written, is about something the service made.
RowInv(row) ==
  /\ row[1] = "covenant" => Covenanted(row[2])
  /\ row[1] = "outcome" => outcome[row[2]].state = "made"
RowsInv == \A row \in inserts \cup rows : RowInv(row)

---------------------------------------------------------------------------
(* Types.                                                                  *)

Steps ==
  {"idle", "activating", "authorizing", "verifying", "executing", "recording", "ended"}

Leads == Offsets \cup {0}

Exits == {0, 1}

RunRecord ==
  [step : Steps, offset : Leads, dirty : BOOLEAN, observed : Int, since : Int,
   ran : BOOLEAN, started : Int, finished : Int, exit : Exits, result : Results]

RequestKinds == {"none", "activate", "authorize", "verify", "record"}

AuthorizationRecord ==
  [state : {"none", "made"}, at : Int, decision : {"ALLOW", "REVIEW", "BLOCK"}, expires : Int]

MadeRecord == [state : {"none", "refused", "made"}, at : Int]

LEMMA TypesUnfold ==
  CovenantTypeOK <=>
    /\ run \in [Runs -> RunRecord]
    /\ request \in [Runs -> RequestKinds]
    /\ covenant \in [Runs -> MadeRecord]
    /\ authorization \in [Runs -> AuthorizationRecord]
    /\ outcome \in [Runs -> MadeRecord]
    /\ inserts \subseteq Kinds \X Runs
    /\ rows \subseteq Kinds \X Runs
BY DEF CovenantTypeOK, RunRecord, Leads, Exits, Steps, RequestKinds, MadeRecord, AuthorizationRecord

LEMMA ConstantTypes ==
  ASSUME CovenantAssumption
  PROVE  /\ Leads \subseteq Int
         /\ Timeout \in Nat /\ DraftTTL \in Nat /\ AuthTTL \in Nat /\ EvidenceAge \in Nat
         /\ Skew \in Nat /\ Retention \in Nat
         /\ DraftTTL <= Skew /\ 2 * Timeout <= Skew
BY DEF CovenantAssumption, Leads

\* The fields the arithmetic of the invariant is about.
LEMMA FieldTypes ==
  ASSUME CovenantAssumption, TypeInv, NEW r \in Runs
  PROVE  /\ run[r] \in RunRecord
         /\ run[r].step \in Steps /\ run[r].result \in Results
         /\ run[r].offset \in Leads /\ run[r].offset \in Int
         /\ run[r].observed \in Int /\ run[r].since \in Int
         /\ run[r].started \in Int /\ run[r].finished \in Int
         /\ run[r].ran \in BOOLEAN /\ run[r].dirty \in BOOLEAN /\ run[r].exit \in Exits
         /\ request[r] \in RequestKinds
         /\ covenant[r] \in MadeRecord /\ covenant[r].at \in Int
         /\ authorization[r] \in AuthorizationRecord
         /\ authorization[r].at \in Int /\ authorization[r].expires \in Int
         /\ outcome[r] \in MadeRecord
         /\ now \in Int
<1>1. run[r] \in RunRecord /\ request[r] \in RequestKinds /\ covenant[r] \in MadeRecord
      /\ authorization[r] \in AuthorizationRecord /\ outcome[r] \in MadeRecord /\ now \in Int
  BY TypesUnfold DEF TypeInv
<1>2. Leads \subseteq Int
  BY ConstantTypes
<1>3. /\ run[r].step \in Steps /\ run[r].result \in Results
      /\ run[r].offset \in Leads
      /\ run[r].observed \in Int /\ run[r].since \in Int
      /\ run[r].started \in Int /\ run[r].finished \in Int
      /\ run[r].ran \in BOOLEAN /\ run[r].dirty \in BOOLEAN /\ run[r].exit \in Exits
  BY <1>1 DEF RunRecord
<1>4. covenant[r].at \in Int /\ authorization[r].at \in Int /\ authorization[r].expires \in Int
  BY <1>1 DEF MadeRecord, AuthorizationRecord
<1> QED
  BY <1>1, <1>2, <1>3, <1>4

\* A step of one run leaves the others alone.
Untouched(q) ==
  /\ run'[q] = run[q] /\ request'[q] = request[q] /\ covenant'[q] = covenant[q]
  /\ authorization'[q] = authorization[q] /\ outcome'[q] = outcome[q]

LEMMA RunEndsTyped ==
  ASSUME CovenantAssumption, TypeInv, NEW r \in Runs, NEW result \in Results, RunEnds(r, result)
  PROVE  run' \in [Runs -> RunRecord]
<1>1. run \in [Runs -> RunRecord]
  BY TypesUnfold DEF TypeInv
<1>2. "ended" \in Steps
  BY DEF Steps
<1>3. [[run[r] EXCEPT !.step = "ended"] EXCEPT !.result = result] \in RunRecord
  BY <1>1, <1>2 DEF RunRecord
<1> QED
  BY <1>1, <1>3, SMTT(30) DEF RunEnds

LEMMA ClientTyped ==
  ASSUME CovenantAssumption, TypeInv, NEW r \in Runs, ClientStep(r)
  PROVE  CovenantTypeOK'
<1>1. run \in [Runs -> RunRecord] /\ request \in [Runs -> RequestKinds] /\ run[r] \in RunRecord
  BY TypesUnfold DEF TypeInv
<1>2. now \in Int /\ Clock(r) \in Int
  <2>1. now \in Int /\ run[r].offset \in Int
    BY FieldTypes
  <2> QED
    BY <2>1 DEF Clock
<1>3. \A step \in Steps : [[run[r] EXCEPT !.step = step] EXCEPT !.since = now] \in RunRecord
  BY <1>1, <1>2 DEF RunRecord
<1>4. ServiceUnchanged
  BY DEF ClientStep, Observe, Bootstrap, Activated, Authorized, Verified, Finish, Signalled,
         Recorded, GiveUp
<1>5. {"error", "signalled", "stopped", "deployed", "failed", "outcome_unrecorded"}
        \subseteq Results
  BY DEF Results
<1>6. {"activating", "authorizing", "verifying", "executing", "recording", "ended"}
        \subseteq Steps
  BY DEF Steps
<1>7. /\ \A kind \in RequestKinds : [request EXCEPT ![r] = kind] \in [Runs -> RequestKinds]
      /\ {"none", "activate", "authorize", "verify", "record"} \subseteq RequestKinds
  BY <1>1, SMTT(30) DEF RequestKinds
<1>8. Deploys(r) => run' \in [Runs -> RunRecord]
  <2>1. SUFFICES ASSUME Deploys(r) PROVE run' \in [Runs -> RunRecord]
    OBVIOUS
  <2>2. [[[run[r] EXCEPT !.step = "executing"] EXCEPT !.ran = TRUE] EXCEPT !.started = Clock(r)]
          \in RunRecord
    BY <1>1, <1>2, <1>6 DEF RunRecord
  <2> QED
    BY <1>1, <2>1, <2>2, SMTT(30) DEF Deploys
<1>9. run' \in [Runs -> RunRecord] /\ request' \in [Runs -> RequestKinds]
  <2>1. ASSUME NEW offset \in Offsets, NEW dirty \in BOOLEAN, Observe(r, offset, dirty)
        PROVE  run' \in [Runs -> RunRecord] /\ request' \in [Runs -> RequestKinds]
    <3>1. offset \in Leads /\ offset \in Int /\ now + offset \in Int
      <4>1. offset \in Leads
        BY DEF Leads
      <4>2. offset \in Int
        BY <4>1, ConstantTypes
      <4> QED
        BY <1>2, <4>1, <4>2
    <3>2. [[[[[run[r] EXCEPT !.step = "activating"] EXCEPT !.since = now] EXCEPT !.offset = offset]
             EXCEPT !.dirty = dirty] EXCEPT !.observed = now + offset] \in RunRecord
      BY <1>1, <1>2, <1>6, <3>1 DEF RunRecord
    <3>3. run' \in [Runs -> RunRecord]
      BY <1>1, <2>1, <3>2, SMTT(30) DEF Observe
    <3> QED
      BY <1>7, <2>1, <3>3 DEF Observe
  <2>2. ASSUME NEW offset \in Offsets, NEW dirty \in BOOLEAN, Bootstrap(r, offset, dirty)
        PROVE  run' \in [Runs -> RunRecord] /\ request' \in [Runs -> RequestKinds]
    <3>1. offset \in Leads /\ offset \in Int /\ now + offset \in Int
      <4>1. offset \in Leads
        BY DEF Leads
      <4>2. offset \in Int
        BY <4>1, ConstantTypes
      <4> QED
        BY <1>2, <4>1, <4>2
    <3>2. [[[[run[r] EXCEPT !.step = "verifying"] EXCEPT !.since = now] EXCEPT !.offset = offset]
             EXCEPT !.observed = now + offset] \in RunRecord
      BY <1>1, <1>2, <1>6, <3>1 DEF RunRecord
    <3>3. CASE dirty
      BY <1>1, <1>5, <2>2, <3>3, RunEndsTyped DEF Bootstrap
    <3>4. CASE ~dirty
      <4>0. run' = [run EXCEPT ![r].step = "verifying", ![r].since = now, ![r].offset = offset,
                               ![r].observed = now + offset]
        BY <2>2, <3>4 DEF Bootstrap
      <4>1. run' \in [Runs -> RunRecord]
        BY <1>1, <3>2, <4>0, SMTT(30)
      <4> QED
        BY <1>7, <2>2, <3>4, <4>1 DEF Bootstrap
    <3> QED
      BY <3>3, <3>4
  <2>3. CASE Activated(r)
    <3>0. run' = [run EXCEPT ![r].step = "authorizing", ![r].since = now]
      BY <2>3 DEF Activated, CallsService
    <3>2. [[run[r] EXCEPT !.step = "authorizing"] EXCEPT !.since = now] \in RunRecord
      BY <1>3, <1>6
    <3>1. run' \in [Runs -> RunRecord]
      BY <1>1, <3>0, <3>2, SMTT(30)
    <3> QED
      BY <1>7, <2>3, <3>1 DEF Activated, CallsService
  <2>4. CASE Authorized(r)
    BY <1>1, <1>5, <1>8, <2>4, RunEndsTyped DEF Authorized
  <2>5. CASE Verified(r)
    BY <1>1, <1>5, <1>8, <2>5, RunEndsTyped DEF Verified
  <2>6. ASSUME NEW exit \in {0, 1}, Finish(r, exit)
        PROVE  run' \in [Runs -> RunRecord] /\ request' \in [Runs -> RequestKinds]
    <3>0. exit \in Exits
      BY <2>6 DEF Exits
    <3>1. [[[[run[r] EXCEPT !.step = "recording"] EXCEPT !.finished = Clock(r)]
             EXCEPT !.since = now] EXCEPT !.exit = exit] \in RunRecord
      BY <1>1, <1>2, <1>6, <3>0 DEF RunRecord
    <3>2. CASE Covenanted(r)
      <4>0. run' = [run EXCEPT ![r].step = "recording", ![r].finished = Clock(r),
                               ![r].since = now, ![r].exit = exit]
        BY <2>6, <3>2 DEF Finish
      <4>1. run' \in [Runs -> RunRecord]
        BY <1>1, <3>1, <4>0, SMTT(30)
      <4> QED
        BY <1>7, <2>6, <3>2, <4>1 DEF Finish
    <3>3. CASE ~Covenanted(r)
      BY <1>1, <1>5, <2>6, <3>3, RunEndsTyped DEF Finish, ExitResult
    <3> QED
      BY <3>2, <3>3
  <2>7. CASE Signalled(r)
    BY <1>1, <1>5, <2>7, RunEndsTyped DEF Signalled
  <2>8. CASE Recorded(r)
    BY <1>1, <1>5, <2>8, RunEndsTyped DEF Recorded, ExitResult
  <2>9. CASE GiveUp(r)
    <3>1. run' \in [Runs -> RunRecord]
      BY <1>5, <2>9, RunEndsTyped DEF GiveUp
    <3> QED
      BY <1>1, <1>7, <2>9, <3>1 DEF GiveUp, Answered
  <2> QED
    BY <2>1, <2>2, <2>3, <2>4, <2>5, <2>6, <2>7, <2>8, <2>9 DEF ClientStep
<1> QED
  BY <1>4, <1>9, TypesUnfold DEF TypeInv, CovenantTypeOK, ServiceUnchanged, RunRecord,
     Leads, Exits, Steps, RequestKinds

LEMMA ServiceTyped ==
  ASSUME CovenantAssumption, TypeInv, NEW r \in Runs, ServiceStep(r)
  PROVE  CovenantTypeOK'
<1>1. /\ run \in [Runs -> RunRecord] /\ request \in [Runs -> RequestKinds]
      /\ covenant \in [Runs -> MadeRecord] /\ authorization \in [Runs -> AuthorizationRecord]
      /\ outcome \in [Runs -> MadeRecord]
      /\ inserts \subseteq Kinds \X Runs /\ rows \subseteq Kinds \X Runs
  BY TypesUnfold DEF TypeInv
<1>2. Expires(r) \in Int /\ now \in Int /\ AuthTTL \in Int /\ now + AuthTTL \in Int
  BY FieldTypes, ConstantTypes DEF Expires
<1>3. [request EXCEPT ![r] = "none"] \in [Runs -> RequestKinds]
  BY <1>1, SMTT(30) DEF RequestKinds
<1>4. \A kind \in {"covenant", "authorization", "outcome"} :
        inserts \cup {<<kind, r>>} \subseteq Kinds \X Runs
  BY <1>1, SMTT(30) DEF Kinds
<1>5. \A state \in {"refused", "made"} : [state |-> state, at |-> now] \in MadeRecord
  BY <1>2, SMTT(30) DEF MadeRecord
<1>6. CASE Activate(r)
  <2>1. covenant' \in [Runs -> MadeRecord]
    BY <1>1, <1>5, <1>6, SMTT(30) DEF Activate
  <2>2. inserts' \subseteq Kinds \X Runs
    BY <1>1, <1>4, <1>6, SMTT(30) DEF Activate
  <2> QED
    BY <1>1, <1>3, <1>6, <2>1, <2>2, TypesUnfold
       DEF Activate, Answered, CovenantTypeOK, RunRecord, Leads, Exits, Steps, RequestKinds,
           MadeRecord, AuthorizationRecord
<1>7. ASSUME NEW permitted \in BOOLEAN, Authorize(r, permitted) PROVE CovenantTypeOK'
  <2>1. Decision(r, permitted) \in {"ALLOW", "REVIEW", "BLOCK"}
    BY SMTT(30) DEF Decision
  <2>2. authorization' \in [Runs -> AuthorizationRecord]
    BY <1>1, <1>2, <1>7, <2>1, SMTT(30) DEF Authorize, AuthorizationRecord
  <2> QED
    BY <1>1, <1>3, <1>4, <1>7, <2>2, TypesUnfold
       DEF Authorize, Answered, CovenantTypeOK, RunRecord, Leads, Exits, Steps, RequestKinds,
           MadeRecord, AuthorizationRecord
<1>8. ASSUME NEW permitted \in BOOLEAN, Verify(r, permitted) PROVE CovenantTypeOK'
  <2> DEFINE d == IF permitted THEN "ALLOW" ELSE "BLOCK"
  <2>1. authorization' =
          [authorization EXCEPT ![r].state = "made", ![r].at = now, ![r].decision = d]
    BY <1>8 DEF Verify
  <2>0. d \in {"ALLOW", "REVIEW", "BLOCK"}
    OBVIOUS
  <2> HIDE DEF d
  <2>2. [[[authorization[r] EXCEPT !.state = "made"] EXCEPT !.at = now] EXCEPT !.decision = d]
          \in AuthorizationRecord
    BY <1>1, <1>2, <2>0 DEF AuthorizationRecord
  <2>3. authorization' \in [Runs -> AuthorizationRecord]
    BY <1>1, <2>1, <2>2, SMTT(30)
  <2> QED
    BY <1>1, <1>3, <1>8, <2>3, TypesUnfold
       DEF Verify, Answered, CovenantTypeOK, RunRecord, Leads, Exits, Steps, RequestKinds,
           MadeRecord, AuthorizationRecord
<1>9. CASE Record(r)
  <2>1. outcome' \in [Runs -> MadeRecord]
    BY <1>1, <1>5, <1>9, SMTT(30) DEF Record
  <2>2. inserts' \subseteq Kinds \X Runs
    BY <1>1, <1>4, <1>9, SMTT(30) DEF Record
  <2> QED
    BY <1>1, <1>3, <1>9, <2>1, <2>2, TypesUnfold
       DEF Record, Answered, CovenantTypeOK, RunRecord, Leads, Exits, Steps, RequestKinds,
           MadeRecord, AuthorizationRecord
<1> QED
  BY <1>6, <1>7, <1>8, <1>9 DEF ServiceStep

LEMMA AuditTyped ==
  ASSUME TypeInv, AuditStep
  PROVE  CovenantTypeOK'
BY SMTT(30) DEF TypeInv, CovenantTypeOK, AuditStep, Insert, InsertFails, pruneAuditMetadata

LEMMA TypesKept ==
  ASSUME CovenantAssumption, TypeInv, [CovenantNext]_<<now, covenantVars>>
  PROVE  TypeInv'
<1>1. CASE CovenantStep /\ UNCHANGED now
  BY <1>1, ClientTyped, ServiceTyped, AuditTyped DEF CovenantStep, TypeInv
<1>2. CASE UNCHANGED covenantVars /\ (Advance \/ UNCHANGED now)
  <2>1. CovenantTypeOK'
    BY <1>2 DEF TypeInv, CovenantTypeOK, covenantVars
  <2> QED
    BY <1>2, <2>1, SMTT(30) DEF TypeInv, Advance
<1> QED
  BY <1>1, <1>2 DEF CovenantNext, covenantVars

LEMMA TypesInitially ==
  ASSUME CovenantAssumption, CovenantInit, ClockInit
  PROVE  TypeInv
BY SMTT(30) DEF CovenantInit, ClockInit, TypeInv, CovenantTypeOK, Results

---------------------------------------------------------------------------
(* One run.                                                                *)

\* Time passes, or another run takes a step.
LEMMA UntouchedKeeps ==
  ASSUME CovenantAssumption, TypeInv, NEW r \in Runs, RunInv(r), Untouched(r),
         now' \in Int, now <= now'
  PROVE  RunInv(r)'
<1>1. now \in Int /\ run[r].offset \in Int /\ run[r].finished \in Int /\ run[r].started \in Int
      /\ run[r].observed \in Int /\ authorization[r].at \in Int
  BY FieldTypes
<1>2. Begun(r)' = Begun(r) /\ Expires(r)' = Expires(r) /\ (Covenanted(r)' <=> Covenanted(r))
  BY DEF Untouched, Begun, Expires, Covenanted
<1>3. Begun(r) \in Int
  BY <1>1 DEF Begun
<1>4. StepInv(r)'
  BY <1>2 DEF RunInv, StepInv, Untouched
<1>5. RequestInv(r)'
  BY <1>1, <1>2, SMTT(30) DEF RunInv, RequestInv, Untouched
<1>6. MadeInv(r)'
  <2>1. Issued(r) => Issued(r)'
    BY <1>1, <1>2, SMTT(30) DEF Issued, Untouched
  <2>2. Started(r) => Started(r)'
    BY <1>1, <1>2, SMTT(30) DEF Started, Untouched
  <2> QED
    BY <1>1, <1>2, <1>3, <2>1, <2>2, SMTT(30) DEF RunInv, MadeInv, Untouched
<1> QED
  BY <1>4, <1>5, <1>6 DEF RunInv

LEMMA ActivateKeeps ==
  ASSUME CovenantAssumption, TypeInv, NEW r \in Runs, RunInv(r), Activate(r), now' = now
  PROVE  RunInv(r)'
<1>1. run[r].step \in Steps /\ now \in Int /\ covenant \in [Runs -> MadeRecord]
      /\ request \in [Runs -> RequestKinds]
  BY FieldTypes, TypesUnfold DEF TypeInv
<1>2. /\ request[r] = "activate" /\ request'[r] = "none"
      /\ covenant'[r].state \in {"made", "refused"} /\ covenant'[r].at = now
      /\ covenant'[r].state = "made" => Expires(r) > now
      /\ run' = run /\ authorization' = authorization /\ outcome' = outcome
  BY <1>1, SMTT(30) DEF Activate, Answered
<1>3. covenant[r].state = "none" /\ authorization[r].state = "none" /\ ~run[r].ran
  BY <1>2 DEF RunInv, RequestInv
<1>4. Begun(r)' = Begun(r) /\ Expires(r)' = Expires(r)
  BY <1>2 DEF Begun, Expires
<1>5. StepInv(r)'
  BY <1>1, <1>2, <1>3, <1>4, SMTT(30) DEF RunInv, StepInv, Covenanted, Steps
<1>6. RequestInv(r)'
  BY <1>2 DEF RequestInv
<1>7. MadeInv(r)'
  BY <1>1, <1>2, <1>3, <1>4, SMTT(30) DEF RunInv, MadeInv, Covenanted
<1> QED
  BY <1>5, <1>6, <1>7 DEF RunInv

LEMMA AuthorizeKeeps ==
  ASSUME CovenantAssumption, TypeInv, NEW r \in Runs, NEW permitted \in BOOLEAN, RunInv(r),
         Authorize(r, permitted), now' = now
  PROVE  RunInv(r)'
<1>1. run[r].step \in Steps /\ now \in Int /\ authorization \in [Runs -> AuthorizationRecord]
      /\ request \in [Runs -> RequestKinds] /\ run[r].observed \in Int /\ Expires(r) \in Int
  BY FieldTypes, TypesUnfold, ConstantTypes DEF TypeInv, Expires
<1>2. /\ request[r] = "authorize" /\ request'[r] = "none"
      /\ run' = run /\ covenant' = covenant /\ outcome' = outcome
  BY <1>1, SMTT(30) DEF Authorize, Answered
<1>3. Covenanted(r) /\ authorization[r].state = "none" /\ ~run[r].ran
  BY <1>2 DEF RunInv, RequestInv
<1>4. Begun(r)' = Begun(r) /\ Expires(r)' = Expires(r) /\ (Covenanted(r)' <=> Covenanted(r))
  BY <1>2 DEF Begun, Expires, Covenanted
<1>5. /\ authorization'[r].state = "made" /\ authorization'[r].at = now
      /\ authorization'[r].decision = Decision(r, permitted)
      /\ authorization'[r].expires =
           IF Expires(r) < now + AuthTTL THEN Expires(r) ELSE now + AuthTTL
  BY <1>1 DEF Authorize
<1>6. Issued(r)'
  <2>1. Begun(r) <= now
    BY DEF RunInv, MadeInv
  <2>2. authorization'[r].expires <= Expires(r)
    BY <1>1, <1>5, ConstantTypes, SMTT(30)
  <2>3. Decision(r, permitted) = "ALLOW" =>
          /\ ~run[r].dirty /\ now < Expires(r)
          /\ run[r].observed \in (now - EvidenceAge)..now
    BY <1>1, SMTT(30) DEF Decision, Invalidated
  <2> QED
    BY <1>1, <1>2, <1>4, <1>5, <2>1, <2>2, <2>3, ConstantTypes, SMTT(30) DEF Issued
<1>7. StepInv(r)'
  BY <1>1, <1>2, <1>3, <1>4, SMTT(30) DEF RunInv, StepInv, Covenanted, Steps
<1>8. RequestInv(r)'
  BY <1>2 DEF RequestInv
<1>9. MadeInv(r)'
  BY <1>2, <1>3, <1>4, <1>6, SMTT(30) DEF RunInv, MadeInv
<1> QED
  BY <1>7, <1>8, <1>9 DEF RunInv

LEMMA VerifyKeeps ==
  ASSUME CovenantAssumption, TypeInv, NEW r \in Runs, NEW permitted \in BOOLEAN, RunInv(r),
         Verify(r, permitted), now' = now
  PROVE  RunInv(r)'
<1>1. run[r].step \in Steps /\ request \in [Runs -> RequestKinds]
  BY FieldTypes, TypesUnfold DEF TypeInv
<1>2. /\ request[r] = "verify" /\ request'[r] = "none"
      /\ run' = run /\ covenant' = covenant /\ outcome' = outcome
  BY <1>1, SMTT(30) DEF Verify, Answered
<1>3. covenant[r].state = "none" /\ ~run[r].ran
  BY <1>2 DEF RunInv, RequestInv
<1>4. Begun(r)' = Begun(r) /\ Expires(r)' = Expires(r) /\ ~Covenanted(r)' /\ ~Covenanted(r)
  BY <1>2, <1>3 DEF Begun, Expires, Covenanted
<1>5. StepInv(r)'
  BY <1>1, <1>2, <1>3, <1>4, SMTT(30) DEF RunInv, StepInv, Steps
<1>6. RequestInv(r)'
  BY <1>2 DEF RequestInv
<1>7. MadeInv(r)'
  BY <1>2, <1>3, <1>4, SMTT(30) DEF RunInv, MadeInv
<1> QED
  BY <1>5, <1>6, <1>7 DEF RunInv

\* The heart of OutcomesRecordable: a run that got as far has clocks that are not too far
\* apart.  It was observed before it was authorized, so its client is at most two waits
\* ahead; it was authorized within the term, so its client is less than a term behind.
LEMMA OutcomesAreTimely ==
  ASSUME CovenantAssumption, TypeInv, NEW r \in Runs, RunInv(r), request[r] = "record"
  PROVE  authorization[r].decision = "ALLOW" /\ OutcomeTimely(r)
<1>1. /\ run[r].offset \in Int /\ run[r].observed \in Int /\ run[r].started \in Int
      /\ run[r].finished \in Int /\ authorization[r].at \in Int
      /\ authorization[r].expires \in Int /\ now \in Int
  BY FieldTypes
<1>2. /\ Covenanted(r) /\ run[r].ran
      /\ run[r].finished <= now + run[r].offset
  BY DEF RunInv, RequestInv
<1>3. Started(r) /\ Issued(r)
  BY <1>2 DEF RunInv, MadeInv, Started
<1>4. authorization[r].decision = "ALLOW"
  BY <1>3 DEF Started
<1>5. /\ run[r].observed <= authorization[r].at
      /\ authorization[r].at < run[r].observed + DraftTTL
      /\ run[r].observed - run[r].offset <= authorization[r].at
  BY <1>3, <1>4 DEF Issued, Begun, Expires
<1>6. /\ run[r].started < authorization[r].expires
      /\ authorization[r].at + run[r].offset <= run[r].started
      /\ authorization[r].at <= run[r].observed - run[r].offset + 2 * Timeout
  BY <1>3 DEF Started, Begun
<1>7. run[r].offset <= Skew /\ -Skew <= run[r].offset
  BY <1>1, <1>5, <1>6, ConstantTypes, SMTT(30)
<1> QED
  BY <1>1, <1>2, <1>4, <1>6, <1>7, ConstantTypes, SMTT(30) DEF OutcomeTimely

LEMMA RecordKeeps ==
  ASSUME CovenantAssumption, TypeInv, NEW r \in Runs, RunInv(r), Record(r), now' = now
  PROVE  RunInv(r)'
<1>1. run[r].step \in Steps /\ request \in [Runs -> RequestKinds]
      /\ outcome \in [Runs -> MadeRecord]
  BY FieldTypes, TypesUnfold DEF TypeInv
<1>2. request[r] = "record"
  BY DEF Record
<1>3. authorization[r].decision = "ALLOW" /\ OutcomeTimely(r)
  BY <1>2, OutcomesAreTimely
<1>4. /\ request'[r] = "none" /\ outcome'[r].state = "made"
      /\ run' = run /\ covenant' = covenant /\ authorization' = authorization
  BY <1>1, <1>3, SMTT(30) DEF Record, Answered
<1>5. Covenanted(r) /\ run[r].ran /\ run[r].started <= run[r].finished
  BY <1>2 DEF RunInv, RequestInv
<1>6. Begun(r)' = Begun(r) /\ Expires(r)' = Expires(r) /\ (Covenanted(r)' <=> Covenanted(r))
  BY <1>4 DEF Begun, Expires, Covenanted
<1>7. StepInv(r)'
  BY <1>1, <1>2, <1>4, <1>5, <1>6, SMTT(30) DEF RunInv, StepInv, Steps, Covenanted
<1>8. RequestInv(r)'
  BY <1>4 DEF RequestInv
<1>9. MadeInv(r)'
  <2>1. (Issued(r)' <=> Issued(r)) /\ (Started(r)' <=> Started(r))
    BY <1>4, <1>6 DEF Issued, Started
  <2> QED
    BY <1>4, <1>5, <1>6, <2>1, SMTT(30) DEF RunInv, MadeInv
<1> QED
  BY <1>7, <1>8, <1>9 DEF RunInv

\* A run that ends, for a reason that fits what it did.
LEMMA EndingKeeps ==
  ASSUME CovenantAssumption, TypeInv, NEW r \in Runs, RunInv(r), NEW result \in Results,
         RunEnds(r, result), ServiceUnchanged, now' = now,
         request'[r] = request[r] \/ request'[r] = "none",
         result \in {"stopped", "error"} => ~run[r].ran,
         result \in {"deployed", "failed"} =>
           run[r].ran /\ (Covenanted(r) => outcome[r].state = "made")
  PROVE  RunInv(r)'
<1>1. run \in [Runs -> RunRecord] /\ run[r] \in RunRecord
  BY TypesUnfold DEF TypeInv
<1>2. run'[r] = [[run[r] EXCEPT !.step = "ended"] EXCEPT !.result = result]
  BY <1>1, SMTT(30) DEF RunEnds
<1>3. /\ run'[r].step = "ended" /\ run'[r].result = result
      /\ run'[r].offset = run[r].offset /\ run'[r].dirty = run[r].dirty
      /\ run'[r].observed = run[r].observed /\ run'[r].ran = run[r].ran
      /\ run'[r].started = run[r].started /\ run'[r].finished = run[r].finished
  BY <1>1, <1>2 DEF RunRecord
<1>4. covenant' = covenant /\ authorization' = authorization /\ outcome' = outcome
  BY DEF ServiceUnchanged
<1>5. Begun(r)' = Begun(r) /\ Expires(r)' = Expires(r) /\ (Covenanted(r)' <=> Covenanted(r))
  BY <1>3, <1>4 DEF Begun, Expires, Covenanted
<1>6. StepInv(r)'
  BY <1>3 DEF StepInv
<1>7. RequestInv(r)'
  BY <1>3, <1>4, <1>5 DEF RunInv, RequestInv
<1>8. MadeInv(r)'
  <2>1. (Issued(r)' <=> Issued(r)) /\ (Started(r)' <=> Started(r))
    BY <1>3, <1>4, <1>5 DEF Issued, Started
  <2> QED
    BY <1>3, <1>4, <1>5, <2>1 DEF RunInv, MadeInv
<1> QED
  BY <1>6, <1>7, <1>8 DEF RunInv

LEMMA ObserveKeeps ==
  ASSUME CovenantAssumption, TypeInv, NEW r \in Runs, RunInv(r), NEW offset \in Offsets,
         NEW dirty \in BOOLEAN, Observe(r, offset, dirty), now' = now
  PROVE  RunInv(r)'
<1>1. run \in [Runs -> RunRecord] /\ run[r] \in RunRecord /\ request \in [Runs -> RequestKinds]
  BY TypesUnfold DEF TypeInv
<1>2. now \in Int /\ offset \in Int
  BY FieldTypes, ConstantTypes DEF Leads
<1>3. /\ run[r].step = "idle"
      /\ run' = [run EXCEPT ![r].step = "activating", ![r].since = now, ![r].offset = offset,
                            ![r].dirty = dirty, ![r].observed = now + offset]
      /\ request' = [request EXCEPT ![r] = "activate"]
      /\ covenant' = covenant /\ authorization' = authorization /\ outcome' = outcome
  BY DEF Observe, ServiceUnchanged
<1>4. /\ run'[r].step = "activating" /\ run'[r].since = now /\ run'[r].offset = offset
      /\ run'[r].observed = now + offset
      /\ run'[r].ran = run[r].ran /\ run'[r].result = run[r].result
  BY <1>1, <1>3 DEF RunRecord
<1>5. request'[r] = "activate"
  BY <1>1, <1>3
<1>6. Begun(r)' = now
  BY <1>2, <1>4, SMTT(30) DEF Begun
<1>7. /\ covenant[r].state = "none" /\ authorization[r].state = "none" /\ ~run[r].ran
      /\ outcome[r].state = "none" /\ run[r].result = "none"
  BY <1>3 DEF RunInv, StepInv
<1>8. StepInv(r)'
  BY <1>3, <1>4, <1>5, <1>6, <1>7 DEF StepInv
<1>9. RequestInv(r)'
  BY <1>3, <1>4, <1>5, <1>7 DEF RequestInv
<1>10. MadeInv(r)'
  BY <1>2, <1>3, <1>4, <1>6, <1>7, SMTT(30) DEF MadeInv, Covenanted
<1> QED
  BY <1>8, <1>9, <1>10 DEF RunInv

LEMMA BootstrapKeeps ==
  ASSUME CovenantAssumption, TypeInv, NEW r \in Runs, RunInv(r), NEW offset \in Offsets,
         NEW dirty \in BOOLEAN, Bootstrap(r, offset, dirty), now' = now
  PROVE  RunInv(r)'
<1>1. run \in [Runs -> RunRecord] /\ run[r] \in RunRecord /\ request \in [Runs -> RequestKinds]
  BY TypesUnfold DEF TypeInv
<1>2. now \in Int /\ offset \in Int
  BY FieldTypes, ConstantTypes DEF Leads
<1>3. run[r].step = "idle" /\ ServiceUnchanged
  BY DEF Bootstrap
<1>4. /\ covenant[r].state = "none" /\ authorization[r].state = "none" /\ ~run[r].ran
      /\ outcome[r].state = "none" /\ run[r].result = "none"
  BY <1>3 DEF RunInv, StepInv
<1>5. CASE dirty
  <2>1. RunEnds(r, "error") /\ request' = request /\ "error" \in Results
    BY <1>5 DEF Bootstrap, Results
  <2> QED
    BY <1>3, <1>4, <2>1, EndingKeeps
<1>6. CASE ~dirty
  <2>1. /\ run' = [run EXCEPT ![r].step = "verifying", ![r].since = now, ![r].offset = offset,
                              ![r].observed = now + offset]
        /\ request' = [request EXCEPT ![r] = "verify"]
        /\ covenant' = covenant /\ authorization' = authorization /\ outcome' = outcome
    BY <1>3, <1>6 DEF Bootstrap, ServiceUnchanged
  <2>2. /\ run'[r].step = "verifying" /\ run'[r].offset = offset
        /\ run'[r].observed = now + offset
        /\ run'[r].ran = run[r].ran /\ run'[r].result = run[r].result
    BY <1>1, <2>1 DEF RunRecord
  <2>3. request'[r] = "verify"
    BY <1>1, <2>1
  <2>4. Begun(r)' = now
    BY <1>2, <2>2, SMTT(30) DEF Begun
  <2>5. StepInv(r)'
    BY <1>4, <2>1, <2>2, <2>3 DEF StepInv
  <2>6. RequestInv(r)'
    BY <1>4, <2>1, <2>2, <2>3 DEF RequestInv
  <2>7. MadeInv(r)'
    BY <1>2, <1>4, <2>1, <2>2, <2>4, SMTT(30) DEF MadeInv, Covenanted
  <2> QED
    BY <2>5, <2>6, <2>7 DEF RunInv
<1> QED
  BY <1>5, <1>6

LEMMA ActivatedKeeps ==
  ASSUME CovenantAssumption, TypeInv, NEW r \in Runs, RunInv(r), Activated(r), now' = now
  PROVE  RunInv(r)'
<1>1. run \in [Runs -> RunRecord] /\ run[r] \in RunRecord /\ request \in [Runs -> RequestKinds]
  BY TypesUnfold DEF TypeInv
<1>2. now \in Int /\ run[r].since \in Int /\ run[r].step = "activating"
      /\ now <= run[r].since + Timeout
  BY FieldTypes DEF Activated, Waits
<1>3. /\ Covenanted(r)
      /\ run' = [run EXCEPT ![r].step = "authorizing", ![r].since = now]
      /\ request' = [request EXCEPT ![r] = "authorize"]
      /\ covenant' = covenant /\ authorization' = authorization /\ outcome' = outcome
  BY DEF Activated, CallsService, ServiceUnchanged, Covenanted
<1>4. /\ run'[r].step = "authorizing" /\ run'[r].since = now
      /\ run'[r].offset = run[r].offset /\ run'[r].dirty = run[r].dirty
      /\ run'[r].observed = run[r].observed /\ run'[r].ran = run[r].ran
      /\ run'[r].result = run[r].result
  BY <1>1, <1>3 DEF RunRecord
<1>5. request'[r] = "authorize"
  BY <1>1, <1>3
<1>6. Begun(r)' = Begun(r) /\ Expires(r)' = Expires(r) /\ (Covenanted(r)' <=> Covenanted(r))
  BY <1>3, <1>4 DEF Begun, Expires, Covenanted
<1>7. /\ authorization[r].state = "none" /\ ~run[r].ran /\ run[r].since = Begun(r)
      /\ outcome[r].state = "none" /\ run[r].result = "none"
  BY <1>2 DEF RunInv, StepInv
<1>8. StepInv(r)'
  BY <1>2, <1>3, <1>4, <1>5, <1>6, <1>7 DEF StepInv
<1>9. RequestInv(r)'
  BY <1>3, <1>4, <1>5, <1>6, <1>7 DEF RequestInv
<1>10. MadeInv(r)'
  BY <1>3, <1>4, <1>6, <1>7 DEF RunInv, MadeInv
<1> QED
  BY <1>8, <1>9, <1>10 DEF RunInv

\* A deployment starts: of a run with a covenant, under an authorization in force.
LEMMA DeploysKeeps ==
  ASSUME CovenantAssumption, TypeInv, NEW r \in Runs, RunInv(r), Deploys(r),
         ServiceUnchanged, request' = request, now' = now,
         request[r] = "none", outcome[r].state = "none", run[r].result = "none",
         Covenanted(r) =>
           /\ authorization[r].state = "made" /\ authorization[r].decision = "ALLOW"
           /\ Clock(r) < authorization[r].expires
           /\ now <= Begun(r) + 2 * Timeout
  PROVE  RunInv(r)'
<1>1. run \in [Runs -> RunRecord] /\ run[r] \in RunRecord
  BY TypesUnfold DEF TypeInv
<1>2. now \in Int /\ run[r].offset \in Int /\ authorization[r].at \in Int
      /\ authorization[r].expires \in Int /\ run[r].observed \in Int
  BY FieldTypes
<1>3. run' = [run EXCEPT ![r].step = "executing", ![r].ran = TRUE, ![r].started = Clock(r)]
  BY DEF Deploys
<1>4. /\ run'[r].step = "executing" /\ run'[r].ran = TRUE /\ run'[r].started = Clock(r)
      /\ run'[r].offset = run[r].offset /\ run'[r].dirty = run[r].dirty
      /\ run'[r].observed = run[r].observed /\ run'[r].result = run[r].result
  BY <1>1, <1>3 DEF RunRecord
<1>5. covenant' = covenant /\ authorization' = authorization /\ outcome' = outcome
  BY DEF ServiceUnchanged
<1>6. Begun(r)' = Begun(r) /\ Expires(r)' = Expires(r) /\ (Covenanted(r)' <=> Covenanted(r))
  BY <1>4, <1>5 DEF Begun, Expires, Covenanted
<1>7. Issued(r)' <=> Issued(r)
  BY <1>4, <1>5, <1>6 DEF Issued
<1>8. Covenanted(r) => Started(r)'
  <2>1. Covenanted(r) => authorization[r].at <= now
    BY DEF RunInv, MadeInv, Issued
  <2>2. Begun(r) \in Int /\ Timeout \in Int
    BY <1>2, ConstantTypes DEF Begun
  <2> QED
    BY <1>2, <1>4, <1>5, <1>6, <2>1, <2>2, SMTT(30) DEF Started, Clock
<1>9. StepInv(r)'
  BY <1>4, <1>5 DEF StepInv
<1>10. RequestInv(r)'
  BY DEF RequestInv
<1>11. MadeInv(r)'
  BY <1>4, <1>5, <1>6, <1>7, <1>8 DEF RunInv, MadeInv
<1> QED
  BY <1>9, <1>10, <1>11 DEF RunInv

LEMMA AuthorizedKeeps ==
  ASSUME CovenantAssumption, TypeInv, NEW r \in Runs, RunInv(r), Authorized(r), now' = now
  PROVE  RunInv(r)'
<1>1. /\ now \in Int /\ run[r].since \in Int /\ run[r].offset \in Int
      /\ run[r].observed \in Int /\ authorization[r].expires \in Int
      /\ Timeout \in Nat
  BY FieldTypes, ConstantTypes
<1>2. /\ run[r].step = "authorizing" /\ now <= run[r].since + Timeout
      /\ authorization[r].state = "made" /\ request' = request /\ ServiceUnchanged
  BY DEF Authorized, Waits
<1>3. /\ Covenanted(r) /\ ~run[r].ran /\ run[r].since <= Begun(r) + Timeout
      /\ request[r] \in {"none", "authorize"}
      /\ outcome[r].state = "none" /\ run[r].result = "none"
  BY <1>2 DEF RunInv, StepInv
<1>4. request[r] = "none"
  BY <1>2, <1>3 DEF RunInv, RequestInv
<1>5. CASE RunEnds(r, "stopped") \/ RunEnds(r, "error")
  <2>1. "stopped" \in Results /\ "error" \in Results
    BY DEF Results
  <2> QED
    BY <1>2, <1>3, <1>5, <2>1, EndingKeeps
<1>6. CASE /\ Deploys(r) /\ authorization[r].decision = "ALLOW"
           /\ ~(authorization[r].expires <= Clock(r))
  <2>1. Begun(r) \in Int /\ Clock(r) \in Int
    BY <1>1 DEF Begun, Clock
  <2>2. Clock(r) < authorization[r].expires /\ now <= Begun(r) + 2 * Timeout
    BY <1>1, <1>2, <1>3, <1>6, <2>1, SMTT(30)
  <2> QED
    BY <1>2, <1>3, <1>4, <1>6, <2>2, DeploysKeeps
<1> QED
  BY <1>5, <1>6 DEF Authorized

LEMMA VerifiedKeeps ==
  ASSUME CovenantAssumption, TypeInv, NEW r \in Runs, RunInv(r), Verified(r), now' = now
  PROVE  RunInv(r)'
<1>1. /\ run[r].step = "verifying" /\ authorization[r].state = "made"
      /\ request' = request /\ ServiceUnchanged
  BY DEF Verified, Waits
<1>2. /\ ~Covenanted(r) /\ ~run[r].ran /\ request[r] \in {"none", "verify"}
      /\ outcome[r].state = "none" /\ run[r].result = "none"
  BY <1>1 DEF RunInv, StepInv, Covenanted
<1>3. request[r] = "none"
  BY <1>1, <1>2 DEF RunInv, RequestInv
<1>4. CASE RunEnds(r, "stopped")
  <2>1. "stopped" \in Results
    BY DEF Results
  <2> QED
    BY <1>1, <1>2, <1>4, <2>1, EndingKeeps
<1>5. CASE Deploys(r)
  BY <1>1, <1>2, <1>3, <1>5, DeploysKeeps
<1> QED
  BY <1>4, <1>5 DEF Verified

LEMMA FinishKeeps ==
  ASSUME CovenantAssumption, TypeInv, NEW r \in Runs, RunInv(r), NEW exit \in {0, 1},
         Finish(r, exit), now' = now
  PROVE  RunInv(r)'
<1>1. run \in [Runs -> RunRecord] /\ run[r] \in RunRecord /\ request \in [Runs -> RequestKinds]
  BY TypesUnfold DEF TypeInv
<1>2. /\ now \in Int /\ run[r].offset \in Int /\ run[r].started \in Int
  BY FieldTypes
<1>3. run[r].step = "executing" /\ ServiceUnchanged
  BY DEF Finish
<1>4. run[r].ran /\ outcome[r].state = "none" /\ run[r].result = "none"
  BY <1>3 DEF RunInv, StepInv
<1>5. CASE Covenanted(r)
  <2>1. /\ run' = [run EXCEPT ![r].step = "recording", ![r].finished = Clock(r),
                              ![r].since = now, ![r].exit = exit]
        /\ request' = [request EXCEPT ![r] = "record"]
        /\ covenant' = covenant /\ authorization' = authorization /\ outcome' = outcome
    BY <1>3, <1>5 DEF Finish, ServiceUnchanged
  <2>2. /\ run'[r].step = "recording" /\ run'[r].finished = Clock(r)
        /\ run'[r].offset = run[r].offset /\ run'[r].dirty = run[r].dirty
        /\ run'[r].observed = run[r].observed /\ run'[r].ran = run[r].ran
        /\ run'[r].started = run[r].started /\ run'[r].result = run[r].result
    BY <1>1, <2>1 DEF RunRecord
  <2>3. request'[r] = "record"
    BY <1>1, <2>1
  <2>4. Begun(r)' = Begun(r) /\ Expires(r)' = Expires(r) /\ (Covenanted(r)' <=> Covenanted(r))
    BY <2>1, <2>2 DEF Begun, Expires, Covenanted
  <2>5. run[r].started <= now + run[r].offset
    BY <1>4, <1>5 DEF RunInv, MadeInv, Started
  <2>6. StepInv(r)'
    BY <1>4, <2>1, <2>2 DEF StepInv
  <2>7. RequestInv(r)'
    BY <1>2, <1>4, <1>5, <2>2, <2>3, <2>4, <2>5, SMTT(30) DEF RequestInv, Clock
  <2>8. (Issued(r)' <=> Issued(r)) /\ (Started(r)' <=> Started(r))
    BY <2>1, <2>2, <2>4 DEF Issued, Started
  <2>9. MadeInv(r)'
    BY <1>4, <2>1, <2>2, <2>4, <2>8 DEF RunInv, MadeInv
  <2> QED
    BY <2>6, <2>7, <2>9 DEF RunInv
<1>6. CASE ~Covenanted(r)
  <2>1. RunEnds(r, ExitResult(exit)) /\ request' = request
    BY <1>6 DEF Finish
  <2>2. ExitResult(exit) \in Results /\ ExitResult(exit) \in {"deployed", "failed"}
    BY DEF ExitResult, Results
  <2> QED
    BY <1>3, <1>4, <1>6, <2>1, <2>2, EndingKeeps
<1> QED
  BY <1>5, <1>6

LEMMA EndKeeps ==
  ASSUME CovenantAssumption, TypeInv, NEW r \in Runs, RunInv(r),
         Signalled(r) \/ Recorded(r) \/ GiveUp(r), now' = now
  PROVE  RunInv(r)'
<1>1. {"signalled", "deployed", "failed", "error", "outcome_unrecorded"} \subseteq Results
  BY DEF Results
<1>2. CASE Signalled(r)
  <2>1. RunEnds(r, "signalled") /\ request' = request /\ ServiceUnchanged
    BY <1>2 DEF Signalled
  <2> QED
    BY <1>1, <2>1, EndingKeeps
<1>3. CASE Recorded(r)
  <2>1. /\ RunEnds(r, ExitResult(run[r].exit)) /\ request' = request /\ ServiceUnchanged
        /\ run[r].step = "recording" /\ outcome[r].state = "made"
    BY <1>3 DEF Recorded, Waits
  <2>2. ExitResult(run[r].exit) \in Results /\ ExitResult(run[r].exit) \in {"deployed", "failed"}
    BY DEF ExitResult, Results
  <2>3. run[r].ran
    BY <2>1 DEF RunInv, StepInv
  <2> QED
    BY <2>1, <2>2, <2>3, EndingKeeps
<1>4. CASE GiveUp(r)
  <2>1. ServiceUnchanged
    BY <1>4 DEF GiveUp
  <2>2. request'[r] = request[r] \/ request'[r] = "none"
    <3>1. request \in [Runs -> RequestKinds]
      BY TypesUnfold DEF TypeInv
    <3> QED
      BY <1>4, <3>1 DEF GiveUp, Answered
  <2>3. CASE run[r].step = "recording"
    <3>1. RunEnds(r, "outcome_unrecorded")
      BY <1>4, <2>3 DEF GiveUp
    <3> QED
      BY <1>1, <2>1, <2>2, <3>1, EndingKeeps
  <2>4. CASE run[r].step # "recording"
    <3>1. RunEnds(r, "error")
      BY <1>4, <2>4 DEF GiveUp
    <3>2. ~run[r].ran
      BY <1>4, <2>4 DEF GiveUp, RunInv, StepInv
    <3> QED
      BY <1>1, <2>1, <2>2, <3>1, <3>2, EndingKeeps
  <2> QED
    BY <2>3, <2>4
<1> QED
  BY <1>2, <1>3, <1>4

---------------------------------------------------------------------------
(* All runs.                                                               *)

LEMMA StepsAreLocal ==
  ASSUME TypeInv, NEW r \in Runs, NEW q \in Runs, q # r, ServiceStep(r) \/ ClientStep(r)
  PROVE  Untouched(q)
<1>1. /\ run \in [Runs -> RunRecord] /\ request \in [Runs -> RequestKinds]
      /\ covenant \in [Runs -> MadeRecord] /\ authorization \in [Runs -> AuthorizationRecord]
      /\ outcome \in [Runs -> MadeRecord]
  BY TypesUnfold DEF TypeInv
<1>2. CASE ServiceStep(r)
  <2>1. CASE Activate(r)
    BY <1>1, <2>1, SMTT(30) DEF Activate, Answered, Untouched
  <2>2. ASSUME NEW permitted \in BOOLEAN, Authorize(r, permitted)
        PROVE  Untouched(q)
    BY <1>1, <2>2, SMTT(30) DEF Authorize, Answered, Untouched
  <2>3. ASSUME NEW permitted \in BOOLEAN, Verify(r, permitted)
        PROVE  Untouched(q)
    BY <1>1, <2>3, SMTT(30) DEF Verify, Answered, Untouched
  <2>4. CASE Record(r)
    BY <1>1, <2>4, SMTT(30) DEF Record, Answered, Untouched
  <2> QED
    BY <1>2, <2>1, <2>2, <2>3, <2>4 DEF ServiceStep
<1>3. CASE ClientStep(r)
  <2>1. ServiceUnchanged
    BY <1>3 DEF ClientStep, Observe, Bootstrap, Activated, Authorized, Verified, Finish,
           Signalled, Recorded, GiveUp
  <2>2. \A result : RunEnds(r, result) => run'[q] = run[q]
    BY <1>1 DEF RunEnds
  <2>3. Deploys(r) => run'[q] = run[q]
    BY <1>1 DEF Deploys
  <2>4. run'[q] = run[q] /\ request'[q] = request[q]
    <3>1. ASSUME NEW offset \in Offsets, NEW dirty \in BOOLEAN, Observe(r, offset, dirty)
          PROVE  run'[q] = run[q] /\ request'[q] = request[q]
      BY <1>1, <3>1 DEF Observe
    <3>2. ASSUME NEW offset \in Offsets, NEW dirty \in BOOLEAN, Bootstrap(r, offset, dirty)
          PROVE  run'[q] = run[q] /\ request'[q] = request[q]
      BY <1>1, <2>2, <3>2 DEF Bootstrap
    <3>3. CASE Activated(r)
      BY <1>1, <3>3 DEF Activated, CallsService
    <3>4. CASE Authorized(r) \/ Verified(r)
      BY <2>2, <2>3, <3>4 DEF Authorized, Verified
    <3>5. ASSUME NEW exit \in {0, 1}, Finish(r, exit)
          PROVE  run'[q] = run[q] /\ request'[q] = request[q]
      BY <1>1, <2>2, <3>5 DEF Finish
    <3>6. CASE Signalled(r) \/ Recorded(r)
      BY <2>2, <3>6 DEF Signalled, Recorded
    <3>7. CASE GiveUp(r)
      BY <1>1, <2>2, <3>7 DEF GiveUp, Answered
    <3> QED
      BY <1>3, <3>1, <3>2, <3>3, <3>4, <3>5, <3>6, <3>7 DEF ClientStep
  <2> QED
    BY <2>1, <2>4 DEF ServiceUnchanged, Untouched
<1> QED
  BY <1>2, <1>3

LEMMA ServiceKeeps ==
  ASSUME CovenantAssumption, TypeInv, NEW r \in Runs, RunInv(r), ServiceStep(r), now' = now
  PROVE  RunInv(r)'
BY ActivateKeeps, AuthorizeKeeps, VerifyKeeps, RecordKeeps DEF ServiceStep

LEMMA ClientKeeps ==
  ASSUME CovenantAssumption, TypeInv, NEW r \in Runs, RunInv(r), ClientStep(r), now' = now
  PROVE  RunInv(r)'
BY ObserveKeeps, BootstrapKeeps, ActivatedKeeps, AuthorizedKeeps, VerifiedKeeps, FinishKeeps,
   EndKeeps DEF ClientStep

RunsInv == \A r \in Runs : RunInv(r)

LEMMA RunsKept ==
  ASSUME CovenantAssumption, TypeInv, RunsInv, [CovenantNext]_<<now, covenantVars>>
  PROVE  RunsInv'
<1>1. now \in Int /\ now <= now
  BY DEF TypeInv
<1>2. ASSUME NEW r \in Runs, ServiceStep(r) \/ ClientStep(r), now' = now
      PROVE  RunsInv'
  <2>1. SUFFICES ASSUME NEW q \in Runs PROVE RunInv(q)'
    BY DEF RunsInv
  <2>2. RunInv(q)
    BY DEF RunsInv
  <2>3. CASE q = r
    BY <1>2, <2>2, <2>3, ServiceKeeps, ClientKeeps
  <2>4. CASE q # r
    <3>1. Untouched(q)
      BY <1>2, <2>4, StepsAreLocal
    <3>2. now' \in Int /\ now <= now'
      BY <1>1, <1>2
    <3> QED
      BY <2>2, <3>1, <3>2, UntouchedKeeps
  <2> QED
    BY <2>3, <2>4
<1>3. ASSUME UNCHANGED <<run, request, covenant, authorization, outcome>>,
             now' = now \/ Advance
      PROVE  RunsInv'
  <2>1. SUFFICES ASSUME NEW q \in Runs PROVE RunInv(q)'
    BY DEF RunsInv
  <2>2. RunInv(q) /\ Untouched(q)
    BY <1>3 DEF RunsInv, Untouched
  <2>3. now' \in Int /\ now <= now'
    BY <1>1, <1>3, SMTT(30) DEF Advance
  <2> QED
    BY <2>2, <2>3, UntouchedKeeps
<1>4. CASE AuditStep /\ UNCHANGED now
  BY <1>3, <1>4 DEF AuditStep, Insert, InsertFails, pruneAuditMetadata
<1>5. CASE UNCHANGED covenantVars /\ (Advance \/ UNCHANGED now)
  BY <1>3, <1>5 DEF covenantVars
<1>6. CASE CovenantStep /\ UNCHANGED now
  BY <1>2, <1>4, <1>6 DEF CovenantStep
<1> QED
  BY <1>5, <1>6 DEF CovenantNext, covenantVars

\* What the service has made stays made, and its rows are about what it made.
LEMMA RowsKept ==
  ASSUME CovenantAssumption, TypeInv, RunsInv, RowsInv,
         [CovenantNext]_<<now, covenantVars>>
  PROVE  RowsInv'
<1>1. /\ covenant \in [Runs -> MadeRecord] /\ outcome \in [Runs -> MadeRecord]
      /\ inserts \subseteq Kinds \X Runs /\ rows \subseteq Kinds \X Runs
  BY TypesUnfold DEF TypeInv
<1>2. \A row \in inserts \cup rows : row[2] \in Runs
  BY <1>1
<1>3. ASSUME covenant' = covenant, outcome' = outcome,
             inserts' \cup rows' \subseteq inserts \cup rows
      PROVE  RowsInv'
  BY <1>3 DEF RowsInv, RowInv, Covenanted
<1>4. ASSUME NEW r \in Runs, Activate(r)
      PROVE  RowsInv'
  <2>1. covenant[r].state = "none"
    BY <1>4 DEF Activate, RunsInv, RunInv, RequestInv
  <2>2. PICK m : covenant' = [covenant EXCEPT ![r] = m] /\ m.state \in {"made", "refused"}
                 /\ inserts' \subseteq
                      inserts \cup (IF m.state = "made" THEN {<<"covenant", r>>} ELSE {})
                 /\ outcome' = outcome /\ rows' = rows
    <3> DEFINE valid == run[r].observed <= now + Skew /\ Expires(r) > now
    <3>1. CASE valid
      <4>1. /\ covenant' = [covenant EXCEPT ![r] = [state |-> "made", at |-> now]]
            /\ inserts' = inserts \cup {<<"covenant", r>>}
            /\ outcome' = outcome /\ rows' = rows
        BY <1>4, <3>1 DEF Activate
      <4> QED
        BY <4>1
    <3>2. CASE ~valid
      <4>1. /\ covenant' = [covenant EXCEPT ![r] = [state |-> "refused", at |-> now]]
            /\ inserts' = inserts
            /\ outcome' = outcome /\ rows' = rows
        BY <1>4, <3>2 DEF Activate
      <4> QED
        BY <4>1
    <3> QED
      BY <3>1, <3>2
  <2>3. SUFFICES ASSUME NEW row \in inserts' \cup rows' PROVE RowInv(row)'
    BY DEF RowsInv
  <2>4. CASE row \in inserts \cup rows
    <3>1. RowInv(row) /\ row[2] \in Runs
      BY <1>2, <2>4 DEF RowsInv
    <3>2. row[1] = "covenant" => row[2] # r
      BY <2>1, <3>1 DEF RowInv, Covenanted
    <3> QED
      BY <1>1, <2>2, <3>1, <3>2 DEF RowInv, Covenanted
  <2>5. CASE row = <<"covenant", r>> /\ m.state = "made"
    BY <1>1, <2>2, <2>5 DEF RowInv, Covenanted
  <2> QED
    BY <2>2, <2>3, <2>4, <2>5
<1>5. ASSUME NEW r \in Runs, Record(r)
      PROVE  RowsInv'
  <2>1. request[r] = "record" /\ RunInv(r)
    BY <1>5 DEF Record, RunsInv
  <2>2. authorization[r].decision = "ALLOW" /\ OutcomeTimely(r)
    BY <2>1, OutcomesAreTimely
  <2>3. /\ outcome' = [outcome EXCEPT ![r] = [state |-> "made", at |-> now]]
        /\ inserts' = inserts \cup {<<"outcome", r>>}
        /\ covenant' = covenant /\ rows' = rows
    BY <1>5, <2>2 DEF Record
  <2>4. SUFFICES ASSUME NEW row \in inserts' \cup rows' PROVE RowInv(row)'
    BY DEF RowsInv
  <2>5. CASE row \in inserts \cup rows
    <3>1. RowInv(row) /\ row[2] \in Runs
      BY <1>2, <2>5 DEF RowsInv
    <3> QED
      BY <1>1, <2>3, <3>1 DEF RowInv, Covenanted
  <2>6. CASE row = <<"outcome", r>>
    BY <1>1, <2>3, <2>6 DEF RowInv, Covenanted
  <2> QED
    BY <2>3, <2>4, <2>5, <2>6
<1>6. ASSUME NEW r \in Runs, NEW permitted \in BOOLEAN, Authorize(r, permitted)
      PROVE  RowsInv'
  BY <1>6 DEF Authorize, RowsInv, RowInv, Covenanted
<1>7. ASSUME NEW r \in Runs, NEW permitted \in BOOLEAN, Verify(r, permitted)
      PROVE  RowsInv'
  BY <1>3, <1>7 DEF Verify
<1>8. ASSUME NEW r \in Runs, ClientStep(r)
      PROVE  RowsInv'
  <2>1. ServiceUnchanged
    BY <1>8 DEF ClientStep, Observe, Bootstrap, Activated, Authorized, Verified, Finish,
           Signalled, Recorded, GiveUp
  <2> QED
    BY <1>3, <2>1 DEF ServiceUnchanged
<1>9. CASE AuditStep
  <2>1. covenant' = covenant /\ outcome' = outcome
    BY <1>9 DEF AuditStep, Insert, InsertFails, pruneAuditMetadata
  <2>2. inserts' \cup rows' \subseteq inserts \cup rows
    BY <1>9 DEF AuditStep, Insert, InsertFails, pruneAuditMetadata
  <2> QED
    BY <1>3, <2>1, <2>2
<1>10. CASE UNCHANGED covenantVars
  BY <1>3, <1>10 DEF covenantVars
<1> QED
  BY <1>4, <1>5, <1>6, <1>7, <1>8, <1>9, <1>10
     DEF CovenantNext, CovenantStep, ServiceStep, covenantVars

---------------------------------------------------------------------------
(* The theorems.                                                           *)

IInv == TypeInv /\ RunsInv /\ RowsInv

LEMMA Invariance ==
  ASSUME CovenantAssumption
  PROVE  CovenantSpec => []IInv
<1>1. CovenantInit /\ ClockInit => IInv
  <2>1. SUFFICES ASSUME CovenantInit, ClockInit PROVE IInv
    OBVIOUS
  <2>2. TypeInv
    BY <2>1, TypesInitially
  <2>3. RowsInv
    BY <2>1 DEF CovenantInit, RowsInv
  <2>4. ASSUME NEW r \in Runs PROVE RunInv(r)
    <3>1. /\ run[r].step = "idle" /\ run[r].offset = 0 /\ run[r].observed = 0
          /\ run[r].ran = FALSE /\ run[r].result = "none" /\ request[r] = "none"
          /\ covenant[r].state = "none" /\ authorization[r].state = "none"
          /\ outcome[r].state = "none" /\ now = 0
      BY <2>1 DEF CovenantInit, ClockInit
    <3>2. StepInv(r) /\ RequestInv(r)
      BY <3>1 DEF StepInv, RequestInv
    <3>3. MadeInv(r)
      BY <3>1, SMTT(30) DEF MadeInv, Begun, Covenanted
    <3> QED
      BY <3>2, <3>3 DEF RunInv
  <2> QED
    BY <2>2, <2>3, <2>4 DEF IInv, RunsInv
<1>2. IInv /\ [CovenantNext]_<<now, covenantVars>> => IInv'
  BY TypesKept, RunsKept, RowsKept DEF IInv
<1> QED
  BY <1>1, <1>2, PTL DEF CovenantSpec

\* What the variables can hold: the client's and the service's side of every run
\* (covenants/lifecycle.ts, packages/gated-deploy/src/index.ts) and the rows (storage/audit.ts).
THEOREM TypeCorrect ==
  ASSUME CovenantAssumption
  PROVE  CovenantSpec => []CovenantTypeOK
<1>1. IInv => CovenantTypeOK
  BY DEF IInv, TypeInv
<1> QED
  BY <1>1, Invariance, PTL

\* runGatedDeployment starts a deployment under a covenant only on an ALLOW for what was
\* observed, and within the covenant's term by real time, for any offset of its clock.
THEOREM ExecutionsAlwaysAuthorized ==
  ASSUME CovenantAssumption
  PROVE  CovenantSpec => []ExecutionsAuthorized
<1>1. IInv => ExecutionsAuthorized
  <2>1. SUFFICES ASSUME IInv, NEW r \in Runs
                 PROVE  /\ Covenanted(r) /\ run[r].ran =>
                             /\ authorization[r].decision = "ALLOW" /\ ~run[r].dirty
                             /\ run[r].observed \in
                                  (authorization[r].at - EvidenceAge)..authorization[r].at
                             /\ run[r].started - run[r].observed < DraftTTL
                        /\ run[r].result \in {"stopped", "error"} => ~run[r].ran
                        /\ Covenanted(r) /\ run[r].result \in {"deployed", "failed"} =>
                             outcome[r].state = "made"
    BY DEF ExecutionsAuthorized
  <2>2. MadeInv(r) /\ TypeInv
    BY <2>1 DEF IInv, RunsInv, RunInv
  <2>3. /\ run[r].observed \in Int /\ run[r].started \in Int
        /\ authorization[r].at \in Int /\ authorization[r].expires \in Int
    BY <2>2, FieldTypes
  <2>4. ASSUME Covenanted(r), run[r].ran
        PROVE  /\ authorization[r].decision = "ALLOW" /\ ~run[r].dirty
               /\ run[r].observed \in
                    (authorization[r].at - EvidenceAge)..authorization[r].at
               /\ run[r].started - run[r].observed < DraftTTL
    <3>1. Started(r) /\ Issued(r)
      BY <2>2, <2>4 DEF MadeInv, Started
    <3>2. /\ authorization[r].decision = "ALLOW" /\ ~run[r].dirty
          /\ authorization[r].at - EvidenceAge <= run[r].observed
          /\ run[r].observed <= authorization[r].at
          /\ run[r].started < authorization[r].expires
          /\ authorization[r].expires <= run[r].observed + DraftTTL
      BY <3>1 DEF Started, Issued, Expires
    <3> QED
      BY <2>3, <3>2, ConstantTypes, SMTT(30)
  <2> QED
    BY <2>2, <2>4 DEF MadeInv
<1> QED
  BY <1>1, Invariance, PTL

\* createActionCovenantOutcome never refuses what authorizeActionCovenant allowed: clocks
\* too far apart have ended the run before.
THEOREM OutcomesAlwaysRecordable ==
  ASSUME CovenantAssumption
  PROVE  CovenantSpec => []OutcomesRecordable
<1>1. IInv => OutcomesRecordable
  BY DEF IInv, RunsInv, RunInv, MadeInv, OutcomesRecordable
<1> QED
  BY <1>1, Invariance, PTL

\* pruneAuditMetadata deletes no row early, but for the allowed skew where a row is dated by
\* the client.
THEOREM RetentionAlwaysKept ==
  ASSUME CovenantAssumption
  PROVE  CovenantSpec => RetentionKept
<1> DEFINE Late(row) ==
      Made(row) - (IF row[1] = "authorization" THEN 0 ELSE Skew) < now - Retention
<1>1. ASSUME IInv, [CovenantNext]_<<now, covenantVars>>
      PROVE  [\A row \in rows \ rows' : Late(row)]_covenantVars
  <2>1. SUFFICES ASSUME NEW row \in rows, row \notin rows' PROVE Late(row)
    OBVIOUS
  <2>2. pruneAuditMetadata
    <3>1. ASSUME NEW r \in Runs, ServiceStep(r) \/ ClientStep(r) PROVE rows' = rows
      BY <3>1 DEF ServiceStep, Activate, Authorize, Verify, Record, ClientStep, Observe,
         Bootstrap, Activated, Authorized, Verified, Finish, Signalled, Recorded, GiveUp,
         ServiceUnchanged
    <3>2. UNCHANGED covenantVars => rows' = rows
      BY DEF covenantVars
    <3>3. (\E x \in inserts : Insert(x) \/ InsertFails(x)) => rows \subseteq rows'
      BY DEF Insert, InsertFails
    <3> QED
      BY <1>1, <2>1, <3>1, <3>2, <3>3
         DEF CovenantNext, CovenantStep, AuditStep, covenantVars
  <2>3. PICK kind \in Kinds, r \in Runs : row = <<kind, r>>
    BY <1>1, <2>1, TypesUnfold DEF IInv, TypeInv
  <2>4. TypeInv /\ RunInv(r) /\ RowInv(row)
    BY <1>1, <2>1 DEF IInv, RunsInv, RowsInv
  <2>5. /\ now \in Int /\ run[r].observed \in Int /\ run[r].finished \in Int
        /\ run[r].started \in Int /\ run[r].offset \in Int
        /\ covenant[r].at \in Int /\ authorization[r].at \in Int
        /\ authorization[r].expires \in Int
    BY <2>4, FieldTypes
  <2>6. ~(DateOf(row) >= now - Retention)
    BY <2>1, <2>2 DEF pruneAuditMetadata
  <2>7. CASE kind = "covenant"
    <3>1. Covenanted(r) /\ DateOf(row) = run[r].observed /\ Made(row) = covenant[r].at
      BY <2>3, <2>4, <2>7 DEF RowInv, DateOf, Made
    <3>2. covenant[r].at < run[r].observed + DraftTTL
      BY <2>4, <3>1 DEF RunInv, MadeInv, Expires
    <3> QED
      BY <2>3, <2>5, <2>6, <2>7, <3>1, <3>2, ConstantTypes, SMTT(30)
  <2>8. CASE kind = "authorization"
    <3>1. DateOf(row) = authorization[r].at /\ Made(row) = authorization[r].at
      BY <2>3, <2>8 DEF DateOf, Made
    <3> QED
      BY <2>3, <2>5, <2>6, <2>8, <3>1, ConstantTypes, SMTT(30)
  <2>9. CASE kind = "outcome"
    <3>1. DateOf(row) = run[r].finished /\ Made(row) = authorization[r].at
      BY <2>3, <2>9 DEF DateOf, Made
    <3>2. outcome[r].state = "made"
      BY <2>3, <2>4, <2>9 DEF RowInv
    <3>3. Covenanted(r) /\ run[r].ran /\ run[r].started <= run[r].finished
      BY <2>4, <3>2 DEF RunInv, MadeInv
    <3>4. Started(r) /\ Issued(r)
      BY <2>4, <3>3 DEF RunInv, MadeInv, Started
    <3>5. /\ authorization[r].at < run[r].observed + DraftTTL
          /\ run[r].observed - run[r].offset <= authorization[r].at
          /\ authorization[r].at + run[r].offset <= run[r].started
      BY <3>4 DEF Started, Issued, Begun, Expires
    <3>6. authorization[r].at - Skew <= run[r].finished
      BY <2>5, <3>3, <3>5, ConstantTypes, SMTT(30)
    <3> QED
      BY <2>3, <2>5, <2>6, <2>9, <3>1, <3>6, ConstantTypes, SMTT(30)
  <2> QED
    BY <2>7, <2>8, <2>9 DEF Kinds
<1>2. RetentionKept <=> [][\A row \in rows \ rows' : Late(row)]_covenantVars
  BY DEF RetentionKept
<1> QED
  BY <1>1, <1>2, Invariance, PTL DEF CovenantSpec

---------------------------------------------------------------------------
(* The wallet monitor.                                                     *)

ScanRecord ==
  [step : ScanSteps, retry : BOOLEAN, began : Nat, wasDisabled : BOOLEAN, end : Nat,
   hash : Hashes, next : Nat, outgoing : Nat, at : Nat]

Row ==
  [state : {"none", "OK", "FAILED"}, outgoing : Nat, start : Nat, end : Nat, hash : Hashes,
   at : Nat, written : Nat]

HashOn(f, b) == <<IF b < ForkPoint THEN "common" ELSE f, b>>

\* What a scan has read so far: all of its blocks on the chain there is, unless the
\* anchor is gone from it for good.
Reading(s) ==
  scan[s].step \in {"reading", "confirming"} =>
    /\ Lookback <= scan[s].end /\ scan[s].end <= head
    /\ First(s) <= scan[s].next /\ scan[s].next <= scan[s].end + 1
    /\ scan[s].step = "reading" => scan[s].next <= scan[s].end
    /\ scan[s].step = "confirming" => scan[s].next = scan[s].end + 1
    /\ fork = FirstFork => scan[s].hash = Hash(scan[s].end)
    /\ scan[s].hash = Hash(scan[s].end) =>
         scan[s].outgoing = SpentIn(fork, First(s), scan[s].next - 1)

TrueOf(hash, outgoing, start, end) ==
  /\ end - start = Lookback
  /\ \E f \in Forks : hash = HashOn(f, end) /\ outgoing = SpentIn(f, start, end)

Settled(s) ==
  scan[s].step = "storing" =>
    /\ Lookback <= scan[s].end
    /\ TrueOf(scan[s].hash, scan[s].outgoing, First(s), scan[s].end)

\* Once a retry goes on, the row it found incomplete stays so until another is stored.
Excused(s) ==
  /\ scan[s].step = "idle" => ~scan[s].retry
  /\ /\ scan[s].retry /\ scan[s].wasDisabled /\ monitor.state = "OK"
     /\ monitor.written < scan[s].began
     => \/ monitor.at < (scan[s].began \div DayLength) * DayLength
        \/ scan[s].began - monitor.at > FreshFor

MonitorInv ==
  /\ MonitorTypeOK /\ now \in Nat
  /\ ObservationTrue
  /\ \A s \in Scans : Reading(s) /\ Settled(s) /\ Excused(s) /\ scan[s].began <= now

LEMMA WalletConstants ==
         /\ ForkPoint \in Nat /\ Lookback \in Nat /\ Span \in Nat /\ Span > 0
         /\ LastBlock \in Nat /\ Lookback <= LastBlock
         /\ DayLength \in Nat \ {0} /\ FreshFor \in Nat
         /\ FirstFork \in Forks
BY MonitorAssumption, ChainAssumption DEF FirstFork

LEMMA WalletTypes ==
  /\ MonitorTypeOK <=>
       /\ head \in 0..LastBlock /\ fork \in Forks
       /\ spending \in {"disabled", "otherwise"}
       /\ scan \in [Scans -> ScanRecord] /\ monitor \in Row
  /\ Unscanned \in ScanRecord
<1>1. <<"common", 0>> \in Hashes
  BY DEF Hashes
<1> QED BY <1>1 DEF MonitorTypeOK, ScanRecord, Row, Unscanned, ScanSteps

\* The fields of a scan and of the row.
LEMMA WalletFields ==
  ASSUME MonitorTypeOK
  PROVE  /\ \A s \in Scans :
              /\ scan[s].step \in ScanSteps /\ scan[s].retry \in BOOLEAN
              /\ scan[s].began \in Nat /\ scan[s].wasDisabled \in BOOLEAN
              /\ scan[s].end \in Nat /\ scan[s].hash \in Hashes /\ scan[s].next \in Nat
              /\ scan[s].outgoing \in Nat /\ scan[s].at \in Nat
              /\ First(s) = scan[s].end - Lookback
         /\ monitor.state \in {"none", "OK", "FAILED"} /\ monitor.outgoing \in Nat
         /\ monitor.start \in Nat /\ monitor.end \in Nat /\ monitor.hash \in Hashes
         /\ monitor.at \in Nat /\ monitor.written \in Nat
BY DEF MonitorTypeOK, First

\* What is sent in adjacent ranges, in any range, and in one before the forks part.
LEMMA SentInRanges ==
  ASSUME NEW f \in Forks
  PROVE  /\ \A a, b, c \in 0..LastBlock + 1 :
              Sent[f][b] - Sent[f][a] + (Sent[f][c] - Sent[f][b]) = Sent[f][c] - Sent[f][a]
         /\ \A a, b \in 0..LastBlock + 1 : a <= b => Sent[f][b] - Sent[f][a] \in Nat
         /\ \A a, b \in 0..LastBlock + 1, g \in Forks :
              a <= ForkPoint /\ b <= ForkPoint =>
                Sent[f][b] - Sent[f][a] = Sent[g][b] - Sent[g][a]
<1>1. \A a \in 0..LastBlock + 1 : Sent[f][a] \in Nat
  BY ChainAssumption
<1>2. \A a, b \in 0..LastBlock + 1 : a <= b => Sent[f][a] <= Sent[f][b]
  BY ChainAssumption
<1>3. \A a \in 0..LastBlock + 1, g \in Forks : a <= ForkPoint => Sent[f][a] = Sent[g][a]
  BY ChainAssumption
<1>4. \A a, b \in 0..LastBlock + 1 : a <= b => Sent[f][b] - Sent[f][a] \in Nat
  BY <1>1, <1>2
<1> QED BY <1>1, <1>3, <1>4

\* A scan becomes another one.
ScanIs(s, r) == scan' = [scan EXCEPT ![s] = r]

LEMMA ScanBecomes ==
  ASSUME MonitorTypeOK, NEW s \in Scans, NEW r \in ScanRecord, ScanIs(s, r)
  PROVE  /\ scan' \in [Scans -> ScanRecord]
         /\ scan'[s] = r
         /\ \A q \in Scans : q # s => scan'[q] = scan[q]
BY WalletTypes DEF ScanIs

\* Each step of a scan, with the record it makes of it.
Moved(s, step) == [scan[s] EXCEPT !.step = step]
Aborted(s) ==
  [Unscanned EXCEPT !.step = "failing", !.retry = scan[s].retry, !.began = scan[s].began,
                    !.wasDisabled = scan[s].wasDisabled]
Ended == [Unscanned EXCEPT !.step = "ended"]

LEMMA ScanRecords ==
  ASSUME MonitorTypeOK, NEW s \in Scans
  PROVE  /\ \A step \in ScanSteps : Moved(s, step) \in ScanRecord
         /\ Aborted(s) \in ScanRecord
         /\ Ended \in ScanRecord
         /\ Aborted(s).step = "failing" /\ Aborted(s).retry = scan[s].retry
         /\ Aborted(s).began = scan[s].began /\ Aborted(s).wasDisabled = scan[s].wasDisabled
         /\ Ended.step = "ended" /\ Ended.retry = FALSE /\ Ended.began = 0
<1>1. \A step \in ScanSteps : Moved(s, step) \in ScanRecord
  BY WalletTypes DEF Moved, ScanRecord
<1>2. <<"common", 0>> \in Hashes /\ "failing" \in ScanSteps /\ "ended" \in ScanSteps
  BY DEF Hashes, ScanSteps
<1>3. Unscanned \in ScanRecord /\ Unscanned.retry = FALSE /\ Unscanned.began = 0
  BY WalletTypes DEF Unscanned
<1>4. Ended \in ScanRecord /\ Ended.step = "ended" /\ Ended.retry = FALSE /\ Ended.began = 0
  BY <1>2, <1>3 DEF Ended, ScanRecord
<1>5. /\ Aborted(s) \in ScanRecord
      /\ Aborted(s).step = "failing" /\ Aborted(s).retry = scan[s].retry
      /\ Aborted(s).began = scan[s].began /\ Aborted(s).wasDisabled = scan[s].wasDisabled
  BY <1>2, <1>3, WalletFields DEF Aborted, ScanRecord
<1> QED BY <1>1, <1>4, <1>5

ScanInv(s) == Reading(s) /\ Settled(s) /\ Excused(s) /\ scan[s].began <= now

\* The invariant of a scan no step changes, in a world and with a row that are kept.
LEMMA OthersKeep ==
  ASSUME NEW q, ScanInv(q), scan'[q] = scan[q], UNCHANGED <<head, fork, monitor, now>>
  PROVE  ScanInv(q)'
BY DEF ScanInv, Reading, Settled, Excused, TrueOf, HashOn, Hash, First, SpentIn

\* A scan that holds nothing that was read keeps the excuse it has, if any.
LEMMA EmptyKeeps ==
  ASSUME NEW s, ScanInv(s), scan'[s].step \notin {"idle", "reading", "confirming", "storing"},
         UNCHANGED <<monitor, now>>,
         scan'[s].began = scan[s].began /\ scan'[s].retry = scan[s].retry
           /\ scan'[s].wasDisabled = scan[s].wasDisabled
  PROVE  ScanInv(s)'
BY DEF ScanInv, Reading, Settled, Excused

\* A step that changes one scan only keeps the invariant if it keeps that scan's.
LEMMA OneScan ==
  ASSUME MonitorInv, NEW s \in Scans, NEW r \in ScanRecord, ScanIs(s, r),
         UNCHANGED <<head, fork, spending, monitor, now>>,
         ScanInv(s)'
  PROVE  MonitorInv'
<1>1. \A q \in Scans : ScanInv(q)
  BY DEF MonitorInv, ScanInv
<1>2. \A q \in Scans : q # s => scan'[q] = scan[q]
  BY ScanBecomes DEF MonitorInv
<1>3. \A q \in Scans : ScanInv(q)'
  BY <1>1, <1>2, OthersKeep
<1>4. MonitorTypeOK'
  <2>1. scan' \in [Scans -> ScanRecord]
    BY ScanBecomes DEF MonitorInv
  <2> QED BY <2>1 DEF MonitorInv, MonitorTypeOK, ScanRecord
<1>5. ObservationTrue'
  BY DEF MonitorInv, ObservationTrue, SpentIn
<1> QED BY <1>3, <1>4, <1>5 DEF MonitorInv, ScanInv

LEMMA ScanInvOf ==
  ASSUME MonitorInv, NEW s \in Scans
  PROVE  /\ ScanInv(s) /\ MonitorTypeOK /\ now \in Nat /\ ObservationTrue
BY DEF MonitorInv, ScanInv

\* A scan that goes on, or comes to nothing, before or after it has read anything.
LEMMA EmptySteps ==
  ASSUME MonitorInv, NEW s \in Scans,
         \/ Admit(s) \/ ScanFails(s) \/ Vanish(s)
         \/ Confirm(s) /\ ~AnchorHolds(s)
         \/ Retry(s) /\ Complete,
         UNCHANGED now
  PROVE  MonitorInv'
<1>0. ScanInv(s) /\ MonitorTypeOK
  BY ScanInvOf
<1>1. ASSUME ScanIs(s, Moved(s, "anchoring")), WorldUnchanged, UNCHANGED monitor
      PROVE  MonitorInv'
  <2>1. Moved(s, "anchoring") \in ScanRecord
    BY <1>0, ScanRecords DEF ScanSteps
  <2>2. /\ scan'[s].step = "anchoring" /\ scan'[s].began = scan[s].began
        /\ scan'[s].retry = scan[s].retry /\ scan'[s].wasDisabled = scan[s].wasDisabled
    <3>1. scan'[s] = Moved(s, "anchoring") /\ scan[s] \in ScanRecord
      BY <1>0, <1>1, <2>1, ScanBecomes, WalletTypes
    <3> QED BY <3>1 DEF Moved, ScanRecord
  <2>3. ScanInv(s)'
    BY <1>0, <1>1, <2>2, EmptyKeeps
  <2> QED BY <1>1, <2>1, <2>3, OneScan DEF WorldUnchanged
<1>2. ASSUME ScanIs(s, Aborted(s)), WorldUnchanged, UNCHANGED monitor
      PROVE  MonitorInv'
  <2>1. /\ scan'[s].step = "failing" /\ scan'[s].began = scan[s].began
        /\ scan'[s].retry = scan[s].retry /\ scan'[s].wasDisabled = scan[s].wasDisabled
    BY <1>0, <1>2, ScanBecomes, ScanRecords
  <2>2. ScanInv(s)'
    BY <1>0, <1>2, <2>1, EmptyKeeps
  <2> QED BY <1>0, <1>2, <2>2, ScanRecords, OneScan DEF WorldUnchanged
<1>3. ASSUME ScanIs(s, Ended), WorldUnchanged, UNCHANGED monitor
      PROVE  MonitorInv'
  <2>1. scan'[s].step = "ended" /\ scan'[s].began = 0 /\ scan'[s].retry = FALSE
    BY <1>0, <1>3, ScanBecomes, ScanRecords
  <2>2. ScanInv(s)'
    BY <2>1 DEF ScanInv, Reading, Settled, Excused, MonitorInv
  <2> QED BY <1>0, <1>3, <2>2, ScanRecords, OneScan DEF WorldUnchanged
<1>4. CASE Admit(s)
  <2>1. ScanIs(s, Moved(s, "anchoring")) \/ ScanIs(s, Aborted(s))
    BY <1>4 DEF Admit, ScanGoes, ScanAborts, ScanIs, Moved, Aborted
  <2> QED BY <1>1, <1>2, <1>4, <2>1 DEF Admit
<1>5. CASE ScanFails(s)
  BY <1>2, <1>5 DEF ScanFails, ScanAborts, ScanIs, Aborted
<1>6. CASE Vanish(s)
  BY <1>3, <1>6 DEF Vanish, ScanEnds, ScanIs, Ended
<1>7. CASE Confirm(s) /\ ~AnchorHolds(s)
  BY <1>2, <1>7 DEF Confirm, ScanAborts, ScanIs, Aborted
<1>8. CASE Retry(s) /\ Complete
  BY <1>3, <1>8 DEF Retry, ScanEnds, ScanIs, Ended
<1> QED BY <1>4, <1>5, <1>6, <1>7, <1>8

LEMMA PrimaryKeeps ==
  ASSUME MonitorInv, NEW s \in Scans, Primary(s), UNCHANGED now
  PROVE  MonitorInv'
<1> DEFINE r == [Moved(s, "admitting") EXCEPT !.began = now]
<1>0. ScanInv(s) /\ MonitorTypeOK /\ now \in Nat
  BY ScanInvOf
<1>1. Moved(s, "admitting") \in ScanRecord
  BY <1>0, ScanRecords DEF ScanSteps
<1>2. r \in ScanRecord
  BY <1>0, <1>1 DEF ScanRecord
<1>3. ScanIs(s, r)
  BY <1>0, WalletTypes DEF Primary, ScanIs, Moved
<1> HIDE DEF r
<1>4. /\ scan'[s].step = "admitting" /\ scan'[s].began = now /\ scan'[s].retry = scan[s].retry
  <2>1. scan'[s] = r
    BY <1>0, <1>2, <1>3, ScanBecomes
  <2>2. scan[s] \in ScanRecord
    BY <1>0, WalletTypes
  <2> QED BY <2>1, <2>2 DEF r, Moved, ScanRecord
<1>5. ~scan[s].retry
  BY <1>0 DEF ScanInv, Excused, Primary, Scanning
<1>6. ScanInv(s)'
  BY <1>0, <1>4, <1>5 DEF ScanInv, Reading, Settled, Excused
<1> QED BY <1>2, <1>3, <1>6, OneScan DEF Primary, WorldUnchanged

LEMMA RetryKeeps ==
  ASSUME MonitorInv, NEW s \in Scans, Retry(s), ~Complete, UNCHANGED now
  PROVE  MonitorInv'
<1> DEFINE disabled == spending = "disabled"
<1> DEFINE r == [[[Moved(s, "admitting") EXCEPT !.retry = TRUE] EXCEPT !.began = now]
                   EXCEPT !.wasDisabled = disabled]
<1>0. ScanInv(s) /\ MonitorTypeOK /\ now \in Nat /\ ObservationTrue
  BY ScanInvOf
<1>1. Moved(s, "admitting") \in ScanRecord /\ disabled \in BOOLEAN
  BY <1>0, ScanRecords DEF ScanSteps
<1>3. ScanIs(s, r)
  BY <1>0, WalletTypes DEF Retry, ScanIs, Moved
<1>d. disabled => spending = "disabled"
  OBVIOUS
<1> HIDE DEF disabled
<1>2. r \in ScanRecord
  BY <1>0, <1>1 DEF ScanRecord
<1> HIDE DEF r
<1>4. /\ scan'[s].step = "admitting" /\ scan'[s].began = now /\ scan'[s].wasDisabled = disabled
  <2>1. scan'[s] = r
    BY <1>0, <1>2, <1>3, ScanBecomes
  <2>2. scan[s] \in ScanRecord
    BY <1>0, WalletTypes
  <2> QED BY <2>1, <2>2 DEF r, Moved, ScanRecord
(* The row found was no observation, of another day or no longer fresh. *)
<1>5. ASSUME disabled, monitor.state = "OK"
      PROVE  \/ monitor.at < (now \div DayLength) * DayLength
             \/ now - monitor.at > FreshFor
  <2>1. monitor.end - monitor.start = Lookback
    BY <1>0, <1>5 DEF ObservationTrue
  <2>2. ~(monitor.at >= PrimaryTime) \/ ~(now - monitor.at <= FreshFor)
    BY <1>5, <1>d, <2>1 DEF Complete
  <2>3. PICK today \in Int : today = PrimaryTime
    <3>1. now \div DayLength \in Int
      BY <1>0, WalletConstants
    <3>2. PrimaryTime \in Int
      BY <3>1, WalletConstants DEF PrimaryTime
    <3> QED BY <3>2
  <2>4. monitor.at < today \/ now - monitor.at > FreshFor
    BY <1>0, <2>2, <2>3, WalletFields, WalletConstants
  <2> QED BY <2>3, <2>4 DEF PrimaryTime
<1>6. ScanInv(s)'
  BY <1>0, <1>4, <1>5 DEF ScanInv, Reading, Settled, Excused, Retry, WorldUnchanged
<1> QED BY <1>2, <1>3, <1>6, OneScan DEF Retry, WorldUnchanged

LEMMA AnchorKeeps ==
  ASSUME MonitorInv, NEW s \in Scans, Anchor(s), UNCHANGED now
  PROVE  MonitorInv'
<1> DEFINE r == [[[[Moved(s, "reading") EXCEPT !.end = head] EXCEPT !.hash = Hash(head)]
                   EXCEPT !.next = head - Lookback] EXCEPT !.outgoing = 0]
<1>0. ScanInv(s) /\ MonitorTypeOK /\ now \in Nat
  BY ScanInvOf
<1>1. Moved(s, "reading") \in ScanRecord
  BY <1>0, ScanRecords DEF ScanSteps
<1>2. head \in Nat /\ head <= LastBlock /\ Lookback <= head /\ head - Lookback \in Nat
  <2>1. head >= Lookback
    BY DEF Anchor
  <2>2. head \in 0..LastBlock
    BY <1>0 DEF MonitorTypeOK
  <2> QED BY <2>1, <2>2, WalletConstants
<1>3. Hash(head) \in Hashes
  BY <1>0, <1>2 DEF Hash, Hashes, MonitorTypeOK
<1>4. ScanIs(s, r)
  BY <1>0, WalletTypes DEF Anchor, ScanIs, Moved
<1>5. r \in ScanRecord
  BY <1>0, <1>1, <1>2, <1>3 DEF ScanRecord
<1> HIDE DEF r
<1>6. /\ scan'[s].step = "reading" /\ scan'[s].end = head /\ scan'[s].hash = Hash(head)
      /\ scan'[s].next = head - Lookback /\ scan'[s].outgoing = 0
      /\ scan'[s].began = scan[s].began /\ scan'[s].retry = scan[s].retry
      /\ scan'[s].wasDisabled = scan[s].wasDisabled
  <2>1. scan'[s] = r
    BY <1>0, <1>4, <1>5, ScanBecomes
  <2>2. scan[s] \in ScanRecord
    BY <1>0, WalletTypes
  <2> QED BY <2>1, <2>2 DEF r, Moved, ScanRecord
<1>7. UNCHANGED <<head, fork, spending, monitor>>
  BY DEF Anchor, WorldUnchanged
<1>8. Reading(s)'
  <2>1. First(s)' = head - Lookback
    BY <1>6 DEF First
  <2>2. SpentIn(fork, head - Lookback, head - Lookback - 1) = 0
    <3>1. Sent[fork][head - Lookback] \in Nat
      <4>1. head - Lookback \in 0..LastBlock + 1
        BY <1>2, WalletConstants
      <4>2. fork \in Forks
        BY <1>0 DEF MonitorTypeOK
      <4> QED BY <4>1, <4>2, ChainAssumption
    <3>2. head - Lookback - 1 + 1 = head - Lookback
      BY <1>2, WalletConstants
    <3> QED BY <3>1, <3>2 DEF SpentIn
  <2>3. SpentIn(fork, First(s), scan[s].next - 1)' = 0
    BY <1>6, <1>7, <2>1, <2>2 DEF SpentIn
  <2>4. Hash(scan[s].end)' = Hash(head)
    BY <1>6, <1>7 DEF Hash
  <2> QED BY <1>2, <1>6, <1>7, <2>1, <2>3, <2>4, WalletConstants DEF Reading
<1>9. ScanInv(s)'
  BY <1>0, <1>6, <1>7, <1>8 DEF ScanInv, Settled, Excused, Anchor, Scanning
<1> QED BY <1>4, <1>5, <1>7, <1>9, OneScan

LEMMA ReadKeeps ==
  ASSUME MonitorInv, NEW s \in Scans, ReadRange(s), UNCHANGED now
  PROVE  MonitorInv'
<1> DEFINE end == scan[s].end
           from == scan[s].next
           to == RangeEnd(s, from)
           more == SpentIn(fork, from, to)
           step == IF to = end THEN "confirming" ELSE "reading"
           total == scan[s].outgoing + more
           r == [[[scan[s] EXCEPT !.outgoing = total] EXCEPT !.next = to + 1]
                   EXCEPT !.step = step]
<1>0. ScanInv(s) /\ MonitorTypeOK /\ now \in Nat
  BY ScanInvOf
<1>1. /\ scan[s].step = "reading" /\ Reading(s)
      /\ UNCHANGED <<head, fork, spending, monitor>>
  BY <1>0 DEF ReadRange, Scanning, ScanInv, WorldUnchanged
<1>2. /\ end \in Nat /\ from \in Nat /\ Lookback <= end /\ end <= head
      /\ First(s) = end - Lookback /\ First(s) <= from /\ from <= end
      /\ head <= LastBlock /\ head \in Nat /\ LastBlock \in Nat /\ Lookback \in Nat
  <2>1. head \in 0..LastBlock
    BY <1>0 DEF MonitorTypeOK
  <2> QED BY <1>0, <1>1, <2>1, WalletConstants, WalletFields DEF Reading
<1>3. to \in Nat /\ from <= to /\ to <= end
  <2>1. to = IF from + Span - 1 < end THEN from + Span - 1 ELSE end
    BY DEF RangeEnd
  <2> HIDE DEF to, end, from
  <2> QED BY <1>2, <2>1, WalletConstants
<1> HIDE DEF to, end, from
<1>4. more \in Nat /\ fork \in Forks
  <2>1. from \in 0..LastBlock + 1 /\ to + 1 \in 0..LastBlock + 1 /\ from <= to + 1
    BY <1>2, <1>3
  <2>2. fork \in Forks
    BY <1>0 DEF MonitorTypeOK
  <2> QED BY <2>1, <2>2, SentInRanges DEF SpentIn
<1> HIDE DEF more
<1>5. total \in Nat /\ step \in ScanSteps /\ to + 1 \in Nat
  BY <1>0, <1>3, <1>4, WalletFields DEF ScanSteps
<1>6. ScanIs(s, r)
  <2>1. scan' = [scan EXCEPT ![s].outgoing = total, ![s].next = to + 1, ![s].step = step]
    BY DEF ReadRange, to, more, end, from
  <2> HIDE DEF total, step
  <2> QED BY <1>0, <2>1, WalletTypes DEF ScanIs
<1>t. step = IF to = end THEN "confirming" ELSE "reading"
  OBVIOUS
<1>u. total = scan[s].outgoing + more
  OBVIOUS
<1> HIDE DEF total, step
<1>7. r \in ScanRecord
  BY <1>0, <1>5, WalletTypes DEF ScanRecord
<1> HIDE DEF r
<1>8. /\ scan'[s].step = step /\ scan'[s].end = end /\ scan'[s].hash = scan[s].hash
      /\ scan'[s].next = to + 1 /\ scan'[s].outgoing = total
      /\ scan'[s].began = scan[s].began /\ scan'[s].retry = scan[s].retry
      /\ scan'[s].wasDisabled = scan[s].wasDisabled
  <2>1. scan'[s] = r
    BY <1>0, <1>6, <1>7, ScanBecomes
  <2>2. scan[s] \in ScanRecord
    BY <1>0, WalletTypes
  <2> QED BY <2>1, <2>2 DEF r, end, ScanRecord
<1>9. Reading(s)'
  <2>0. scan'[s].end = scan[s].end
    BY <1>8 DEF end
  <2>1. /\ First(s)' = First(s) /\ Hash(scan[s].end)' = Hash(end)
        /\ SpentIn(fork, First(s), scan[s].next - 1)' = SpentIn(fork, First(s), to + 1 - 1)
    <3>1. First(s)' = First(s)
      BY <2>0 DEF First
    <3>2. Hash(scan[s].end)' = Hash(end)
      BY <1>1, <1>8 DEF Hash
    <3>3. fork' = fork /\ scan'[s].next = to + 1
      BY <1>1, <1>8
    <3>4. SpentIn(fork, First(s), scan[s].next - 1)' = SpentIn(fork, First(s), to + 1 - 1)
      <4>1. scan'[s].next - 1 + 1 = to + 1 /\ to + 1 - 1 + 1 = to + 1
        BY <1>3, <3>3
      <4> QED BY <3>1, <3>3, <4>1 DEF SpentIn, First
    <3> QED BY <3>1, <3>2, <3>4
  <2>2. /\ fork = FirstFork => scan[s].hash = Hash(end)
        /\ scan[s].hash = Hash(end) =>
             scan[s].outgoing = SpentIn(fork, First(s), from - 1)
    BY <1>1 DEF Reading, end, from
  <2>3. SpentIn(fork, First(s), from - 1) + more = SpentIn(fork, First(s), to + 1 - 1)
    <3>1. /\ First(s) \in 0..LastBlock + 1 /\ from \in 0..LastBlock + 1
          /\ to + 1 \in 0..LastBlock + 1
      BY <1>2, <1>3
    <3>2. from - 1 + 1 = from /\ to + 1 - 1 + 1 = to + 1
      BY <1>2, <1>3
    <3>3. /\ Sent[fork][from] \in Nat /\ Sent[fork][to + 1] \in Nat
          /\ Sent[fork][First(s)] \in Nat
      BY <1>4, <3>1, ChainAssumption
    <3> QED BY <3>2, <3>3 DEF SpentIn, more
  <2>4. scan[s].hash = Hash(end) => total = SpentIn(fork, First(s), to + 1 - 1)
    BY <1>u, <2>2, <2>3
  <2>5. /\ First(s) <= to + 1 /\ to + 1 <= end + 1
        /\ step = "reading" => to + 1 <= end
        /\ step = "confirming" => to + 1 = end + 1
    BY <1>2, <1>3, <1>t
  <2> QED BY <1>1, <1>2, <1>8, <2>1, <2>2, <2>4, <2>5 DEF Reading
<1>10. ScanInv(s)'
  <2>1. step \in {"reading", "confirming"}
    BY <1>t
  <2> QED BY <1>0, <1>1, <1>8, <1>9, <2>1 DEF ScanInv, Settled, Excused
<1> QED BY <1>1, <1>6, <1>7, <1>10, OneScan

LEMMA ConfirmKeeps ==
  ASSUME MonitorInv, NEW s \in Scans, Confirm(s), AnchorHolds(s),
         UNCHANGED now
  PROVE  MonitorInv'
<1> DEFINE r == [Moved(s, "storing") EXCEPT !.at = now]
<1>0. ScanInv(s) /\ MonitorTypeOK /\ now \in Nat
  BY ScanInvOf
<1>1. Moved(s, "storing") \in ScanRecord
  BY <1>0, ScanRecords DEF ScanSteps
<1>2. r \in ScanRecord
  BY <1>0, <1>1 DEF ScanRecord
<1>3. ScanIs(s, r)
  BY <1>0, WalletTypes DEF Confirm, ScanIs, Moved
<1> HIDE DEF r
<1>4. /\ scan'[s].step = "storing" /\ scan'[s].end = scan[s].end /\ scan'[s].hash = scan[s].hash
      /\ scan'[s].outgoing = scan[s].outgoing
      /\ scan'[s].began = scan[s].began /\ scan'[s].retry = scan[s].retry
      /\ scan'[s].wasDisabled = scan[s].wasDisabled
  <2>1. scan'[s] = r
    BY <1>0, <1>2, <1>3, ScanBecomes
  <2>2. scan[s] \in ScanRecord
    BY <1>0, WalletTypes
  <2> QED BY <2>1, <2>2 DEF r, Moved, ScanRecord
<1>5. UNCHANGED <<head, fork, spending, monitor>>
  BY DEF Confirm, WorldUnchanged
<1>6. Settled(s)'
  <2>1. /\ Lookback <= scan[s].end /\ scan[s].next = scan[s].end + 1
        /\ scan[s].hash = Hash(scan[s].end)
        /\ scan[s].outgoing = SpentIn(fork, First(s), scan[s].next - 1)
    BY <1>0 DEF ScanInv, Reading, Confirm, Scanning, AnchorHolds
  <2>2. scan[s].next - 1 = scan[s].end /\ scan[s].end - First(s) = Lookback
    BY <1>0, <2>1, WalletFields, WalletConstants
  <2>3. fork \in Forks /\ Hash(scan[s].end) = HashOn(fork, scan[s].end)
    BY <1>0 DEF MonitorTypeOK, Hash, HashOn
  <2>4. TrueOf(scan[s].hash, scan[s].outgoing, First(s), scan[s].end)
    BY <2>1, <2>2, <2>3 DEF TrueOf
  <2>5. First(s)' = First(s)
    BY <1>4 DEF First
  <2>6. TrueOf(scan[s].hash, scan[s].outgoing, First(s), scan[s].end)'
    BY <1>4, <2>4, <2>5 DEF TrueOf, HashOn, SpentIn
  <2> QED BY <1>4, <2>1, <2>6 DEF Settled
<1>7. ScanInv(s)'
  BY <1>0, <1>4, <1>5, <1>6 DEF ScanInv, Reading, Excused
<1> QED BY <1>2, <1>3, <1>5, <1>7, OneScan

\* A row that is written now takes no retry's excuse away.
LEMMA StoringKeeps ==
  ASSUME MonitorInv, NEW s \in Scans,
         StoreObservation(s) \/ StoreFailure(s), UNCHANGED now
  PROVE  MonitorInv'
<1>0. ScanInv(s) /\ MonitorTypeOK /\ now \in Nat
  BY ScanInvOf
<1>1. ScanIs(s, Ended) /\ UNCHANGED <<head, fork, spending>> /\ Ended \in ScanRecord
  BY <1>0, ScanRecords
     DEF StoreObservation, StoreFailure, ScanEnds, ScanIs, Ended, WorldUnchanged
<1>2. /\ scan' \in [Scans -> ScanRecord]
      /\ scan'[s].step = "ended" /\ scan'[s].began = 0 /\ scan'[s].retry = FALSE
      /\ \A q \in Scans : q # s => scan'[q] = scan[q]
  BY <1>0, <1>1, ScanBecomes, ScanRecords
<1>3. monitor' \in Row /\ monitor'.written = now /\ ObservationTrue'
  <2>1. CASE StoreObservation(s)
    <3>1. /\ scan[s].step = "storing"
          /\ monitor' = [state |-> "OK", outgoing |-> scan[s].outgoing, start |-> First(s),
                         end |-> scan[s].end, hash |-> scan[s].hash, at |-> scan[s].at,
                         written |-> now]
      BY <2>1 DEF StoreObservation, Scanning
    <3>2. /\ Lookback <= scan[s].end
          /\ TrueOf(scan[s].hash, scan[s].outgoing, First(s), scan[s].end)
      BY <1>0, <3>1 DEF ScanInv, Settled
    <3>3. First(s) \in Nat
      BY <1>0, <3>2, WalletFields, WalletConstants
    <3>4. monitor' \in Row /\ monitor'.written = now
      BY <1>0, <3>1, <3>3, WalletFields DEF Row
    <3>5. /\ monitor'.outgoing = scan[s].outgoing /\ monitor'.start = First(s)
          /\ monitor'.end = scan[s].end /\ monitor'.hash = scan[s].hash
      BY <3>1
    <3>6. ObservationTrue'
      BY <3>2, <3>5 DEF TrueOf, HashOn, ObservationTrue, SpentIn
    <3> QED BY <3>4, <3>6
  <2>2. CASE StoreFailure(s)
    <3>1. monitor' = [state |-> "FAILED", outgoing |-> 0, start |-> 0, end |-> 0,
                      hash |-> <<"common", 0>>, at |-> now, written |-> now]
      BY <2>2 DEF StoreFailure
    <3>2. <<"common", 0>> \in Hashes
      BY DEF Hashes
    <3>3. monitor' \in Row /\ monitor'.written = now /\ monitor'.state = "FAILED"
      BY <1>0, <3>1, <3>2 DEF Row
    <3> QED BY <3>3 DEF ObservationTrue
  <2> QED BY <2>1, <2>2
<1>4. ASSUME NEW q \in Scans PROVE ScanInv(q)'
  <2>1. CASE q = s
    BY <1>0, <1>2, <2>1 DEF ScanInv, Reading, Settled, Excused
  <2>2. CASE q # s
    <3>1. scan'[q] = scan[q] /\ ScanInv(q) /\ scan[q].began \in Nat /\ scan[q].began <= now
      BY <1>0, <1>2, <2>2, ScanInvOf, WalletFields DEF ScanInv
    <3>2. Reading(q)' /\ Settled(q)'
      BY <1>1, <3>1 DEF ScanInv, Reading, Settled, TrueOf, HashOn, Hash, First, SpentIn
    <3>3. Excused(q)'
      BY <1>0, <1>3, <3>1 DEF ScanInv, Excused
    <3> QED BY <3>1, <3>2, <3>3 DEF ScanInv
  <2> QED BY <2>1, <2>2
<1>5. MonitorTypeOK'
  BY <1>0, <1>1, <1>2, <1>3 DEF MonitorTypeOK, ScanRecord, Row
<1> QED BY <1>0, <1>3, <1>4, <1>5 DEF MonitorInv, ScanInv

\* The world moves on: the chain grows or is replaced, the policy changes, time passes.
Moving ==
  \/ Grow /\ UNCHANGED now
  \/ Reorganise /\ UNCHANGED now
  \/ (\E policy \in {"disabled", "otherwise"} : SetSpending(policy)) /\ UNCHANGED now
  \/ Advance /\ UNCHANGED monitorVars
  \/ UNCHANGED <<now, monitorVars>>

LEMMA WorldMoves ==
  ASSUME MonitorInv, Moving
  PROVE  /\ UNCHANGED <<scan, monitor>>
         /\ now' \in Nat /\ now <= now'
         /\ head' \in 0..LastBlock /\ head <= head'
         /\ spending' \in {"disabled", "otherwise"}
         /\ \/ fork' = fork
            \/ fork = FirstFork /\ fork' \in Forks \ {fork} /\ head' = head
<1>0. /\ now \in Nat /\ head \in 0..LastBlock /\ LastBlock \in Nat
      /\ spending \in {"disabled", "otherwise"}
  BY WalletConstants DEF MonitorInv, MonitorTypeOK
<1>1. ASSUME Grow, UNCHANGED now
      PROVE  /\ UNCHANGED <<fork, spending, scan, monitor, now>>
             /\ head' = head + 1 /\ head < LastBlock
  BY <1>1, Zenon DEF Grow
<1>2. ASSUME Reorganise, UNCHANGED now
      PROVE  /\ UNCHANGED <<head, spending, scan, monitor, now>>
             /\ fork = FirstFork /\ fork' \in Forks \ {fork}
  BY <1>2, Zenon DEF Reorganise
<1>3. ASSUME NEW policy \in {"disabled", "otherwise"}, SetSpending(policy), UNCHANGED now
      PROVE  UNCHANGED <<head, fork, scan, monitor, now>> /\ spending' = policy
  BY <1>3, Zenon DEF SetSpending
<1>4. ASSUME Advance, UNCHANGED monitorVars
      PROVE  UNCHANGED <<head, fork, spending, scan, monitor>> /\ now' = now + 1
  BY <1>4, Zenon DEF Advance, monitorVars
<1>5. ASSUME UNCHANGED <<now, monitorVars>>
      PROVE  UNCHANGED <<head, fork, spending, scan, monitor, now>>
  BY <1>5, Zenon DEF monitorVars
<1>6. CASE Grow /\ UNCHANGED now
  BY <1>0, <1>1, <1>6
<1>7. CASE Reorganise /\ UNCHANGED now
  BY <1>0, <1>2, <1>7
<1>8. CASE (\E policy \in {"disabled", "otherwise"} : SetSpending(policy)) /\ UNCHANGED now
  BY <1>0, <1>3, <1>8
<1>9. CASE Advance /\ UNCHANGED monitorVars
  BY <1>0, <1>4, <1>9
<1>10. CASE UNCHANGED <<now, monitorVars>>
  BY <1>0, <1>5, <1>10
<1> QED BY <1>6, <1>7, <1>8, <1>9, <1>10 DEF Moving

LEMMA WorldKeeps ==
  ASSUME MonitorInv, Moving
  PROVE  MonitorInv'
<1>0. MonitorTypeOK /\ now \in Nat /\ ObservationTrue
  BY DEF MonitorInv
<1>1. UNCHANGED <<scan, monitor>> /\ now' \in Nat /\ now <= now'
  BY WorldMoves
<1>2. MonitorTypeOK' /\ head <= head'
  <2>1. fork' \in Forks
    BY <1>0, WorldMoves DEF MonitorTypeOK
  <2> QED BY <1>0, <1>1, <2>1, WorldMoves DEF MonitorTypeOK
<1>3. ASSUME NEW s \in Scans PROVE Reading(s)'
  <2>0. scan[s] = scan'[s] /\ First(s)' = First(s) /\ Reading(s)
    BY <1>1 DEF First, MonitorInv
  <2>1. CASE fork' = fork
    <3>1. scan[s].end \in Nat /\ head \in Nat /\ head' \in Nat
      BY <1>0, <1>2, WalletConstants, WalletFields DEF MonitorTypeOK
    <3>2. Hash(scan[s].end)' = Hash(scan[s].end)
      BY <2>0, <2>1 DEF Hash
    <3>3. SpentIn(fork, First(s), scan[s].next - 1)' = SpentIn(fork, First(s), scan[s].next - 1)
      BY <2>0, <2>1 DEF SpentIn
    <3> QED BY <1>2, <2>0, <2>1, <3>1, <3>2, <3>3 DEF Reading
  <2>2. CASE fork' # fork
    <3>1. fork = FirstFork /\ fork' \in Forks /\ fork' # FirstFork /\ head' = head
      BY <2>2, WorldMoves
    <3> SUFFICES ASSUME scan[s].step \in {"reading", "confirming"},
                        scan[s].hash = Hash(scan[s].end)'
                 PROVE  scan[s].outgoing = SpentIn(fork', First(s), scan[s].next - 1)
      BY <2>0, <3>1 DEF Reading, SpentIn
    <3>2. /\ scan[s].hash = Hash(scan[s].end)
          /\ scan[s].outgoing = SpentIn(fork, First(s), scan[s].next - 1)
      BY <2>0, <3>1 DEF Reading
    <3>3. Hash(scan[s].end)' =
            <<IF scan[s].end < ForkPoint THEN "common" ELSE fork', scan[s].end>>
      BY <2>0 DEF Hash
    <3>4. scan[s].end < ForkPoint
      BY <2>2, <3>2, <3>3 DEF Hash
    <3>5. /\ First(s) <= scan[s].next /\ scan[s].next <= scan[s].end + 1
          /\ Lookback <= scan[s].end /\ scan[s].end <= head
          /\ head \in 0..LastBlock /\ fork \in Forks
      BY <1>0, <2>0 DEF Reading, MonitorTypeOK
    <3>6. /\ First(s) \in 0..LastBlock + 1 /\ First(s) <= ForkPoint
          /\ scan[s].next \in 0..LastBlock + 1 /\ scan[s].next <= ForkPoint
          /\ scan[s].next - 1 + 1 = scan[s].next
      <4>1. First(s) = scan[s].end - Lookback /\ scan[s].end \in Nat /\ scan[s].next \in Nat
        BY <1>0, WalletFields
      <4>2. PICK end, next, first \in Int :
              end = scan[s].end /\ next = scan[s].next /\ first = First(s)
        <5>1. Lookback \in Int /\ \A n \in Nat : n \in Int /\ n - Lookback \in Int
          BY WalletConstants
        <5>2. scan[s].end \in Int /\ scan[s].next \in Int /\ First(s) \in Int
          BY <4>1, <5>1
        <5> QED BY <5>2, Zenon
      <4>3. /\ first = end - Lookback /\ first <= next /\ next <= end + 1 /\ Lookback <= end
            /\ end <= head /\ head \in 0..LastBlock /\ end < ForkPoint
        BY <3>4, <3>5, <4>1, <4>2
      <4>4. /\ first \in 0..LastBlock + 1 /\ first <= ForkPoint
            /\ next \in 0..LastBlock + 1 /\ next <= ForkPoint /\ next - 1 + 1 = next
        BY <4>3, WalletConstants
      <4> QED BY <4>2, <4>4
    <3> DEFINE first == First(s)
               next == scan[s].next
    <3>7. Sent[fork][next] - Sent[fork][first] = Sent[fork'][next] - Sent[fork'][first]
      <4> HIDE DEF first, next
      <4>1. /\ first \in 0..LastBlock + 1 /\ first <= ForkPoint
            /\ next \in 0..LastBlock + 1 /\ next <= ForkPoint
        BY <3>6 DEF first, next
      <4> QED BY <3>1, <3>5, <4>1, SentInRanges
    <3> QED BY <3>2, <3>6, <3>7 DEF SpentIn
  <2> QED BY <2>1, <2>2
<1>4. ASSUME NEW s \in Scans PROVE (Settled(s) /\ Excused(s) /\ scan[s].began <= now)'
  <2>1. Settled(s) /\ Excused(s) /\ scan[s].began <= now
    BY DEF MonitorInv
  <2>2. scan'[s].began <= now'
    BY <1>0, <1>1, <2>1, WalletFields
  <2>3. Excused(s)'
    BY <1>1, <2>1 DEF Excused
  <2> QED BY <1>1, <2>1, <2>2, <2>3 DEF Settled, TrueOf, HashOn, First, SpentIn
<1>5. ObservationTrue'
  BY <1>0, <1>1 DEF ObservationTrue, SpentIn
<1> QED BY <1>1, <1>2, <1>3, <1>4, <1>5 DEF MonitorInv

LEMMA MonitorStarts ==
  ASSUME MonitorInit, ClockInit
  PROVE  MonitorInv
<1>1. MonitorTypeOK
  <2>1. head \in 0..LastBlock /\ fork \in Forks
    BY WalletConstants DEF MonitorInit
  <2>2. <<"common", 0>> \in Hashes
    BY DEF Hashes
  <2>3. monitor \in Row
    BY <2>2 DEF MonitorInit, Row
  <2>4. scan \in [Scans -> ScanRecord]
    BY WalletTypes DEF MonitorInit
  <2> QED BY <2>1, <2>3, <2>4, WalletTypes DEF MonitorInit
<1>2. \A s \in Scans : scan[s].step = "idle" /\ scan[s].retry = FALSE /\ scan[s].began = 0
  BY DEF MonitorInit, Unscanned
<1>3. monitor.state = "none" /\ now = 0
  BY DEF MonitorInit, ClockInit
<1> QED BY <1>1, <1>2, <1>3 DEF MonitorInv, Reading, Settled, Excused, ObservationTrue

LEMMA MonitorKeeps ==
  ASSUME MonitorInv, [MonitorNext]_<<now, monitorVars>>
  PROVE  MonitorInv'
<1>1. ASSUME NEW s \in Scans, ScanStep(s), UNCHANGED now
      PROVE  MonitorInv'
  <2>1. \/ Admit(s) \/ ScanFails(s) \/ Vanish(s)
        \/ Confirm(s) /\ ~AnchorHolds(s)
        \/ Retry(s) /\ Complete
        \/ Retry(s) /\ ~Complete
        \/ Primary(s) \/ Anchor(s) \/ ReadRange(s)
        \/ Confirm(s) /\ AnchorHolds(s)
        \/ StoreObservation(s) \/ StoreFailure(s)
    BY <1>1 DEF ScanStep
  <2>2. ASSUME \/ Admit(s) \/ ScanFails(s) \/ Vanish(s)
               \/ Confirm(s) /\ ~AnchorHolds(s)
               \/ Retry(s) /\ Complete
        PROVE  MonitorInv'
    BY <1>1, <2>2, EmptySteps
  <2>3. CASE Primary(s)
    BY <1>1, <2>3, PrimaryKeeps
  <2>4. CASE Retry(s) /\ ~Complete
    BY <1>1, <2>4, RetryKeeps
  <2>5. CASE Anchor(s)
    BY <1>1, <2>5, AnchorKeeps
  <2>6. CASE ReadRange(s)
    BY <1>1, <2>6, ReadKeeps
  <2>7. CASE Confirm(s) /\ AnchorHolds(s)
    BY <1>1, <2>7, ConfirmKeeps
  <2>8. CASE StoreObservation(s) \/ StoreFailure(s)
    BY <1>1, <2>8, StoringKeeps
  <2> QED BY <2>1, <2>2, <2>3, <2>4, <2>5, <2>6, <2>7, <2>8
<1>2. \/ \E s \in Scans : ScanStep(s) /\ UNCHANGED now
      \/ Moving
  BY DEF MonitorNext, MonitorStep, Moving
<1> QED BY <1>1, <1>2, WorldKeeps

(* The types of the monitor's variables, for any scans, chain and times. *)
THEOREM MonitorTypeCorrect ==
  MonitorSpec => []MonitorTypeOK
<1>1. MonitorInv => MonitorTypeOK
  BY DEF MonitorInv
<1> QED BY <1>1, MonitorStarts, MonitorKeeps, PTL DEF MonitorSpec

(* What a row says the wallet spent is what it spent in the blocks the row names, on the *)
(* chain its last block belongs to, however scans overlap and wherever the chain forks.  *)
THEOREM ObservationsAreTrue ==
  MonitorSpec => []ObservationTrue
<1>1. MonitorInv => ObservationTrue
  BY DEF MonitorInv
<1> QED BY <1>1, MonitorStarts, MonitorKeeps, PTL DEF MonitorSpec

(* A retry's failure spares every complete observation the retry had found fresh. *)
THEOREM RetriesSpareObservations ==
  MonitorSpec => RetrySparesObservation
<1> DEFINE Spares ==
      \A s \in Scans :
        /\ StoreFailure(s) /\ scan[s].retry /\ monitor.state = "OK" /\ scan[s].wasDisabled
        /\ monitor.written < scan[s].began
        => \/ monitor.at < (scan[s].began \div DayLength) * DayLength
           \/ scan[s].began - monitor.at > FreshFor
<1>1. MonitorInv /\ [MonitorNext]_<<now, monitorVars>> => [Spares]_monitorVars
  BY DEF MonitorInv, Excused
<1> QED BY <1>1, MonitorStarts, MonitorKeeps, PTL DEF MonitorSpec, RetrySparesObservation
=============================================================================
