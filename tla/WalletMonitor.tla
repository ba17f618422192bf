--------------------------- MODULE WalletMonitor ---------------------------
(***************************************************************************)
(* The nightly observation of a wallet's spending                          *)
(* (src/src/reviews/wallet-monitor.ts, wallet-history.ts, scheduled.ts): a *)
(* primary scan and later retries read the chain range by range through a  *)
(* public RPC node and keep one row for the last result.                   *)
(*                                                                         *)
(* External: the chain, which grows and, once, replaces its last blocks    *)
(* although they were reported as final, and the wallet's spending policy. *)
(* A block's hash is its number with the fork it belongs to.               *)
(***************************************************************************)
EXTENDS ServiceClock

CONSTANTS
  Scans,     \* invocations by cron, each once
  Forks,     \* the two histories of the chain
  ForkPoint, \* the first block in which they differ
  Sent,      \* what the wallet has sent on each fork before each block
  Lookback,  \* blocks that are scanned: monitorLookbackBlocks
  Span,      \* MONITOR_LOG_SPAN: blocks of one range
  DayLength, \* a day
  FreshFor,  \* how long a complete observation makes a retry unnecessary (3 h)
  LastBlock  \* bound: the chain ends here

ASSUME MonitorAssumption ==
  /\ {ForkPoint, Lookback, Span, LastBlock} \subseteq Nat
  /\ Span > 0 /\ Lookback <= LastBlock
  /\ DayLength \in Nat \ {0} /\ FreshFor \in Nat

\* Nothing that was sent is taken back, and the forks agree before they part.
ASSUME ChainAssumption ==
  /\ Forks # {}
  /\ Sent \in [Forks -> [0..LastBlock + 1 -> Nat]]
  /\ \A f \in Forks : \A a, b \in 0..LastBlock + 1 : a <= b => Sent[f][a] <= Sent[f][b]
  /\ \A f, g \in Forks : \A b \in 0..LastBlock + 1 : b <= ForkPoint => Sent[f][b] = Sent[g][b]

VARIABLES
  head,   \* the last final block
  fork,   \* the chain's history
  spending, \* whether the wallet's policy is there and disabled, or otherwise
  scan,   \* what each scan has come to
  monitor \* the row: its state, what it observed, and (history) when it was written

monitorVars == <<head, fork, spending, scan, monitor>>

ScanSteps ==
  {"idle", "admitting", "anchoring", "reading", "confirming", "storing", "failing", "ended"}

Hashes == (Forks \cup {"common"}) \X Nat

MonitorTypeOK ==
  /\ head \in 0..LastBlock /\ fork \in Forks
  /\ spending \in {"disabled", "otherwise"}
  /\ scan \in [Scans ->
       [step : ScanSteps, retry : BOOLEAN, began : Nat, wasDisabled : BOOLEAN, end : Nat,
        hash : Hashes, next : Nat, outgoing : Nat, at : Nat]]
  /\ monitor \in
       [state : {"none", "OK", "FAILED"}, outgoing : Nat, start : Nat, end : Nat, hash : Hashes,
        at : Nat, written : Nat]

Hash(b) == <<IF b < ForkPoint THEN "common" ELSE fork, b>>

\* The history the chain begins with.
FirstFork == CHOOSE f \in Forks : TRUE

Unscanned ==
  [step |-> "idle", retry |-> FALSE, began |-> 0, wasDisabled |-> FALSE, end |-> 0,
   hash |-> <<"common", 0>>, next |-> 0, outgoing |-> 0, at |-> 0]

MonitorInit ==
  /\ head = Lookback
  /\ fork = FirstFork
  /\ spending = "disabled"
  /\ scan = [s \in Scans |-> Unscanned]
  /\ monitor = [state |-> "none", outgoing |-> 0, start |-> 0, end |-> 0,
                hash |-> <<"common", 0>>, at |-> 0, written |-> 0]

Scanning(s, step) == scan[s].step = step

ScanGoes(s, step) == scan' = [scan EXCEPT ![s].step = step]

WorldUnchanged == UNCHANGED <<head, fork, spending>>

\* A scan that is over leaves nothing but what it stored.
ScanEnds(s) == scan' = [scan EXCEPT ![s] = [Unscanned EXCEPT !.step = "ended"]]

\* A failure is still to be stored.
ScanAborts(s) ==
  scan' = [scan EXCEPT ![s] = [Unscanned EXCEPT !.step = "failing", !.retry = scan[s].retry,
                                 !.began = scan[s].began, !.wasDisabled = scan[s].wasDisabled]]

First(s) == scan[s].end - Lookback

---------------------------------------------------------------------------
(* Cron: the primary scan, and the retries, which look at the row first.   *)

Primary(s) ==
  /\ Scanning(s, "idle")
  /\ scan' = [scan EXCEPT ![s].step = "admitting", ![s].began = now]
  /\ WorldUnchanged /\ UNCHANGED monitor

PrimaryTime == (now \div DayLength) * DayLength

\* Mutant: a retry scans whatever the row says.
CompleteNever == FALSE

\* Today's observation is there and fresh, of a wallet that is still not spending.
Complete ==
  /\ monitor.state = "OK"
  /\ spending = "disabled"
  /\ monitor.at >= PrimaryTime
  /\ now - monitor.at <= FreshFor
  /\ monitor.end - monitor.start = Lookback

Retry(s) ==
  /\ Scanning(s, "idle")
  /\ IF Complete
     THEN ScanEnds(s)
     ELSE scan' = [scan EXCEPT ![s].step = "admitting", ![s].retry = TRUE, ![s].began = now,
                               ![s].wasDisabled = spending = "disabled"]
  /\ WorldUnchanged /\ UNCHANGED monitor

---------------------------------------------------------------------------
(* The scan.                                                               *)

\* Only a wallet whose policy exists and is disabled is scanned.
Admit(s) ==
  /\ Scanning(s, "admitting")
  /\ IF spending = "disabled" THEN ScanGoes(s, "anchoring") ELSE ScanAborts(s)
  /\ WorldUnchanged /\ UNCHANGED monitor

\* The last final block is the anchor; the first block of the range is checked too.
Anchor(s) ==
  /\ Scanning(s, "anchoring")
  /\ head >= Lookback
  /\ scan' = [scan EXCEPT ![s].step = "reading", ![s].end = head, ![s].hash = Hash(head),
                          ![s].next = head - Lookback, ![s].outgoing = 0]
  /\ WorldUnchanged /\ UNCHANGED monitor

\* The last block of the range that begins at b.
RangeEnd(s, b) == IF b + Span - 1 < scan[s].end THEN b + Span - 1 ELSE scan[s].end

\* What the wallet sends on a fork in the blocks of a range.
SpentIn(f, from, to) == Sent[f][to + 1] - Sent[f][from]

ReadRange(s) ==
  LET from == scan[s].next
      to == RangeEnd(s, from)
  IN
  /\ Scanning(s, "reading")
  /\ scan' = [scan EXCEPT ![s].outgoing = @ + SpentIn(fork, from, to), ![s].next = to + 1,
                          ![s].step = IF to = scan[s].end THEN "confirming" ELSE "reading"]
  /\ WorldUnchanged /\ UNCHANGED monitor

\* Mutant: the anchor is not read again.
AnchorTaken(s) == TRUE

AnchorHolds(s) == Hash(scan[s].end) = scan[s].hash

Confirm(s) ==
  /\ Scanning(s, "confirming")
  /\ IF AnchorHolds(s)
     THEN scan' = [scan EXCEPT ![s].step = "storing", ![s].at = now]
     ELSE ScanAborts(s)
  /\ WorldUnchanged /\ UNCHANGED monitor

\* An RPC call fails or times out, logs are cut off or malformed, the blocks are too old or
\* do not cover a day.
ScanFails(s) ==
  /\ scan[s].step \in {"anchoring", "reading", "confirming"}
  /\ ScanAborts(s)
  /\ WorldUnchanged /\ UNCHANGED monitor

StoreObservation(s) ==
  /\ Scanning(s, "storing")
  /\ monitor' = [state |-> "OK", outgoing |-> scan[s].outgoing, start |-> First(s),
                 end |-> scan[s].end, hash |-> scan[s].hash, at |-> scan[s].at,
                 written |-> now]
  /\ ScanEnds(s)
  /\ WorldUnchanged

\* A failure leaves nothing of an earlier observation.
StoreFailure(s) ==
  /\ Scanning(s, "failing")
  /\ monitor' = [state |-> "FAILED", outgoing |-> 0, start |-> 0, end |-> 0,
                 hash |-> <<"common", 0>>, at |-> now, written |-> now]
  /\ ScanEnds(s)
  /\ WorldUnchanged

\* The Worker ends, or the database fails.
Vanish(s) ==
  /\ scan[s].step \notin {"idle", "ended"}
  /\ ScanEnds(s)
  /\ WorldUnchanged /\ UNCHANGED monitor

---------------------------------------------------------------------------
(* The world.                                                              *)

Grow ==
  /\ head < LastBlock
  /\ head' = head + 1
  /\ UNCHANGED <<fork, spending, scan, monitor>>

Reorganise ==
  /\ fork = FirstFork
  /\ fork' \in Forks \ {fork}
  /\ UNCHANGED <<head, spending, scan, monitor>>

SetSpending(policy) ==
  /\ spending' = policy
  /\ UNCHANGED <<head, fork, scan, monitor>>

ScanStep(s) ==
  \/ Primary(s)
  \/ Retry(s)
  \/ Admit(s)
  \/ Anchor(s)
  \/ ReadRange(s)
  \/ Confirm(s)
  \/ ScanFails(s)
  \/ StoreObservation(s)
  \/ StoreFailure(s)
  \/ Vanish(s)

MonitorStep ==
  \/ \E s \in Scans : ScanStep(s)
  \/ Grow
  \/ Reorganise
  \/ \E policy \in {"disabled", "otherwise"} : SetSpending(policy)

MonitorNext ==
  \/ MonitorStep /\ UNCHANGED now
  \/ Advance /\ UNCHANGED monitorVars

MonitorSpec == MonitorInit /\ ClockInit /\ [][MonitorNext]_<<now, monitorVars>>

---------------------------------------------------------------------------
(* Properties.                                                             *)

\* What a row says the wallet spent is what it spent in exactly the blocks the row names, on
\* the chain its last block belongs to, even when the chain was replaced between two of the
\* ranges that were read.
ObservationTrue ==
  monitor.state = "OK" =>
    /\ monitor.end - monitor.start = Lookback
    /\ \E f \in Forks :
         /\ monitor.hash = <<IF monitor.end < ForkPoint THEN "common" ELSE f, monitor.end>>
         /\ monitor.outgoing = SpentIn(f, monitor.start, monitor.end)

\* A retry's failure replaces an observation only when that was stored after the retry
\* looked, or is not of that day or no longer fresh by then, or the policy was not disabled.
RetrySparesObservation ==
  [][\A s \in Scans :
       /\ StoreFailure(s) /\ scan[s].retry /\ monitor.state = "OK" /\ scan[s].wasDisabled
       /\ monitor.written < scan[s].began
       => \/ monitor.at < (scan[s].began \div DayLength) * DayLength
          \/ scan[s].began - monitor.at > FreshFor]_monitorVars
=============================================================================
