------------------------- MODULE SanctionsScreening -------------------------
(***************************************************************************)
(* Sanctions screening (src/src/core/sanctions.ts, sanctions-50-rule.ts):  *)
(* the names a request mentions are looked up in the lists, and an entity  *)
(* whose owners are given is blocked when blocked owners hold 50 percent   *)
(* of it, or are themselves blocked that way.  The denylist in Workers KV  *)
(* grows while requests are being screened, and its reads may fail.        *)
(*                                                                         *)
(* A caller sends an entity with its shareholders, theirs, and so on: the  *)
(* unfolding, to some depth, of who owns what, which may be circular.      *)
(* Shares are in thousandths of a percent.                                 *)
(***************************************************************************)
EXTENDS Integers, FiniteSets, FiniteSetsExt

CONSTANTS
  Names,       \* what a request may mention, after normalisation
  Entities,    \* the names of legal entities among them
  ScreenedAs,  \* the type under which a mentioned name is looked up
  Types,       \* the types of entries
  BuiltIn,     \* the names in the built-in lists, whatever they are names of
  Requests,    \* the requests made: see ScreeningRequest
  MaxEntries   \* bound: how many entries are added

VARIABLES
  denylist, \* the entries in KV
  screening \* one request: its stage, its inputs, the denylist when it began, its answer

screeningVars == <<denylist, screening>>

Entries == Types \X Names

\* candidates: the names extracted; blocked: those the caller's own constraint blocks;
\* owned: the 50 percent rule is asked about root, whose owners, stake[h][e] being h's share
\* in e, are given to a depth.
ScreeningRequest ==
  [candidates : SUBSET Names, blocked : SUBSET Names, owned : BOOLEAN, root : Entities,
   stake : [Entities -> [Entities -> Int]], depth : Nat, threshold : Int]

ASSUME ScreeningAssumption ==
  /\ Entities \subseteq Names /\ IsFiniteSet(Entities)
  /\ ScreenedAs \in [Names -> Types]
  /\ BuiltIn \subseteq Names
  /\ Requests \subseteq ScreeningRequest

ScreeningTypeOK ==
  /\ denylist \subseteq Entries
  /\ screening.stage \in {"idle", "reading", "done"}
  /\ screening.stage # "idle" =>
       screening.request \in ScreeningRequest /\ screening.from \subseteq denylist
  /\ screening.stage = "done" => screening.clean \in BOOLEAN /\ screening.errors \subseteq Names

ScreeningInit ==
  /\ denylist = {}
  /\ screening = [stage |-> "idle"]

---------------------------------------------------------------------------
(* Entries.                                                                *)

\* An authenticated integration adds an entry, under the type it gives or the detected one.
addCustomSanctionsEntry(n, type) ==
  /\ Cardinality(denylist) < MaxEntries
  /\ denylist' = denylist \cup {<<type, n>>}
  /\ UNCHANGED screening

---------------------------------------------------------------------------
(* The 50 percent rule.  found are the entity names a lookup finds listed. *)

\* Mutant: the sum of shares is rounded to a whole percent.
RoundedToPercent(share) == ((share + 500) \div 1000) * 1000

\* Math.round(x * 100) / 100.
Rounded(share) == ((share + 5) \div 10) * 10

Clamped(share) == Max({0, Min({100000, share})})

Total(stake, holders, e) == MapThenSumSet(LAMBDA h : Clamped(stake[h][e]), holders)

\* Mutant: an owner is blocked only when it is on a list itself.
OwnersDirect(found, below, e) == found \ {e}

\* The owners of e that are blocked: on a list, or deemed blocked.  An entity named as its
\* own owner is skipped.
Owners(found, below, e) == (found \cup below) \ {e}

evaluateSanctions50Rule(r, found) ==
  LET violation[k \in 0..r.depth] ==
        {e \in Entities :
           \/ e \in found
           \/ k > 0 /\ Rounded(Total(r.stake, Owners(found, violation[k - 1], e), e))
                          >= r.threshold}
  IN  r.root \in violation[r.depth]

---------------------------------------------------------------------------
(* One request.                                                            *)

BeginScreening(r) ==
  /\ screening.stage = "idle"
  /\ screening' = [stage |-> "reading", request |-> r, from |-> denylist]
  /\ UNCHANGED denylist

Hit(n, type, r, entries) == n \in r.blocked \cup BuiltIn \/ <<type, n>> \in entries

\* What a read of KV for n adds to the lists: nothing when it fails.
ReadOf(entries, errors) == {x \in entries : x[2] \notin errors}

\* A candidate whose lookup fails is blocked.
CandidateBlocked(n, r, entries, errors) ==
  \/ Hit(n, ScreenedAs[n], r, entries)
  \/ n \in errors

\* An owner whose lookup fails is passed over.
OwnersFound(r, entries, errors) ==
  {e \in Entities : Hit(e, "entity_name", r, ReadOf(entries, errors))}

\* Every read sees the entries there were at the start and some of those added since.  What
\* is blocked only grows with what a read sees, so that one set stands for all reads.
Seen == {screening.from \cup late : late \in SUBSET (denylist \ screening.from)}

Clean(r, seen, errors) ==
  /\ \A n \in r.candidates : ~CandidateBlocked(n, r, seen, errors)
  /\ r.owned => ~evaluateSanctions50Rule(r, OwnersFound(r, seen, errors))

FinishScreening(errors) ==
  /\ screening.stage = "reading"
  /\ \E seen \in Seen :
       screening' = [stage |-> "done", request |-> screening.request, from |-> screening.from,
                     errors |-> errors, clean |-> Clean(screening.request, seen, errors)]
  /\ UNCHANGED denylist

\* At most one lookup fails.
ScreeningNext ==
  \/ \E n \in Names, type \in Types : addCustomSanctionsEntry(n, type)
  \/ \E r \in Requests : BeginScreening(r)
  \/ \E errors \in {{}} \cup {{n} : n \in Names} : FinishScreening(errors)

ScreeningSpec == ScreeningInit /\ [][ScreeningNext]_screeningVars

---------------------------------------------------------------------------
(* The reference: who is blocked, as a fact about names and not trees.     *)

Listed(r, entries) == {e \in Entities : Hit(e, "entity_name", r, entries)}

\* What rounding to a hundredth of a percent adds or takes, at most.
Rounding == 5

\* The least set that has the listed entities and everyone they own to the threshold.
BlockedBy(r, entries, threshold) ==
  {e \in Entities :
     \A S \in SUBSET Entities :
       (/\ Listed(r, entries) \subseteq S
        /\ \A o \in Entities : Total(r.stake, S \ {o}, o) >= threshold => o \in S) => e \in S}

\* A clean answer: no name that was on a list when screening began was mentioned, and when
\* no lookup failed and all owners were sent, the entity was not blocked then, but for the
\* rounding to hundredths of a percent, whatever the cycles of ownership and the entries
\* added meanwhile.
ClearedSafely ==
  LET r == screening.request IN
  screening.stage = "done" /\ screening.clean =>
    /\ \A n \in r.candidates : ~Hit(n, ScreenedAs[n], r, screening.from)
    /\ r.owned /\ r.depth >= Cardinality(Entities) /\ screening.errors = {} =>
         r.root \notin BlockedBy(r, screening.from, r.threshold + Rounding)

\* No one is refused who is not mentioned on a list by now, whose lookup did not fail, and
\* who is not owned to the threshold, but for the rounding to hundredths of a percent.
BlockedRightly ==
  LET r == screening.request IN
  screening.stage = "done" /\ ~screening.clean =>
    \/ \E n \in r.candidates : Hit(n, ScreenedAs[n], r, denylist) \/ n \in screening.errors
    \/ r.owned /\ r.root \in BlockedBy(r, denylist, r.threshold - Rounding)
=============================================================================
