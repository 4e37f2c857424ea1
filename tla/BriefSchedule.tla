---------------------------- MODULE BriefSchedule ----------------------------
(***************************************************************************)
(* The scheduled Manager brief of one workspace: ManagerSettings as the     *)
(* claim, runScheduledBriefScan on several workers, the transaction at the *)
(* end of generateBrief and the owner who edits the schedule meanwhile.     *)
(* A local day or week is a number; scheduleKey is the number itself.       *)
(***************************************************************************)
EXTENDS Naturals, FiniteSets

CONSTANTS
  Workers,       \* processes that may run the scan job
  Owners,        \* members with the role owner
  Members,       \* members with the role member
  MaxPeriods,    \* bound: periods that pass
  MaxEdits,      \* bound: edits of the settings
  MaxFaults,     \* bound: deaths, failed or slow generations, lost answers
  NoPeriod,      \* lastScheduledPeriod is null
  NoClaim        \* scheduleClaimedAt is null

BriefConstants ==
  /\ MaxPeriods \in Nat \ {0}
  /\ MaxEdits \in Nat
  /\ MaxFaults \in Nat
  /\ Owners \intersect Members = {}
  /\ NoClaim \notin Workers
  /\ NoPeriod \notin 1..MaxPeriods

VARIABLES
  period,    \* the local period the clock is in
  due,       \* its hour (and weekday) has arrived
  settings,  \* enabled, audience, last, claimedBy; stale: 30 minutes are over
  scan,      \* scan[w]: what a worker's scan has read and where it stands
  briefs,    \* scheduleKeys of the committed runs
  notices,   \* notices[p][o]: manager_brief_ready rows of person o for period p
  edits,     \* edits so far
  faults     \* faults so far

briefVars == <<period, due, settings, scan, briefs, notices, edits, faults>>

Periods == 1..MaxPeriods
People == Owners \union Members
Audiences == {"owners", "team"}

Recipients(audience) == IF audience = "team" THEN People ELSE Owners

IdleScan == [at |-> "idle", period |-> NoPeriod, audience |-> "owners", last |-> NoPeriod]

BriefInit ==
  /\ period = 1
  /\ due = FALSE
  /\ settings \in [enabled : {TRUE}, audience : Audiences, last : {NoPeriod},
                   claimedBy : {NoClaim}, stale : {FALSE}]
  /\ scan = [w \in Workers |-> IdleScan]
  /\ briefs = {}
  /\ notices = [p \in Periods |-> [o \in People |-> 0]]
  /\ edits = 0
  /\ faults = 0

----------------------------------------------------------------------------
(* The scan.  Everything it uses of the row, and its clock, is read once.   *)

\* The scan reads the enabled rows; a slot that is not due is skipped.
ScanRead(w) ==
  /\ scan[w].at = "idle"
  /\ settings.enabled /\ due
  /\ scan' = [scan EXCEPT ![w] = [at |-> "claim", period |-> period,
                audience |-> settings.audience, last |-> settings.last]]
  /\ UNCHANGED <<period, due, settings, briefs, notices, edits, faults>>

Claimable_FreshOnly(p) == settings.enabled /\ settings.last # p
\* The period is unclaimed, or its claim is older than thirty minutes.
Claimable(p) ==
  /\ settings.enabled
  /\ \/ settings.last # p
     \/ settings.claimedBy # NoClaim /\ settings.stale

\* claimAt is the time the scan began: a long scan may write an old claim.
Claim(w) ==
  /\ scan[w].at = "claim" /\ Claimable(scan[w].period)
  /\ \E old \in BOOLEAN :
       /\ old => faults < MaxFaults
       /\ faults' = faults + (IF old THEN 1 ELSE 0)
       /\ settings' = [settings EXCEPT !.last = scan[w].period, !.claimedBy = w, !.stale = old]
  /\ scan' = [scan EXCEPT ![w].at = "generate"]
  /\ UNCHANGED <<period, due, briefs, notices, edits>>

ClaimRefused(w) ==
  /\ scan[w].at = "claim" /\ ~Claimable(scan[w].period)
  /\ scan' = [scan EXCEPT ![w] = IdleScan]
  /\ UNCHANGED <<period, due, settings, briefs, notices, edits, faults>>

\* What the finalising update asks of the row.
HoldsClaim(w) ==
  /\ settings.enabled
  /\ settings.last = scan[w].period
  /\ settings.claimedBy = w

KeyFree_Always(p) == TRUE
\* scheduleKey is unique over the runs of an artist.
KeyFree(p) == p \notin briefs

\* The transaction: claim closed, run created, one notice per recipient.
\* Its answer may be lost after the commit.
CommitRun(w) ==
  LET p == scan[w].period IN
  /\ scan[w].at = "generate" /\ HoldsClaim(w) /\ KeyFree(p)
  /\ settings' = [settings EXCEPT !.claimedBy = NoClaim, !.stale = FALSE]
  /\ briefs' = briefs \union {p}
  /\ notices' = [notices EXCEPT ![p] =
       [o \in People |-> @[o] + (IF o \in Recipients(scan[w].audience) THEN 1 ELSE 0)]]
  /\ \/ scan' = [scan EXCEPT ![w] = IdleScan] /\ UNCHANGED faults
     \/ faults < MaxFaults /\ faults' = faults + 1
        /\ scan' = [scan EXCEPT ![w].at = "recover"]
  /\ UNCHANGED <<period, due, edits>>

\* The claim is gone, or a run with this scheduleKey exists: all rolls back.
Refused(w) ==
  /\ scan[w].at = "generate" /\ ~(HoldsClaim(w) /\ KeyFree(scan[w].period))
  /\ scan' = [scan EXCEPT ![w].at = "recover"]
  /\ UNCHANGED <<period, due, settings, briefs, notices, edits, faults>>

GenerationFails(w) ==
  /\ scan[w].at = "generate"
  /\ faults < MaxFaults /\ faults' = faults + 1
  /\ scan' = [scan EXCEPT ![w].at = "recover"]
  /\ UNCHANGED <<period, due, settings, briefs, notices, edits>>

\* The catch block: a run that exists after all closes the claim.
RecoverExisting(w) ==
  LET p == scan[w].period IN
  /\ scan[w].at = "recover" /\ p \in briefs
  /\ settings' = IF settings.last = p
                 THEN [settings EXCEPT !.claimedBy = NoClaim, !.stale = FALSE] ELSE settings
  /\ scan' = [scan EXCEPT ![w] = IdleScan]
  /\ UNCHANGED <<period, due, briefs, notices, edits, faults>>

\* Otherwise a claim that is still this scan's own is given back.
RecoverRestore(w) ==
  LET p == scan[w].period IN
  /\ scan[w].at = "recover" /\ p \notin briefs
  /\ settings' = IF settings.last = p /\ settings.claimedBy = w
                 THEN [settings EXCEPT !.last = IF scan[w].last = p THEN NoPeriod ELSE scan[w].last,
                         !.claimedBy = NoClaim, !.stale = FALSE]
                 ELSE settings
  /\ scan' = [scan EXCEPT ![w] = IdleScan]
  /\ UNCHANGED <<period, due, briefs, notices, edits, faults>>

\* The process dies; a claim it wrote stays behind.
ScanDies(w) ==
  /\ scan[w].at # "idle"
  /\ faults < MaxFaults /\ faults' = faults + 1
  /\ scan' = [scan EXCEPT ![w] = IdleScan]
  /\ UNCHANGED <<period, due, settings, briefs, notices, edits>>

----------------------------------------------------------------------------
(* The owner and the clock.                                                 *)

\* A change of the schedule forgets the period and the claim.
EditSettings ==
  /\ edits < MaxEdits /\ edits' = edits + 1
  /\ \E enabled \in BOOLEAN, audience \in Audiences :
       /\ <<enabled, audience>> # <<settings.enabled, settings.audience>>
       /\ settings' = [enabled |-> enabled, audience |-> audience, last |-> NoPeriod,
                       claimedBy |-> NoClaim, stale |-> FALSE]
  /\ UNCHANGED <<period, due, scan, briefs, notices, faults>>

HourArrives ==
  /\ ~due /\ due' = TRUE
  /\ UNCHANGED <<period, settings, scan, briefs, notices, edits, faults>>

PeriodPasses ==
  /\ period < MaxPeriods
  /\ period' = period + 1
  /\ due' = FALSE
  /\ UNCHANGED <<settings, scan, briefs, notices, edits, faults>>

\* Nobody works any more under the claim the row holds.
Abandoned ==
  /\ settings.claimedBy # NoClaim
  /\ LET own == scan[settings.claimedBy]
     IN ~(own.at \in {"generate", "recover"} /\ own.period = settings.last)

\* Thirty minutes are over: always for an abandoned claim in the end, now and
\* then for a generation that takes so long.
ClaimAges ==
  /\ settings.claimedBy # NoClaim /\ ~settings.stale
  /\ settings' = [settings EXCEPT !.stale = TRUE]
  /\ \/ Abandoned /\ UNCHANGED faults
     \/ ~Abandoned /\ faults < MaxFaults /\ faults' = faults + 1
  /\ UNCHANGED <<period, due, scan, briefs, notices, edits>>

ScanSteps(w) ==
  \/ Claim(w) \/ ClaimRefused(w)
  \/ CommitRun(w) \/ Refused(w)
  \/ RecoverExisting(w) \/ RecoverRestore(w)

BriefNext ==
  \/ \E w \in Workers : ScanRead(w) \/ ScanSteps(w) \/ GenerationFails(w) \/ ScanDies(w)
  \/ EditSettings \/ HourArrives \/ PeriodPasses \/ ClaimAges

\* The repeatable job comes back every quarter of an hour, each statement ends,
\* and the clock goes on.
BriefFairness ==
  /\ \A w \in Workers : WF_briefVars(ScanRead(w)) /\ WF_briefVars(ScanSteps(w))
  /\ WF_briefVars(ClaimAges)
  /\ WF_briefVars(HourArrives)

BriefSpec == BriefInit /\ [][BriefNext]_briefVars
BriefFairSpec == BriefSpec /\ BriefFairness

----------------------------------------------------------------------------
(* Properties.                                                              *)

BriefTypeOK ==
  /\ period \in Periods /\ due \in BOOLEAN
  /\ settings \in [enabled : BOOLEAN, audience : Audiences, last : Periods \union {NoPeriod},
                   claimedBy : Workers \union {NoClaim}, stale : BOOLEAN]
  /\ scan \in [Workers -> [at : {"idle", "claim", "generate", "recover"},
                 period : Periods \union {NoPeriod}, audience : Audiences,
                 last : Periods \union {NoPeriod}]]
  /\ briefs \subseteq Periods
  /\ notices \in [Periods -> [People -> Nat]]
  /\ edits \in 0..MaxEdits /\ faults \in 0..MaxFaults

\* However workers overlap, die or lose answers, and whatever the owner edits,
\* a period has one brief: everybody told of it is told once, all owners are
\* told, and nobody is told of a brief that does not exist
\* (runScheduledBriefScan and the transaction of generateBrief).
BriefedOnce ==
  \A p \in Periods :
    IF p \in briefs
    THEN /\ \A o \in People : notices[p][o] <= 1
         /\ \A o \in Owners : notices[p][o] = 1
    ELSE \A o \in People : notices[p][o] = 0

\* A period that is due while the schedule is on gets its brief, unless it
\* passes first or the owner turns the schedule off: no dead worker, failed
\* generation or edit leaves a claim that blocks it for good.
DueIsBriefed ==
  \A p \in Periods :
    (period = p /\ due /\ settings.enabled)
      ~> (p \in briefs \/ period # p \/ ~settings.enabled)
=============================================================================
