------------------------------ MODULE ReportJobs ------------------------------
(***************************************************************************)
(* The daily AI reports: a run goes over the areas, skips those that have  *)
(* a report for the day or are having one written, and writes the others   *)
(* one after the other, each between two commits.  The scheduler notes the *)
(* day and calls, until a call that it made on the day is answered; the    *)
(* server reads its own clock when the call arrives.  An answer may come   *)
(* too late, an administrator may ask for another run, and a call may be   *)
(* lost and a run cut off anywhere.                                        *)
(***************************************************************************)
EXTENDS Naturals, FiniteSets, FiniteSetsExt

CONSTANTS
  RepAreas,    \* targets, by id
  RepRuns,     \* requests
  NoReportRun,
  RepMaxDay,   \* bound: days
  RepMaxUpsets \* bound: calls lost, runs cut off and reports that fail

ASSUME ReportConstants ==
  /\ RepAreas \subseteq Nat /\ IsFiniteSet(RepRuns) /\ RepRuns # {} /\ NoReportRun \notin RepRuns
  /\ RepMaxDay \in Nat \ {0} /\ RepMaxUpsets \in Nat

VARIABLES
  repDay,       \* today; a run writes the reports of the day before
  repRows,      \* of each day and area: rows live, one completed, one failed
  repRun,       \* requests
  repSched,     \* the scheduler: enabled, last_run_day, the request it awaits and its today_key
  repRaced,     \* history: a run looked while another had looked and not inserted yet
  repCrossed,   \* history: a day was done by a run that began on a later one
  repStopped,   \* history: a call was lost or a run cut off
  repUpsets     \* bound: calls lost, runs cut off and reports failed so far

repVars == <<repDay, repRows, repRun, repSched, repRaced, repCrossed, repStopped, repUpsets>>

Days == 1..RepMaxDay
RepMaxRows == Cardinality(RepRuns)   \* bound: live reports of a day and area
NoRows == [live |-> 0, completed |-> FALSE, failed |-> FALSE]
Written == [live |-> 1, completed |-> TRUE, failed |-> FALSE]
Idle == [at |-> "idle", day |-> 1, left |-> {}, area |-> {}]
Called == [Idle EXCEPT !.at = "called"]

ReportsTypeOK ==
  /\ repDay \in Days
  /\ repRows \in [Days -> [RepAreas -> [live : 0..RepMaxRows, completed : BOOLEAN, failed : BOOLEAN]]]
  /\ repRun \in [RepRuns -> [at : {"idle", "called", "look", "insert", "write"}, day : Days,
                             left : SUBSET RepAreas, area : SUBSET RepAreas]]
  /\ repSched \in [enabled : BOOLEAN, last : 0..RepMaxDay, key : Days,
                   awaits : RepRuns \cup {NoReportRun}]
  /\ repRaced \in BOOLEAN /\ repCrossed \in BOOLEAN /\ repStopped \in BOOLEAN
  /\ repUpsets \in 0..RepMaxUpsets

\* Some reports may have been asked for before, by their range.
ReportsInit ==
  /\ repDay = 1 /\ repRows \in [Days -> [RepAreas -> {NoRows, Written}]]
  /\ repRun = [r \in RepRuns |-> Idle]
  /\ repSched = [enabled |-> FALSE, last |-> 0, key |-> 1, awaits |-> NoReportRun]
  /\ repRaced = FALSE /\ repCrossed = FALSE /\ repStopped = FALSE /\ repUpsets = 0

Midnight ==
  /\ repDay < RepMaxDay
  /\ repDay' = repDay + 1
  /\ UNCHANGED <<repRows, repRun, repSched, repRaced, repCrossed, repStopped, repUpsets>>

SchedulerStarts ==
  /\ ~ repSched.enabled
  /\ repSched' = [repSched EXCEPT !.enabled = TRUE]
  /\ UNCHANGED <<repDay, repRows, repRun, repRaced, repCrossed, repStopped, repUpsets>>

\* No call is awaited; today_key is the call's.
Unawaited(sched) == [sched EXCEPT !.awaits = NoReportRun, !.key = 1]

\* last_run_day is a variable of the process: a restart forgets it, and the call in flight.
SchedulerRestarts ==
  /\ repSched.enabled
  /\ repSched' = [Unawaited(repSched) EXCEPT !.last = 0]
  /\ UNCHANGED <<repDay, repRows, repRun, repRaced, repCrossed, repStopped, repUpsets>>

should_run_now ==
  repSched.enabled /\ repSched.awaits = NoReportRun /\ repSched.last # repDay

\* Mutant: the day is marked before the call instead of after its answer.
ScheduledRunMarked(r) ==
  /\ should_run_now /\ repRun[r].at = "idle"
  /\ repRun' = [repRun EXCEPT ![r] = Called]
  /\ repSched' = [repSched EXCEPT !.awaits = r, !.key = repDay, !.last = repDay]
  /\ UNCHANGED <<repDay, repRows, repRaced, repCrossed, repStopped, repUpsets>>

\* The scheduler notes the day (today_key) and calls; to sign in or to renew its token
\* may take a while.
ScheduledRun(r) ==
  /\ should_run_now /\ repRun[r].at = "idle"
  /\ repRun' = [repRun EXCEPT ![r] = Called]
  /\ repSched' = [repSched EXCEPT !.awaits = r, !.key = repDay]
  /\ UNCHANGED <<repDay, repRows, repRaced, repCrossed, repStopped, repUpsets>>

\* The server takes the range from its own clock.
Started(r) ==
  /\ repRun' = [repRun EXCEPT ![r] =
                  [at |-> "look", day |-> repDay, left |-> RepAreas, area |-> {}]]
  /\ UNCHANGED <<repDay, repRows, repSched, repRaced, repCrossed, repStopped, repUpsets>>

RunArrives(r) == repRun[r].at = "called" /\ Started(r)

\* An administrator's, without force.
ManualRun(r) == repRun[r].at = "idle" /\ Started(r)

\* The answer does not come within the timeout of the client, or is an error.
RunGivenUp ==
  /\ repSched.awaits # NoReportRun
  /\ repSched' = Unawaited(repSched)
  /\ UNCHANGED <<repDay, repRows, repRun, repRaced, repCrossed, repStopped, repUpsets>>

\* Mutant: only completed reports count.
ReportCompleted(day, a) == repRows[day][a].completed
ReportExistsForRange(day, a) == repRows[day][a].live > 0

\* On to the first area without a report.
Look(r) ==
  LET run == repRun[r]
      missing == {a \in run.left : ~ ReportExistsForRange(run.day, a)}
      races == \E s \in RepRuns : repRun[s].at = "insert" /\ repRun[s].day = run.day
  IN /\ run.at = "look" /\ missing # {}
     /\ repRun' = [repRun EXCEPT ![r].at = "insert", ![r].area = {Min(missing)},
                                 ![r].left = {a \in run.left : a > Min(missing)}]
     /\ repRaced' = (repRaced \/ races)
     /\ UNCHANGED <<repDay, repRows, repSched, repCrossed, repStopped, repUpsets>>

\* Mutant: the row is not committed before its content is written.
InsertUncommitted(r) ==
  /\ repRun[r].at = "insert"
  /\ repRun' = [repRun EXCEPT ![r].at = "write"]
  /\ UNCHANGED <<repDay, repRows, repSched, repRaced, repCrossed, repStopped, repUpsets>>

RowBegun(row) == [row EXCEPT !.live = @ + 1]

Insert(r) ==
  LET run == repRun[r]
  IN /\ run.at = "insert" /\ \A a \in run.area : repRows[run.day][a].live < RepMaxRows
     /\ repRows' =
          [repRows EXCEPT ![run.day] =
             [a \in RepAreas |-> IF a \in run.area THEN RowBegun(@[a]) ELSE @[a]]]
     /\ repRun' = [repRun EXCEPT ![r].at = "write"]
     /\ UNCHANGED <<repDay, repSched, repRaced, repCrossed, repStopped, repUpsets>>

\* A report that fails is no longer live: the next run writes another.
RowEnded(row, ok) ==
  IF ok THEN [row EXCEPT !.completed = TRUE] ELSE [row EXCEPT !.live = @ - 1, !.failed = TRUE]

Write(r, ok) ==
  LET run == repRun[r]
  IN /\ run.at = "write" /\ (ok \/ repUpsets < RepMaxUpsets)
     /\ repRows' = [repRows EXCEPT ![run.day] =
                      [a \in RepAreas |-> IF a \in run.area THEN RowEnded(@[a], ok) ELSE @[a]]]
     /\ repRun' = [repRun EXCEPT ![r].at = "look", ![r].area = {}]
     /\ repUpsets' = IF ok THEN repUpsets ELSE repUpsets + 1
     /\ UNCHANGED <<repDay, repSched, repRaced, repCrossed, repStopped>>

\* When the call is answered the day on which it was made is done, whether or not its
\* reports failed, and whatever day the run was of.
RunAnswered(r) ==
  LET run == repRun[r]
      awaited == repSched.awaits = r
  IN /\ run.at = "look" /\ \A a \in run.left : ReportExistsForRange(run.day, a)
     /\ repRun' = [repRun EXCEPT ![r] = Idle]
     /\ repSched' = IF awaited THEN [Unawaited(repSched) EXCEPT !.last = repSched.key]
                    ELSE repSched
     /\ repCrossed' = (repCrossed \/ (awaited /\ run.day # repSched.key))
     /\ UNCHANGED <<repDay, repRows, repRaced, repStopped, repUpsets>>

\* A call is lost on its way, or a run cut off: a row being written stays as it is.
RunStopped(r) ==
  /\ repRun[r].at # "idle" /\ repUpsets < RepMaxUpsets
  /\ repRun' = [repRun EXCEPT ![r] = Idle]
  /\ repSched' = IF repSched.awaits = r THEN Unawaited(repSched) ELSE repSched
  /\ repStopped' = TRUE /\ repUpsets' = repUpsets + 1
  /\ UNCHANGED <<repDay, repRows, repRaced, repCrossed>>

ReportsNext ==
  \/ SchedulerStarts \/ SchedulerRestarts \/ Midnight \/ RunGivenUp
  \/ \E r \in RepRuns :
       \/ ScheduledRun(r) \/ RunArrives(r) \/ ManualRun(r) \/ Look(r) \/ Insert(r)
       \/ \E ok \in BOOLEAN : Write(r, ok)
       \/ RunAnswered(r) \/ RunStopped(r)

RunMoves(r) ==
  RunArrives(r) \/ Look(r) \/ Insert(r) \/ RunAnswered(r) \/ \E ok \in BOOLEAN : Write(r, ok)

ReportsFairness ==
  /\ WF_repVars(\E r \in RepRuns : ScheduledRun(r))
  /\ \A r \in RepRuns : WF_repVars(RunMoves(r))

ReportsSpec == ReportsInit /\ [][ReportsNext]_repVars /\ ReportsFairness

Writers(day, a) ==
  {r \in RepRuns : repRun[r].at = "write" /\ repRun[r].day = day /\ a \in repRun[r].area}

\* An area's report of a day was begun; and if no run was cut off it is written, has
\* failed or is being written.
Handled(day, a) ==
  LET row == repRows[day][a]
  IN /\ row.live > 0 \/ row.failed
     /\ ~ repStopped => row.completed \/ row.failed \/ Writers(day, a) # {}

\* The days whose reports last_run_day may stand for: that day's; or, since the range is
\* read when the call arrives, a later one's if a call was under way at midnight.
DoneDays == IF repCrossed THEN repSched.last..repDay ELSE {repSched.last}

\* Unless two runs looked at the same moment, an area has one report of a day at most; and
\* the scheduler takes a day for done only when every area's report is handled: of that
\* very day unless a call crossed midnight, which leaves the day without reports.
OneReportEachWhenDone ==
  /\ ~ repRaced => \A d \in Days, a \in RepAreas : repRows[d][a].live <= 1
  /\ repSched.last # 0 => \E day \in DoneDays : \A a \in RepAreas : Handled(day, a)

\* However runs are given up, repeated, overlap or cross midnight, and wherever they stop
\* or the scheduler restarts, an area ends with one report of a day at most, unless two
\* runs looked for it at the same moment; and once the scheduler runs, each area's report
\* of the last day is written or has failed, or was at least begun if a run was cut off:
\* the retry misses no other area.
OneReportPerDay ==
  \A a \in RepAreas :
    <>[](repRaced \/ /\ \A d \in Days : repRows[d][a].live <= 1
                     /\ LET row == repRows[repDay][a]
                        IN \/ ~ repSched.enabled \/ row.failed
                           \/ IF repStopped THEN row.live > 0 ELSE row.completed)

=============================================================================
