------------------------------ MODULE MCPlatform ------------------------------
(***************************************************************************)
(* The session and the live pages of the frontend, and the scheduled jobs  *)
(* of the backend, for model checking.  These components share no state    *)
(* with each other, so that one instance checks them side by side: focus,  *)
(* which never changes, is the one that moves, and the others stay as they *)
(* begin.                                                                  *)
(***************************************************************************)
EXTENDS WebSession, EquipmentWizard, PageQueries, InactivityScan, NotificationDispatch, ReportJobs

VARIABLE focus

WebRest == <<wizVars, qryVars, inaVars, disVars, repVars>>
WizRest == <<webVars, qryVars, inaVars, disVars, repVars>>
QryRest == <<webVars, wizVars, inaVars, disVars, repVars>>
InaRest == <<webVars, wizVars, qryVars, disVars, repVars>>
DisRest == <<webVars, wizVars, qryVars, inaVars, repVars>>
RepRest == <<webVars, wizVars, qryVars, inaVars, disVars>>

platformVars == <<webVars, wizVars, qryVars, inaVars, disVars, repVars, focus>>

\* Bound: the reports that nobody has asked for before: those of one day.
OpenReports == IF focus = "reports" THEN {{d} \X RepAreas : d \in Days} ELSE {{}}

PlatformInit ==
  /\ focus \in {"web", "wizard", "queries", "inactivity", "dispatch", "reports"}
  /\ WebInit /\ WizardInit /\ QueriesInit /\ ScanInit /\ DispatchInit /\ ReportsInit
  /\ \E open \in OpenReports : \A d \in Days, a \in RepAreas :
       repRows[d][a] = IF <<d, a>> \in open THEN NoRows ELSE Written

PlatformNext ==
  /\ UNCHANGED focus
  /\ \/ focus = "web" /\ WebNext /\ UNCHANGED WebRest
     \/ focus = "wizard" /\ WizardNext /\ UNCHANGED WizRest
     \/ focus = "queries" /\ QueriesNext /\ UNCHANGED QryRest
     \/ focus = "inactivity" /\ ScanNext /\ UNCHANGED InaRest
     \/ focus = "dispatch" /\ DispatchNext /\ UNCHANGED DisRest
     \/ focus = "reports" /\ ReportsNext /\ UNCHANGED RepRest

\* The variables of the component that moves.
FocusVars ==
  CASE focus = "web" -> webVars
    [] focus = "wizard" -> wizVars
    [] focus = "queries" -> qryVars
    [] focus = "inactivity" -> inaVars
    [] focus = "dispatch" -> disVars
    [] focus = "reports" -> repVars

\* Two calls, or runs, have each their turn.
First(S) == {CHOOSE x \in S : TRUE}
Turn(S, i) == CASE i = 1 -> First(S) [] i = 2 -> S \ First(S) [] i = 3 -> {}

\* The fairness that each component states for itself.  Since focus never changes,
\* fairness of these disjunctions is that of each of their disjuncts; and with two
\* formulas of strong fairness TLC splits the graph into four cases, with ten into a
\* thousand.
WeakTurn(i) ==
  /\ UNCHANGED focus
  /\ \/ focus = "web" /\ \E c \in Turn(WebCalls, i) : Answered(c)
     \/ focus = "wizard" /\ \E c \in Turn(WizCalls, i) : WizardAnswered(c)
     \/ focus = "reports" /\ \E r \in Turn(RepRuns, i) : RunMoves(r)
     \/ /\ i = 1
        /\ \/ focus = "queries" /\ SomeAnswered
           \/ focus = "inactivity" /\ Tick
           \/ focus = "dispatch" /\ \E r \in DisRuns : BeginDispatch(r)
     \/ /\ i = 2
        /\ \/ focus = "queries" /\ FormerAnswered
           \/ focus = "inactivity" /\ ScheduledScan
           \/ focus = "dispatch" /\ \E r \in DisRuns, delivered \in SUBSET DisChannels :
                                      TryAlert(r, delivered)
     \/ /\ i = 3
        /\ \/ focus = "dispatch" /\ \E r \in DisRuns : CommitMarks(r)
           \/ focus = "reports" /\ \E r \in RepRuns : ScheduledRun(r)

StrongTurn(i) ==
  /\ UNCHANGED focus
  /\ \/ /\ i = 1
        /\ \/ focus = "wizard" /\ \E c \in WizCalls : RefreshTimer(c)
           \/ focus = "queries" /\ Poll
           \/ focus = "inactivity" /\ ScheduledScanEnds
           \/ focus = "dispatch" /\ \E r \in DisRuns : Delivers(r)
     \/ /\ i = 2
        /\ \/ focus = "wizard" /\ \E c \in WizCalls : refreshGateway(c)
           \/ focus = "queries" /\ CurrentServed

PlatformFairness ==
  /\ \A i \in 1..3 : WF_FocusVars(WeakTurn(i))
  /\ \A i \in 1..2 : SF_FocusVars(StrongTurn(i))

PlatformSpec == PlatformInit /\ [][PlatformNext]_platformVars /\ PlatformFairness

\* The state of every component keeps its types.
PlatformTypeOK ==
  WebTypeOK /\ WizardTypeOK /\ QueriesTypeOK /\ ScanTypeOK /\ DispatchTypeOK /\ ReportsTypeOK

\* What each component never does, whatever overlaps, fails or is lost: the safety that
\* its liveness properties rest on (the wizard, the read pages, and the three jobs).
PlatformSafe ==
  WizardHasLink /\ FormerDataIsAwaited
  /\ OneAlertAtMost /\ SendsOnceWithinLimit /\ OneReportEachWhenDone

=============================================================================
