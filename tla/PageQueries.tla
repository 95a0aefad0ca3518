----------------------------- MODULE PageQueries -----------------------------
(***************************************************************************)
(* The pages and hooks of the frontend that show what one key selects: the *)
(* id of an address, filters and a page number, the selected area.  A page *)
(* asks again when its key changes, some when a timer fires or the user    *)
(* refreshes, and some store or mark something.  Answers come back in any  *)
(* order, or in the order of the questions when the network keeps it.      *)
(*                                                                         *)
(* A page is described by what each moment does to its state, by what then *)
(* is on the screen, and by how it treats its questions in flight.  The    *)
(* data of a key are the key itself: what may go wrong is that the page    *)
(* shows another key's.                                                    *)
(***************************************************************************)
EXTENDS Naturals, SequencesExt

CONSTANTS
  QryKeys,      \* keys
  NoData,
  QryMaxCalls   \* bound: questions in flight

Notice == "notice"   \* on the screen: that something failed or is missing

ASSUME QueryConstants ==
  QryKeys # {} /\ NoData \notin QryKeys /\ Notice \notin QryKeys /\ QryMaxCalls \in Nat \ {0}

VARIABLES
  qryPage,   \* the page, how its user acts and whether the network keeps the order
  qryKey,    \* its key
  qryView,   \* its state: what it shows, loading, and an error
  qryCalls   \* questions in flight, in the order in which they were asked

qryVars == <<qryPage, qryKey, qryView, qryCalls>>

QryPages == {"nodeDetail", "gatewayDetail", "auditLogs", "aiUsage", "alertDetail",
             "aiReportDetail", "aiReports", "alertsCenter", "alertsPopover", "history",
             "clientDashboard", "areaDetails", "adminStats", "adminPending",
             "propertyDetail", "properties", "clientMap", "adminMap", "gatewayStatus",
             "dashboardPreferences"}

\* These show everything: their key is the state of the server, which moves by itself.
Keyless == {"alertsPopover", "adminStats", "adminPending", "properties", "clientMap", "adminMap"}

\* "stays": with its first key.  "waits": acts when nothing is in flight.  "reads": as
\* one who waits, and stores nothing.
QryUsers == {"stays", "reads", "waits", "any"}

DataOf == QryKeys \cup {NoData}
QryView == [main : DataOf, rest : DataOf, loading : BOOLEAN, told : BOOLEAN]
Blank == [main |-> NoData, rest |-> NoData, loading |-> TRUE, told |-> FALSE]

\* main: the question of the key; rest: what follows it; write: something to store.
Question(part, k, silent) == [part |-> part, key |-> k, silent |-> silent]
Questions == [part : {"main", "rest", "write"}, key : QryKeys, silent : BOOLEAN]

QueriesTypeOK ==
  /\ qryPage \in [name : QryPages \cup {"none"}, user : QryUsers, ordered : BOOLEAN]
  /\ qryKey \in QryKeys /\ qryView \in QryView
  /\ qryCalls \in BoundedSeq(Questions, QryMaxCalls)

QueriesInit ==
  /\ qryPage = [name |-> "none", user |-> "stays", ordered |-> FALSE]
  /\ qryKey = CHOOSE k \in QryKeys : TRUE
  /\ qryView = Blank /\ qryCalls = <<>>

-----------------------------------------------------------------------------
(* Moments of a page *)

Loads(v) == [v EXCEPT !.loading = TRUE]
Tells(v) == [v EXCEPT !.told = TRUE, !.loading = FALSE]
Calm(v) == [v EXCEPT !.told = FALSE]
Quietly(v) == [v EXCEPT !.loading = FALSE]
Shows(v, k) == [v EXCEPT !.main = k, !.loading = FALSE]

\* The usual page: it clears its error when it asks, and keeps what it has until the
\* answer.  drops: the answers to former questions are ignored.  guards: why a question
\* is not asked while another is in flight.  then: what follows the first answer.
Usual(v, k) ==
  [change |-> {v}, begin |-> Calm(Loads(v)), done |-> Shows(v, k), fail |-> Tells(v),
   then |-> {"nothing"}, restDone |-> v, restFail |-> v,
   writeBegin |-> v, writeDone |-> v, writeFail |-> v,
   drops |-> FALSE, guards |-> {}, polls |-> FALSE, writes |-> "nothing"]

Always == {"key", "poll", "user"}

\* A node has an area or not: without one nothing follows, and what was shown of the
\* former node's area stays.  So it does when those requests fail.
NodeDetailQuery(v, k) ==
  [Usual(v, k) EXCEPT !.done = [v EXCEPT !.main = k], !.then = {"nothing", "rest"}, !.restFail = Quietly(v),
                      !.restDone = [Quietly(v) EXCEPT !.rest = k]]
NodeDetailEdit(v, k) ==
  [NodeDetailQuery(v, k) EXCEPT !.writes = "stores", !.writeBegin = Calm(v),
                                !.writeDone = [v EXCEPT !.main = k],
                                !.writeFail = [v EXCEPT !.told = TRUE]]

GatewayDetailQuery(v, k) ==
  [Usual(v, k) EXCEPT !.begin = Loads(v), !.done = [Calm(v) EXCEPT !.main = k],
                      !.then = {"rest"}, !.restFail = Tells(v),
                      !.restDone = [Quietly(v) EXCEPT !.rest = k]]
\* Publishing and revoking load again what the address named when they were pressed.
GatewayDetailPublish(v, k) ==
  [GatewayDetailQuery(v, k) EXCEPT !.writes = "reloads", !.writeFail = [v EXCEPT !.told = TRUE]]

AuditLogsQuery(v, k) == Usual(v, k)
AuditLogsDetail(v, k) ==
  [AuditLogsQuery(v, k) EXCEPT !.writes = "opens", !.writeBegin = Calm(v),
                               !.writeFail = [v EXCEPT !.told = TRUE]]

AIUsageQuery(v, k) == Usual(v, k)

\* An alert brings its recommendation, or that is asked for.
AlertDetailQuery(v, k) ==
  [Usual(v, k) EXCEPT !.done = [Shows(v, k) EXCEPT !.rest = NoData],
                      !.then = {"own", "rest"}, !.restDone = [v EXCEPT !.rest = k]]
AlertDetailMark(v, k) ==
  [AlertDetailQuery(v, k) EXCEPT !.writes = "asks", !.writeBegin = Calm(v),
                                 !.writeDone = [v EXCEPT !.main = k, !.rest = NoData],
                                 !.writeFail = [v EXCEPT !.told = TRUE]]

AIReportDetailQuery(v, k) == Usual(v, k)

\* It loads visibly only when it has nothing; a change of filters empties it at once, one
\* of the page number does not.  It asks again when the number of rows changed.
AIReportsQuery(v, k) ==
  [Usual(v, k) EXCEPT !.change = {v, [v EXCEPT !.main = NoData]},
                      !.begin = IF v.main = NoData THEN Calm(Loads(v)) ELSE Calm(v),
                      !.then = IF v.main = k THEN {"nothing"} ELSE {"nothing", "again"},
                      !.guards = Always]

\* The timer's questions say nothing, neither at the start nor when they fail.
AlertsCenterQuery(v, k, silent) ==
  [Usual(v, k) EXCEPT !.begin = IF silent THEN v ELSE Calm(Loads(v)),
                      !.done = IF silent THEN [v EXCEPT !.main = k] ELSE Shows(v, k),
                      !.fail = IF silent THEN v ELSE Tells(v),
                      !.guards = Always, !.polls = TRUE]
AlertsCenterMark(v, k, silent) ==
  [AlertsCenterQuery(v, k, silent) EXCEPT !.writes = "reloads", !.writeBegin = Calm(v),
                                          !.writeFail = [v EXCEPT !.told = TRUE]]

AlertsPopoverQuery(v, k) ==
  [Usual(v, k) EXCEPT !.begin = IF v.main = NoData THEN Calm(Loads(v)) ELSE Calm(v),
                      !.guards = Always, !.polls = TRUE]
AlertsPopoverMark(v, k) ==
  [AlertsPopoverQuery(v, k) EXCEPT !.writes = "reloads", !.writeBegin = Calm(v),
                                   !.writeFail = [v EXCEPT !.told = TRUE]]

\* Answers carry the key they are for: while the current one's is missing the page
\* loads, and shows the former rows unless the area is another; an error has no rows.
HistoryQuery(v, k) ==
  [Usual(v, k) EXCEPT !.change = {v, Blank}, !.fail = [Tells(v) EXCEPT !.main = NoData], !.drops = TRUE]

\* So do the dashboard's, which shows nothing meanwhile.
ClientDashboardQuery(v, k, silent) ==
  [Usual(v, k) EXCEPT !.change = {Blank}, !.begin = v, !.done = Calm(Shows(v, k)),
                      !.fail = [Tells(v) EXCEPT !.main = NoData],
                      !.drops = TRUE, !.guards = {"poll"}, !.polls = TRUE]

AreaDetailsQuery(v, k) ==
  [Usual(v, k) EXCEPT !.begin = Blank, !.drops = TRUE]

\* The totals of the administrator's page: every three seconds, whatever is in flight.
AdminStatsQuery(v, k, silent) ==
  [Usual(v, k) EXCEPT !.begin = IF silent THEN v ELSE Loads(v),
                      !.done = IF silent THEN [v EXCEPT !.main = k] ELSE Shows(v, k),
                      !.fail = IF silent THEN v ELSE Quietly(v), !.polls = TRUE]

AdminPendingQuery(v, k) ==
  [Usual(v, k) EXCEPT !.begin = v, !.done = Calm(Shows(v, k)), !.guards = Always, !.polls = TRUE]

AreaOverviewQuery(v, k) ==
  [Usual(v, k) EXCEPT !.begin = v, !.done = Calm(Shows(v, k)), !.guards = Always, !.polls = TRUE]

\* Numbered: only the last question is heard.
GeoNodesQuery(v, k) == [Usual(v, k) EXCEPT !.drops = TRUE, !.polls = TRUE]

GatewayStatusQuery(v, k) ==
  [Usual(v, k) EXCEPT !.begin = v, !.fail = [Quietly(v) EXCEPT !.main = NoData], !.drops = TRUE]

DashboardPreferencesQuery(v, k) == [Usual(v, k) EXCEPT !.begin = Loads(v), !.drops = TRUE]
DashboardPreferencesSave(v, k) ==
  [DashboardPreferencesQuery(v, k) EXCEPT !.writes = "saves", !.writeDone = [v EXCEPT !.main = k],
                                          !.writeFail = [v EXCEPT !.told = TRUE]]

Query(v, k, silent) ==
  CASE qryPage.name = "nodeDetail" -> NodeDetailEdit(v, k)
    [] qryPage.name = "gatewayDetail" -> GatewayDetailPublish(v, k)
    [] qryPage.name = "auditLogs" -> AuditLogsDetail(v, k)
    [] qryPage.name = "aiUsage" -> AIUsageQuery(v, k)
    [] qryPage.name = "alertDetail" -> AlertDetailMark(v, k)
    [] qryPage.name = "aiReportDetail" -> AIReportDetailQuery(v, k)
    [] qryPage.name = "aiReports" -> AIReportsQuery(v, k)
    [] qryPage.name = "alertsCenter" -> AlertsCenterMark(v, k, silent)
    [] qryPage.name = "alertsPopover" -> AlertsPopoverMark(v, k)
    [] qryPage.name = "history" -> HistoryQuery(v, k)
    [] qryPage.name = "clientDashboard" -> ClientDashboardQuery(v, k, silent)
    [] qryPage.name = "areaDetails" -> AreaDetailsQuery(v, k)
    [] qryPage.name = "adminStats" -> AdminStatsQuery(v, k, silent)
    [] qryPage.name = "adminPending" -> AdminPendingQuery(v, k)
    [] qryPage.name \in {"propertyDetail", "properties"} -> AreaOverviewQuery(v, k)
    [] qryPage.name \in {"clientMap", "adminMap"} -> GeoNodesQuery(v, k)
    [] qryPage.name = "gatewayStatus" -> GatewayStatusQuery(v, k)
    [] qryPage.name = "dashboardPreferences" -> DashboardPreferencesSave(v, k)

-----------------------------------------------------------------------------
(* What is on the screen: data of keys, and notices *)

Data(v) == {v.main} \ {NoData}
NoticeOf(v) == IF v.told THEN {Notice} ELSE {}
ErrorInstead(v) == IF v.told THEN {Notice} ELSE Data(v)

NodeDetailScreen(v) ==
  IF v.loading THEN {} ELSE IF v.told \/ v.main = NoData THEN {Notice} ELSE {v.main}
GatewayDetailScreen(v) ==
  IF v.main # NoData THEN {v.main} \cup NoticeOf(v) ELSE IF v.loading THEN {} ELSE {Notice}
AuditLogsScreen(v) == IF v.loading THEN {} ELSE ErrorInstead(v)
AIUsageScreen(v) == IF v.loading THEN {} ELSE ErrorInstead(v)
AlertDetailScreen(v) == IF v.loading THEN {} ELSE Data(v) \cup NoticeOf(v)
\* The error is shown only when there is no report.
AIReportDetailScreen(v) ==
  IF v.loading THEN {} ELSE IF v.main = NoData THEN NoticeOf(v) ELSE {v.main}
AIReportsScreen(v) == IF v.loading THEN {} ELSE ErrorInstead(v)
AlertsCenterScreen(v) == IF v.loading THEN {} ELSE ErrorInstead(v)
AlertsPopoverScreen(v) == IF v.loading THEN {} ELSE ErrorInstead(v)
HistoryScreen(v) == Data(v) \cup NoticeOf(v)
ClientDashboardScreen(v) == IF v.loading THEN {} ELSE Data(v) \cup NoticeOf(v)
AreaDetailsScreen(v) == ErrorInstead(v)
AdminStatsScreen(v) == IF v.loading THEN {} ELSE Data(v)
AdminPendingScreen(v) == IF v.main = NoData THEN NoticeOf(v) ELSE {v.main}
PropertyDetailScreen(v) == IF v.loading THEN {} ELSE ErrorInstead(v)
PropertiesScreen(v) == IF v.loading THEN {} ELSE ErrorInstead(v)
ClientMapScreen(v) == Data(v) \cup NoticeOf(v)
AdminMapScreen(v) == Data(v) \cup NoticeOf(v)
GatewayStatusScreen(v) == IF v.main = NoData THEN {Notice} ELSE {v.main}
DashboardPreferencesScreen(v) == IF v.loading THEN {} ELSE Data(v) \cup NoticeOf(v)

Screen ==
  LET v == qryView
  IN [nodeDetail |-> NodeDetailScreen(v), gatewayDetail |-> GatewayDetailScreen(v),
      auditLogs |-> AuditLogsScreen(v), aiUsage |-> AIUsageScreen(v),
      alertDetail |-> AlertDetailScreen(v), aiReportDetail |-> AIReportDetailScreen(v),
      aiReports |-> AIReportsScreen(v), alertsCenter |-> AlertsCenterScreen(v),
      alertsPopover |-> AlertsPopoverScreen(v), history |-> HistoryScreen(v),
      clientDashboard |-> ClientDashboardScreen(v), areaDetails |-> AreaDetailsScreen(v),
      adminStats |-> AdminStatsScreen(v), adminPending |-> AdminPendingScreen(v),
      propertyDetail |-> PropertyDetailScreen(v), properties |-> PropertiesScreen(v),
      clientMap |-> ClientMapScreen(v), adminMap |-> AdminMapScreen(v),
      gatewayStatus |-> GatewayStatusScreen(v),
      dashboardPreferences |-> DashboardPreferencesScreen(v), none |-> {}][qryPage.name]

-----------------------------------------------------------------------------
(* Actions *)

\* The write in flight, if there is one: no page begins another meanwhile.
Writes(calls) ==
  LET W == {i \in DOMAIN calls : calls[i].part = "write"}
  IN IF W = {} THEN <<>> ELSE <<calls[CHOOSE i \in W : TRUE]>>

\* Mutant: a change of the key leaves the former questions to be heard.
HeardKept(calls) == calls
\* The questions whose answers will be heard when the page asks again.
Heard(calls) ==
  IF Query(qryView, qryKey, FALSE).drops THEN Writes(calls) ELSE calls

Blocked(view, calls, why) ==
  why \in Query(view, qryKey, FALSE).guards /\ \E i \in DOMAIN calls : calls[i].part = "main"

\* The page asks, or lets it be.
AskFor(k, view, calls, why) ==
  IF Blocked(view, calls, why) THEN qryView' = view /\ qryCalls' = calls
  ELSE LET silent == why = "poll"
       IN /\ Len(Heard(calls)) < QryMaxCalls
          /\ qryView' = Query(view, k, silent).begin
          /\ qryCalls' = Append(Heard(calls), Question("main", k, silent))

OpenQueryPage(page, user, ordered, k) ==
  /\ qryPage.name = "none"
  /\ qryPage' = [name |-> page, user |-> user, ordered |-> ordered]
  /\ qryKey' = k
  /\ qryView' = Loads(Blank)
  /\ qryCalls' = <<Question("main", k, FALSE)>>

MayAct == qryPage.user = "any" \/ (qryPage.user \in {"reads", "waits"} /\ qryCalls = <<>>)

ChangeKey(k) ==
  /\ qryPage.name \notin Keyless \cup {"none"} /\ MayAct /\ k # qryKey
  /\ \E view \in Query(qryView, k, FALSE).change : AskFor(k, view, qryCalls, "key")
  /\ qryKey' = k
  /\ UNCHANGED qryPage

\* Of a page without a key: the server moves.
ServerMoved(k) ==
  /\ qryPage.name \in Keyless /\ qryPage.user = "any" /\ k # qryKey
  /\ qryKey' = k
  /\ UNCHANGED <<qryPage, qryView, qryCalls>>

\* "Actualizar" or "Reintentar".
Refresh ==
  /\ qryPage.name \in {"auditLogs", "aiUsage", "alertDetail", "aiReportDetail", "aiReports",
                       "alertsCenter", "history", "clientDashboard", "areaDetails",
                       "clientMap", "adminMap"}
  /\ MayAct
  /\ AskFor(qryKey, qryView, qryCalls, "user")
  /\ UNCHANGED <<qryPage, qryKey>>

Poll ==
  /\ qryPage.name # "none" /\ Query(qryView, qryKey, TRUE).polls
  /\ AskFor(qryKey, qryView, qryCalls, "poll")
  /\ UNCHANGED <<qryPage, qryKey>>

\* Saving, marking, publishing, or opening: some act on what is shown, some on what is
\* asked for.
BeginWrite ==
  /\ qryPage.name # "none" /\ MayAct /\ qryPage.user # "reads"
  /\ Query(qryView, qryKey, FALSE).writes # "nothing"
  /\ Screen \cap QryKeys # {}
  /\ Writes(qryCalls) = <<>> /\ Len(qryCalls) < QryMaxCalls
  /\ qryView' = Query(qryView, qryKey, FALSE).writeBegin
  /\ LET ofShown == Query(qryView, qryKey, FALSE).writes \in {"stores", "asks", "opens"}
     IN qryCalls' = Append(qryCalls,
                           Question("write", IF ofShown THEN qryView.main ELSE qryKey, FALSE))
  /\ UNCHANGED <<qryPage, qryKey>>

\* What follows an answer about k.
Follows(what, k, view, calls) ==
  CASE what = "nothing" -> qryView' = Quietly(view) /\ qryCalls' = calls
    [] what = "own" -> qryView' = [view EXCEPT !.rest = k] /\ qryCalls' = calls
    [] what = "rest" -> qryView' = view /\ qryCalls' = Append(calls, Question("rest", k, FALSE))
    [] what = "again" -> AskFor(qryKey, view, calls, "key")

MainAnswered(i, served) ==
  LET c == qryCalls[i]
      q == Query(qryView, c.key, c.silent)
      left == RemoveAt(qryCalls, i)
  IN /\ c.part = "main"
     /\ IF served THEN \E what \in q.then : Follows(what, c.key, q.done, left)
        ELSE qryView' = q.fail /\ qryCalls' = left

RestAnswered(i, served) ==
  LET q == Query(qryView, qryCalls[i].key, FALSE)
  IN /\ qryCalls[i].part = "rest"
     /\ qryView' = IF served THEN q.restDone ELSE q.restFail
     /\ qryCalls' = RemoveAt(qryCalls, i)

WriteAnswered(i, served) ==
  LET c == qryCalls[i]
      q == Query(qryView, c.key, FALSE)
      left == RemoveAt(qryCalls, i)
  IN /\ c.part = "write"
     /\ CASE ~ served -> qryView' = q.writeFail /\ qryCalls' = left
          [] served /\ q.writes = "asks" ->
               \E what \in {"own", "rest"} : Follows(what, c.key, q.writeDone, left)
          [] served /\ q.writes = "reloads" ->
               AskFor(IF qryPage.name \in Keyless THEN qryKey ELSE c.key, qryView, left, "user")
          [] OTHER -> qryView' = q.writeDone /\ qryCalls' = left

AnsweredCall(i, served) ==
  /\ qryPage.ordered => i = 1
  /\ MainAnswered(i, served) \/ RestAnswered(i, served) \/ WriteAnswered(i, served)
  /\ UNCHANGED <<qryPage, qryKey>>

QueriesNext ==
  \/ \E page \in QryPages, user \in QryUsers, ordered \in BOOLEAN, k \in QryKeys :
       OpenQueryPage(page, user, ordered, k)
  \/ \E k \in QryKeys : ChangeKey(k) \/ ServerMoved(k)
  \/ Refresh \/ Poll \/ BeginWrite
  \/ \E i \in DOMAIN qryCalls, served \in BOOLEAN : AnsweredCall(i, served)

\* Questions are answered, those of former keys too; those of the key not always with a
\* failure; timers fire.
SomeAnswered == \E i \in DOMAIN qryCalls, served \in BOOLEAN : AnsweredCall(i, served)
FormerAnswered ==
  \E i \in DOMAIN qryCalls, served \in BOOLEAN : qryCalls[i].key # qryKey /\ AnsweredCall(i, served)
CurrentServed ==
  \E i \in DOMAIN qryCalls :
    qryCalls[i].part = "main" /\ qryCalls[i].key = qryKey /\ AnsweredCall(i, TRUE)

QueriesFairness ==
  /\ WF_qryVars(SomeAnswered) /\ WF_qryVars(FormerAnswered)
  /\ SF_qryVars(CurrentServed) /\ SF_qryVars(Poll)

QueriesSpec == QueriesInit /\ [][QueriesNext]_qryVars /\ QueriesFairness

-----------------------------------------------------------------------------
(* Properties *)

\* Which pages settle on their key, and how much they ask for that.
InAnyOrder == {"alertsCenter", "alertsPopover", "history", "clientDashboard", "areaDetails",
               "adminStats", "adminPending", "propertyDetail", "properties", "clientMap",
               "adminMap", "gatewayStatus"}
InOrder == {"auditLogs", "aiUsage", "dashboardPreferences"}
OneByOne == {"nodeDetail", "gatewayDetail", "aiReports"}

Settles ==
  \/ qryPage.name \in InAnyOrder
  \/ qryPage.name \in InOrder /\ qryPage.ordered
  \/ qryPage.name \in InOrder \cup OneByOne /\ qryPage.user \in {"reads", "waits"}
  \/ qryPage.name = "alertDetail" /\ qryPage.user = "reads"
  \/ qryPage.name # "none" /\ qryPage.user = "stays"

\* Nothing of another key without a word; of an alert, no other's recommendation.
Fits(k) ==
  Notice \notin Screen =>
    Screen \subseteq {k} /\ (qryPage.name = "alertDetail" => qryView.rest \in {k, NoData})

\* Of the pages that drop the answers to former questions and store nothing, two blank
\* when their key changes and never show another key's data; the other two show what they
\* have only while the current key's answer is awaited.
FormerDataIsAwaited ==
  qryPage.name \in {"clientDashboard", "areaDetails", "history", "gatewayStatus"} =>
    \/ qryView.main \in {qryKey, NoData}
    \/ /\ qryPage.name \in {"history", "gatewayStatus"}
       /\ qryPage.name = "history" => qryView.loading
       /\ \E i \in DOMAIN qryCalls : qryCalls[i].part = "main" /\ qryCalls[i].key = qryKey

\* A page whose key stays shows in the end that key's data or says that something
\* failed, and nothing of the key before, whatever was in flight when the key changed:
\* in any order where answers are dropped, numbered, tagged, or asked for again by a
\* timer; if the network keeps the order where they are not; and where an answer asks
\* again for what its handler remembers, only for a user who waits; and an alert's, where
\* marking another still shown hides the failure, only for one who marks nothing.
SettledViewMatchesKey ==
  \A k \in QryKeys :
    <>[](qryKey = k /\ Settles) => <>[]Fits(k) /\ []<>(Screen # {})

=============================================================================
