SPECIFICATION PlatformSpec
CONSTANTS
 WebUsers = {u1, u2}
 WebAdmins = {u1}
 WebCalls = {w1, w2}
 Nobody = Nobody
 WizGateways = {l1}
 WizCalls = {x1, x2}
 WizMaxMoves = 1
 InList = InList
 InNew = InNew
 QryKeys = {q1, q2}
 NoData = NoData
 QryMaxCalls = 2
 InaNodes = {n1}
 InaScans = {s1, s2}
 InaDelta = 2
 InaMaxTime = 5
 DisAlerts = {1, 2, 3}
 DisChannels = {email, whatsapp}
 DisRuns = {d1}
 DisLimit = 2
 DisMaxUpsets = 1
 RepAreas = {1, 2}
 RepRuns = {r1, r2}
 NoReportRun = NoReportRun
 RepMaxDay = 2
 RepMaxUpsets = 1
INVARIANTS
 PlatformTypeOK
 PlatformSafe
 SessionOfOneUser
PROPERTIES
 RequestsSettle
 WizardCatchesUp
 SettledViewMatchesKey
 OneAlertPerOutage
 AlertsReachClients
 OneReportPerDay
CHECK_DEADLOCK FALSE
