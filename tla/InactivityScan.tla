---------------------------- MODULE InactivityScan ----------------------------
(***************************************************************************)
(* Inactivity alerts: a scan looks for nodes whose last reading is old and *)
(* that have no alert since, and commits what it creates at its end.  The  *)
(* scheduler asks for one again and again; an administrator may ask for    *)
(* one of a single node meanwhile.  Readings arrive late or in time.       *)
(***************************************************************************)
EXTENDS Naturals, FiniteSets

CONSTANTS
  InaNodes,
  InaScans,     \* requests
  InaDelta,     \* minutes_without_data
  InaMaxTime    \* bound: the clock

ASSUME ScanConstants == InaDelta \in Nat \ {0} /\ InaMaxTime \in Nat /\ InaDelta < InaMaxTime

VARIABLES
  inaClock,
  inaLast,      \* the latest reading of each node, 0 for none
  inaAlerts,    \* inactivity alerts
  inaScan,      \* requests: the snapshot they read, and since when they run
  inaOverlap    \* history: have two scans overlapped?

inaVars == <<inaClock, inaLast, inaAlerts, inaScan, inaOverlap>>

Times == 0..InaMaxTime
InaAlert == [node : InaNodes, at : Times]
NoScan == [nodes |-> {}, last |-> [n \in InaNodes |-> 0], alerts |-> {}, began |-> 0]

ScanTypeOK ==
  /\ inaClock \in Times /\ inaLast \in [InaNodes -> Times] /\ inaAlerts \subseteq InaAlert
  /\ inaScan \in [InaScans -> [nodes : SUBSET InaNodes, last : [InaNodes -> Times],
                               alerts : SUBSET InaAlert, began : Times]]
  /\ inaOverlap \in BOOLEAN

ScanInit ==
  /\ inaClock = 1 /\ inaLast = [n \in InaNodes |-> 0] /\ inaAlerts = {}
  /\ inaScan = [s \in InaScans |-> NoScan] /\ inaOverlap = FALSE

Open(s) == inaScan[s].nodes # {}

Tick ==
  /\ inaClock < InaMaxTime
  /\ inaClock' = inaClock + 1
  /\ UNCHANGED <<inaLast, inaAlerts, inaScan, inaOverlap>>

\* A reading is stamped by the gateway; one older than the last changes nothing here.
ReadingStored(n, stamp) ==
  /\ stamp <= inaClock /\ inaLast[n] < stamp
  /\ inaLast' = [inaLast EXCEPT ![n] = stamp]
  /\ UNCHANGED <<inaClock, inaAlerts, inaScan, inaOverlap>>

BeginScan(s, nodes) ==
  /\ ~ Open(s) /\ nodes # {}
  /\ inaScan' = [inaScan EXCEPT ![s] =
                   [nodes |-> nodes, last |-> inaLast, alerts |-> inaAlerts, began |-> inaClock]]
  /\ inaOverlap' = (inaOverlap \/ \E r \in InaScans : Open(r))
  /\ UNCHANGED <<inaClock, inaLast, inaAlerts>>

\* Mutant: an alert stands only as long as nodes may be silent.
OutageAlertsByAge(scan, n) == {a \in scan.alerts : a.node = n /\ a.at + InaDelta > inaClock}

\* The alerts of the scan's snapshot that belong to the outage of n.
OutageAlerts(scan, n) == {a \in scan.alerts : a.node = n /\ a.at >= scan.last[n]}
HasAlertForCurrentOutage(scan, n) == OutageAlerts(scan, n) # {}

Inactive(scan, now) == {n \in scan.nodes : scan.last[n] > 0 /\ now - scan.last[n] >= InaDelta}

\* The search expects one alert: with two the whole scan fails.
ScanFails(scan, now) == \E n \in Inactive(scan, now) : Cardinality(OutageAlerts(scan, n)) > 1

create_alert(n, now) == [node |-> n, at |-> now]

\* now is read after the snapshot was taken and before the commit.
scan_inactivity_alerts(s, now) ==
  LET scan == inaScan[s]
      missed == {n \in Inactive(scan, now) : ~ HasAlertForCurrentOutage(scan, n)}
  IN /\ Open(s) /\ now \in scan.began..inaClock
     /\ inaAlerts' = IF ScanFails(scan, now) THEN inaAlerts
                     ELSE inaAlerts \cup {create_alert(n, now) : n \in missed}
     /\ inaScan' = [inaScan EXCEPT ![s] = NoScan]
     /\ UNCHANGED <<inaClock, inaLast, inaOverlap>>

\* The process stops, or the commit fails.
ScanLost(s) ==
  /\ Open(s)
  /\ inaScan' = [inaScan EXCEPT ![s] = NoScan]
  /\ UNCHANGED <<inaClock, inaLast, inaAlerts, inaOverlap>>

ScanNext ==
  \/ Tick
  \/ \E n \in InaNodes, stamp \in 1..(InaMaxTime - InaDelta) : ReadingStored(n, stamp)
  \/ \E s \in InaScans, nodes \in {InaNodes} \cup {{n} : n \in InaNodes} : BeginScan(s, nodes)
  \/ \E s \in InaScans : ScanLost(s) \/ \E now \in Times : scan_inactivity_alerts(s, now)

\* The scheduler's scans, which do not all fail.
ScheduledScan == \E s \in InaScans : BeginScan(s, InaNodes)
ScheduledScanEnds ==
  \E s \in InaScans, now \in Times :
    inaScan[s].nodes = InaNodes /\ scan_inactivity_alerts(s, now)

ScanFairness ==
  /\ WF_inaVars(Tick) /\ WF_inaVars(ScheduledScan)
  /\ SF_inaVars(ScheduledScanEnds)

ScanSpec == ScanInit /\ [][ScanNext]_inaVars /\ ScanFairness

AlertsSince(n, t) == {a \in inaAlerts : a.node = n /\ a.at >= t}

\* Two scans that overlap may each announce one outage; until then no outage has two
\* alerts, whatever is stored or lost while a scan runs, and so no scan finds two and
\* fails (HasAlertForCurrentOutage's search expects one at most).
OneAlertAtMost ==
  ~ inaOverlap =>
    /\ \A n \in InaNodes : \A a, b \in AlertsSince(n, inaLast[n]) : a = b
    /\ \A s \in InaScans, now \in Times : Open(s) => ~ ScanFails(inaScan[s], now)

\* A node that stays silent gets one alert for it in the end, neither none nor two,
\* whatever arrived late and whichever scans were lost, as long as no two overlapped.
OneAlertPerOutage ==
  <>[](\A n \in InaNodes :
         inaLast[n] \in 1..(InaMaxTime - InaDelta) /\ ~ inaOverlap =>
           Cardinality(AlertsSince(n, inaLast[n])) = 1)

=============================================================================
